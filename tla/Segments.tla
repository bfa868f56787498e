------------------------------- MODULE Segments -------------------------------
(***************************************************************************)
(* The sliding windows a text is cut into before a model reads it          *)
(* (segmenter in ai-engine/app/extraction/normalize.py) and the trimming   *)
(* of the spans the model returns (recadrer in app/detection/ner.py).      *)
(*                                                                         *)
(* A text is its length and the positions of its blanks; a window is an    *)
(* interval [debut, fin) of positions, from 0.                             *)
(***************************************************************************)
EXTENDS Integers, FiniteSetsExt

CONSTANTS
  fenetre_sous_mots,        \* FENETRE_SOUS_MOTS (512): the window, in subwords
  recouvrement_sous_mots,   \* RECOUVREMENT_SOUS_MOTS (64): what two windows share
  CaracteresParSousMot      \* characters in a subword (4)

taille == fenetre_sous_mots * CaracteresParSousMot
recul == recouvrement_sous_mots * CaracteresParSousMot
pas == IF taille - recul < 1 THEN 1 ELSE taille - recul

\* What the configuration must satisfy for the overlap to keep its promise; the values
\* by default (2048, 256, 1792) do.
ASSUME Decoupage ==
  /\ fenetre_sous_mots \in Nat \ {0}
  /\ recouvrement_sous_mots \in Nat \ {0}
  /\ CaracteresParSousMot \in Nat \ {0}
  /\ recul <= pas \div 2

\* The blanks where the window that begins at debut may be cut.
Coupures(t, debut, fin) == {p \in t.espaces : debut + (pas \div 2) <= p /\ p < fin}

FinSegment(t, debut) ==
  LET fin == debut + taille
  IN IF fin >= t.longueur THEN t.longueur
     ELSE IF Coupures(t, debut, fin) = {} THEN fin
     ELSE Max(Coupures(t, debut, fin))

\* Mutant: the next window begins where the last one ended.
SansRecouvrement(t, debut) == FinSegment(t, debut)

DebutSuivant(t, debut) ==
  IF FinSegment(t, debut) - recul > debut + 1 THEN FinSegment(t, debut) - recul ELSE debut + 1

-----------------------------------------------------------------------------

\* The span without the blanks around it; empty when it holds nothing else.
recadrer(t, debut, fin) ==
  LET pleins == {p \in debut..(fin - 1) : 0 <= p /\ p < t.longueur /\ p \notin t.espaces}
  IN IF pleins = {} THEN <<debut, debut>> ELSE <<Min(pleins), Max(pleins) + 1>>
=============================================================================
