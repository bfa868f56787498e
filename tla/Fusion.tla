-------------------------------- MODULE Fusion --------------------------------
(***************************************************************************)
(* Fusion of the detections and arbitration of overlaps                    *)
(* (ai-engine/app/detection/merge.py).                                     *)
(*                                                                         *)
(* The loop of fusionner is a state machine: restants are the candidates   *)
(* the loop has not met, retenues those it keeps.  A candidate is a record *)
(* without its method, which the loop mutates: methodes holds it.          *)
(***************************************************************************)
EXTENDS Integers, FiniteSets

VARIABLES candidats, methodes, restants, retenues

varsFusion == <<candidats, methodes, restants, retenues>>

Methodes == {"regle", "ner", "fusion"}

\* A detection without its method.
Candidat(d) == [type |-> d.type, debut |-> d.debut, fin |-> d.fin,
                score |-> d.score, valide |-> d.valide]

Longueur(c) == c.fin - c.debut

-----------------------------------------------------------------------------
(* The order of arbitration: validated, then wider, then more confident. *)

\* _priorite(a) > _priorite(b)
PlusForte(a, b) ==
  \/ a.valide /\ ~b.valide
  \/ /\ a.valide = b.valide
     /\ \/ Longueur(a) > Longueur(b)
        \/ Longueur(a) = Longueur(b) /\ a.score > b.score

SeChevauchent(a, b) == a.debut < b.fin /\ b.debut < a.fin

MemeCle(a, b) == a.type = b.type /\ a.debut = b.debut /\ a.fin = b.fin

-----------------------------------------------------------------------------
(* dedupliquer: of the detections of one type and one span, the strongest;  *)
(* its method is 'fusion' when both families reached that priority.        *)

Dedupliquees(detections) ==
  {Candidat(d) : d \in {e \in detections :
     \A f \in detections : MemeCle(e, f) => ~PlusForte(f, e)}}

MethodeInitiale(c, detections) ==
  LET vues == {d.methode : d \in {e \in detections : Candidat(e) = c}}
  IN IF Cardinality(vues) > 1 THEN "fusion" ELSE CHOOSE m \in vues : TRUE

EntrerFusion(detections) ==
  /\ candidats' = Dedupliquees(detections)
  /\ methodes' = [c \in candidats' |-> MethodeInitiale(c, detections)]
  /\ restants' = candidats'
  /\ retenues' = {}

-----------------------------------------------------------------------------
(* The loop.  The two sorts of the list make it take the strongest first;  *)
(* at equal priority their order (position, type) decides which comes      *)
(* first, and any of them may here.                                        *)

\* Mutant: the list is not sorted by priority.
PremierQuelconque(c) == c \in restants

Premier(c) == c \in restants /\ \A d \in restants : ~PlusForte(d, c)

Conflits(c) == {e \in retenues : SeChevauchent(e, c)}

\* Mutant: a tie is lost by the one met last.
GagnantsEtEgaux(c) == {e \in Conflits(c) : ~PlusForte(c, e)}

Gagnants(c) == {e \in Conflits(c) : PlusForte(e, c)}

Perdants(c) == {e \in Conflits(c) : PlusForte(c, e)}

\* Mutant: any overlap counts as a corroboration.
MarqueesToujours(ensemble, c) ==
  [e \in candidats |-> IF e \in ensemble THEN "fusion" ELSE methodes[e]]

\* Mutant: only the methods of the winners survive.
MarqueesSeules(ensemble, c) ==
  [e \in ensemble |-> IF methodes[e] # methodes[c] THEN "fusion" ELSE methodes[e]]

Marquees(ensemble, c) ==
  [e \in candidats |->
     IF e \in ensemble /\ methodes[e] # methodes[c] THEN "fusion" ELSE methodes[e]]

\* No stronger one is kept: the candidate is, and the weaker ones give way.  The
\* list holds one candidate per type and span, so the exact double the code
\* looks for among the ties (merge.py:100) cannot be there.
Retenir(c) ==
  /\ Gagnants(c) = {}
  /\ retenues' = (retenues \ Perdants(c)) \union {c}
  /\ methodes' = [methodes EXCEPT ![c] =
       IF \E p \in Perdants(c) : methodes[p] # @ THEN "fusion" ELSE @]

\* A stronger one is kept already: the candidate is dropped, its method noted.
Ecarter(c) ==
  /\ Gagnants(c) # {}
  /\ methodes' = Marquees(Gagnants(c), c)
  /\ UNCHANGED retenues

Arbitrer(c) ==
  /\ Premier(c)
  /\ restants' = restants \ {c}
  /\ UNCHANGED candidats
  /\ Retenir(c) \/ Ecarter(c)

ArbitrageFini == restants = {}

-----------------------------------------------------------------------------
(* What the arbitration means, without a loop. *)

\* K is what remains of C: a candidate is in K unless a member of K that overlaps
\* it is stronger.  At most one K is, since the strongest are in every K.
Stable(K, C) ==
  \A c \in C : c \in K <=> ~ \E e \in K : SeChevauchent(e, c) /\ PlusForte(e, c)

Noyau(C) == CHOOSE K \in SUBSET C : Stable(K, C)
=============================================================================
