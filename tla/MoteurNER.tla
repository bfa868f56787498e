------------------------------- MODULE MoteurNER -------------------------------
(***************************************************************************)
(* Detection of named entities (ai-engine/app/detection/ner.py): threads   *)
(* of the server share one engine, built once under a lock                 *)
(* (obtenir_moteur, _construire_moteur), then read their text window by    *)
(* window (detecter of each engine).                                       *)
(*                                                                         *)
(* The life span of the application (app/main.py, cycle_de_vie) builds the *)
(* engine before any request is accepted; an application driven without    *)
(* it, as the tests do, accepts requests at once.                          *)
(*                                                                         *)
(* A text to analyse is a record [longueur, espaces, entite, adresses]:    *)
(* entite is the span of a name in it, adresses the matches of the address *)
(* patterns.  Scores are in thousandths.                                   *)
(***************************************************************************)
EXTENDS Segments

CONSTANTS
  Fils,            \* the threads that serve requests
  Demandes,        \* Demandes[f]: the texts the requests of f may bring
  Backends,        \* the values of NER_BACKEND tried
  NerThreshold     \* NER_THRESHOLD (500)

VARIABLES
  backend,         \* NER_BACKEND
  accepte,         \* requests are accepted
  moteur,          \* _moteur
  verrou,          \* _verrou: the thread that holds it, or libre
  appels,          \* appels[f]: the call in progress on f
  constructions    \* how many times an engine was built

vars == <<backend, accepte, moteur, verrou, appels, constructions>>

libre == "libre"
absent == "absent"

ner_actif == backend \notin {"", "aucun", "none"}

\* The engine asked for, the other spaCy model, or no model at all.
Constructibles ==
  CASE backend = "spacy" -> {"spacy", "spacy_sm", "aucun"}
    [] backend \in {"camembert", "presidio"} -> {backend, "aucun"}
    [] OTHER -> {"aucun"}

Moteurs == {"spacy", "spacy_sm", "camembert", "presidio", "aucun"}

\* Calls that only want the engine bring no text: /sante and the life span.
SansTexte == [longueur |-> 0, espaces |-> {}, entite |-> <<0, 0>>, adresses |-> {}]

ASSUME LibreNEstPasUnFil == libre \notin Fils

\* The name begins and ends with a character, in the text; the addresses are in the text.
ASSUME TextesBienFormes ==
  \A f \in Fils : \A t \in Demandes[f] :
    /\ t \in [longueur : Nat, espaces : SUBSET Int, entite : Int \X Int,
              adresses : SUBSET [debut : Int, fin : Int, score : Nat]]
    /\ 0 <= t.entite[1] /\ t.entite[1] < t.entite[2] /\ t.entite[2] <= t.longueur
    /\ t.entite[1] \notin t.espaces /\ t.entite[2] - 1 \notin t.espaces
    /\ \A a \in t.adresses : 0 <= a.debut /\ a.fin <= t.longueur

Etapes == {"repos", "lecture", "attente", "section", "construction", "sortie",
           "analyse", "filtre"}

Repos == [etape |-> "repos", texte |-> SansTexte, moteur |-> absent, debut |-> 0,
          entites |-> {}]

Init ==
  /\ backend \in Backends
  /\ accepte \in BOOLEAN
  /\ moteur = absent
  /\ verrou = libre
  /\ appels = [f \in Fils |-> Repos]
  /\ constructions = 0

Avancer(f, appel) == appels' = [appels EXCEPT ![f] = appel]

Entite(span, score) == [debut |-> span[1], fin |-> span[2], score |-> score]

-----------------------------------------------------------------------------
(* A call *)

EstBlanc(t) == \A p \in 0..(t.longueur - 1) : p \in t.espaces

LongueurMinAdresse == 8

\* Of two matches with the same span the first pattern (650) is kept.
detecter_adresses(t) ==
  LET longues == {a \in t.adresses : a.fin - a.debut >= LongueurMinAdresse}
  IN {a \in longues : \A b \in longues :
        b.debut = a.debut /\ b.fin = a.fin => b.score <= a.score}

\* detecter: a blank text is not analysed.
Appeler(f) ==
  /\ appels[f].etape = "repos" /\ accepte
  /\ \E t \in Demandes[f] :
       /\ ~EstBlanc(t)
       /\ Avancer(f, [Repos EXCEPT !.etape = IF ner_actif THEN "lecture" ELSE "filtre",
                                   !.texte = t, !.entites = detecter_adresses(t)])
  /\ UNCHANGED <<backend, accepte, moteur, verrou, constructions>>

\* GET /sante; cycle_de_vie before requests are accepted, with no thread at work.
DemanderMoteur(f) ==
  /\ appels[f].etape = "repos" /\ ner_actif
  /\ accepte \/ \A g \in Fils : appels[g].etape = "repos"
  /\ Avancer(f, [Repos EXCEPT !.etape = "lecture"])
  /\ UNCHANGED <<backend, accepte, moteur, verrou, constructions>>

\* End of the start of cycle_de_vie.
Accepter ==
  /\ ~accepte /\ accepte' = TRUE
  /\ ner_actif => moteur # absent
  /\ UNCHANGED <<backend, moteur, verrou, appels, constructions>>

-----------------------------------------------------------------------------
(* obtenir_moteur *)

\* The call goes on with the engine: through its windows, or to its end.
AvecMoteur(f, m) ==
  [appels[f] EXCEPT !.moteur = m,
     !.etape = IF appels[f].texte = SansTexte \/ m = "aucun" THEN "filtre" ELSE "analyse"]

LireMoteur(f) ==
  /\ appels[f].etape = "lecture"
  /\ IF moteur # absent
     THEN Avancer(f, AvecMoteur(f, moteur))
     ELSE Avancer(f, [appels[f] EXCEPT !.etape = "attente"])
  /\ UNCHANGED <<backend, accepte, moteur, verrou, constructions>>

PrendreVerrou(f) ==
  /\ appels[f].etape = "attente" /\ verrou = libre
  /\ verrou' = f
  /\ Avancer(f, [appels[f] EXCEPT !.etape = "section"])
  /\ UNCHANGED <<backend, accepte, moteur, constructions>>

\* Mutant: the engine is not looked at again once the lock is held.
RelireMoteurOublie(f) ==
  /\ appels[f].etape = "section"
  /\ Avancer(f, [appels[f] EXCEPT !.etape = "construction"])
  /\ UNCHANGED <<backend, accepte, moteur, verrou, constructions>>

RelireMoteur(f) ==
  /\ appels[f].etape = "section"
  /\ IF moteur # absent
     THEN verrou' = libre /\ Avancer(f, AvecMoteur(f, moteur))
     ELSE UNCHANGED verrou /\ Avancer(f, [appels[f] EXCEPT !.etape = "construction"])
  /\ UNCHANGED <<backend, accepte, moteur, constructions>>

\* _construire_moteur: whatever fails, some engine is kept.
Construire(f) ==
  /\ appels[f].etape = "construction"
  /\ \E m \in Constructibles :
       /\ moteur' = m
       /\ Avancer(f, [appels[f] EXCEPT !.etape = "sortie", !.moteur = m])
  /\ constructions' = constructions + 1
  /\ UNCHANGED <<backend, accepte, verrou>>

\* Mutant: the lock is kept.
RendreVerrouOublie(f) ==
  /\ appels[f].etape = "sortie"
  /\ Avancer(f, AvecMoteur(f, appels[f].moteur))
  /\ UNCHANGED <<backend, accepte, moteur, verrou, constructions>>

RendreVerrou(f) ==
  /\ appels[f].etape = "sortie"
  /\ verrou' = libre
  /\ Avancer(f, AvecMoteur(f, appels[f].moteur))
  /\ UNCHANGED <<backend, accepte, moteur, constructions>>

-----------------------------------------------------------------------------
(* The windows *)

\* What the model may answer on [debut, fin): a name it sees whole, with or without the
\* blank before or after it; of a name it sees in part, that part or nothing.
Reponses(t, debut, fin) ==
  LET d == t.entite[1]
      f == t.entite[2]
      visible == <<IF d < debut THEN debut ELSE d, IF f > fin THEN fin ELSE f>>
      avant == {p \in {d - 1} : p >= debut /\ p \in t.espaces}
      apres == {p \in {f + 1} : p <= fin /\ p - 1 \in t.espaces}
  IN IF debut <= d /\ f <= fin THEN {<<g, h>> : g \in {d} \union avant, h \in {f} \union apres}
     ELSE IF visible[1] < visible[2] THEN {visible, <<debut, debut>>}
     ELSE {<<debut, debut>>}

ScoreDe(m) == IF m \in {"spacy", "spacy_sm"} THEN 850 ELSE 900

\* Mutant: a span left empty is kept.
AjouteesMemeVides(span, m) == {Entite(span, ScoreDe(m))}

\* An empty value is no entity.
Ajoutees(span, m) == IF span[1] < span[2] THEN {Entite(span, ScoreDe(m))} ELSE {}

\* The call once a span was read.
Poursuivi(a, span, etape, debut) ==
  [etape |-> etape, texte |-> a.texte, moteur |-> a.moteur, debut |-> debut,
   entites |-> a.entites \union Ajoutees(span, a.moteur)]

\* One turn of the loop of detecter (spaCy, CamemBERT).
LireSegment(f) ==
  LET a == appels[f]
      fin == FinSegment(a.texte, a.debut)
  IN /\ a.etape = "analyse" /\ a.moteur # "presidio"
     /\ \E brute \in Reponses(a.texte, a.debut, fin) :
          LET span == recadrer(a.texte, brute[1], brute[2])
          IN Avancer(f, IF fin >= a.texte.longueur
                        THEN Poursuivi(a, span, "filtre", a.texte.longueur)
                        ELSE Poursuivi(a, span, "analyse", DebutSuivant(a.texte, a.debut)))
     /\ UNCHANGED <<backend, accepte, moteur, verrou, constructions>>

\* Presidio reads the text at once and its spans are taken as they are.
LireEntier(f) ==
  LET a == appels[f]
  IN /\ a.etape = "analyse" /\ a.moteur = "presidio"
     /\ \E brute \in Reponses(a.texte, 0, a.texte.longueur) :
          Avancer(f, Poursuivi(a, brute, "filtre", a.texte.longueur))
     /\ UNCHANGED <<backend, accepte, moteur, verrou, constructions>>

\* The model raises: the request is answered 500.
Echouer(f) ==
  /\ appels[f].etape = "analyse"
  /\ Avancer(f, Repos)
  /\ UNCHANGED <<backend, accepte, moteur, verrou, constructions>>

\* What detecter returns.
Rendues(f) == {e \in appels[f].entites : e.score >= NerThreshold}

Rendre(f) ==
  /\ appels[f].etape = "filtre"
  /\ Avancer(f, Repos)
  /\ UNCHANGED <<backend, accepte, moteur, verrou, constructions>>

-----------------------------------------------------------------------------

EtapeAppel(f) ==
  \/ LireMoteur(f) \/ PrendreVerrou(f) \/ RelireMoteur(f) \/ Construire(f)
  \/ RendreVerrou(f) \/ LireSegment(f) \/ LireEntier(f) \/ Rendre(f)

Next ==
  \/ Accepter
  \/ \E f \in Fils : Appeler(f) \/ DemanderMoteur(f) \/ EtapeAppel(f) \/ Echouer(f)

Spec == Init /\ [][Next]_vars

\* The system schedules every thread; a lock that stays free is taken in the end.
SpecEquitable == Spec /\ \A f \in Fils : WF_vars(EtapeAppel(f))

-----------------------------------------------------------------------------
(* Properties *)

\* Type correctness; the spans of the entities are not empty and lie in the text.
TypeOK ==
  /\ backend \in Backends /\ accepte \in BOOLEAN
  /\ moteur \in Moteurs \union {absent}
  /\ verrou \in Fils \union {libre}
  /\ constructions \in Nat
  /\ \A f \in Fils :
       /\ appels[f].etape \in Etapes
       /\ appels[f].moteur \in Moteurs \union {absent}
       /\ appels[f].debut \in 0..appels[f].texte.longueur
       /\ \A e \in appels[f].entites :
            0 <= e.debut /\ e.debut < e.fin /\ e.fin <= appels[f].texte.longueur

\* However many requests arrive together, one engine is built in the life of the
\* process, and every call that detects does it with that one (ner.py:252-257: of two
\* initialisations the one that fails "peut gagner et le service reste durablement sans
\* NER").
UnSeulMoteur ==
  /\ constructions <= 1
  /\ \A f \in Fils : appels[f].etape \in {"analyse", "filtre"} /\ appels[f].moteur # absent =>
       appels[f].moteur = moteur

\* "une entité à cheval sur une frontière est vue entière au moins une fois"
\* (normalize.py:132): a name no longer than what two windows share is among the
\* entities of the call, with its exact span, wherever the cuts fall and whatever blanks
\* the model adds around it.
EntiteVueEntiere ==
  \A f \in Fils :
    LET a == appels[f]
    IN a.etape = "filtre" /\ a.moteur \in {"spacy", "spacy_sm", "camembert"}
         /\ a.texte.entite[2] - a.texte.entite[1] <= recul /\ a.texte # SansTexte
       => Entite(a.texte.entite, ScoreDe(a.moteur)) \in a.entites

\* Every call ends: nobody waits for ever on the lock, and the loop on the windows of a
\* text terminates.
ChaqueAppelFinit ==
  \A f \in Fils : appels[f].etape # "repos" ~> appels[f].etape = "repos"
=============================================================================
