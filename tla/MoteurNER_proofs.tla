--------------------------- MODULE MoteurNER_proofs ---------------------------
(***************************************************************************)
(* What MoteurNER guarantees for any number of threads, any texts and any  *)
(* windows.                                                                *)
(*                                                                         *)
(* The argument.  The lock makes its holder alone past PrendreVerrou       *)
(* (Exclusion), and the holder builds only what it has just seen absent    *)
(* (RienDeConstruit): the engine is built once, and never changes again.   *)
(* On the windows: an entity no longer than the overlap is either among    *)
(* the entities already or still wholly ahead of the window that comes     *)
(* (DejaVueOuDevant), because the window after goes back by recul at least *)
(* and a cut never comes before recul.                                     *)
(***************************************************************************)
EXTENDS MoteurNER, FiniteSetTheorems, NaturalsInduction, TLAPS

\* A set of natural numbers has a least element.
LEMMA NatMinimal ==
  ASSUME NEW T \in SUBSET Nat, T # {}
  PROVE  \E t \in T : \A y \in T : t <= y
  <1>1. PICK t \in T : \A y \in T : ~ (<<y, t>> \in OpToRel(<, Nat))
    BY NatLessThanWellFounded, WFMin
  <1>2. ASSUME NEW y \in T, ~ (t <= y) PROVE FALSE
    <2>1. y < t /\ <<y, t>> \in Nat \X Nat
      BY <1>2
    <2>2. <<y, t>> \in OpToRel(<, Nat)
      BY <2>1 DEF OpToRel
    <2>. QED
      BY <1>1, <2>2
  <1>. QED
    BY <1>2

Spans == [debut : Int, fin : Int, score : Int]

TextesDe(f) == Demandes[f] \union {SansTexte}

AppelsDe(f) ==
  [etape : Etapes, texte : TextesDe(f), moteur : Moteurs \union {absent},
   debut : Int, entites : SUBSET Spans]

Types ==
  /\ backend \in Backends /\ accepte \in BOOLEAN
  /\ moteur \in Moteurs \union {absent}
  /\ verrou \in Fils \union {libre}
  /\ constructions \in Nat
  /\ DOMAIN appels = Fils
  /\ \A f \in Fils : appels[f] \in AppelsDe(f)

Exclusion ==
  \A f \in Fils : appels[f].etape \in {"section", "construction", "sortie"} => verrou = f

\* Nothing is built before the step that builds, and what is built stays.
RienDeConstruit ==
  /\ moteur = absent => constructions = 0
  /\ constructions <= 1
  /\ \A f \in Fils :
       /\ appels[f].etape = "construction" => moteur = absent
       /\ appels[f].etape = "sortie" => appels[f].moteur = moteur /\ moteur # absent
       /\ appels[f].etape \in {"analyse", "filtre"} /\ appels[f].moteur # absent =>
            appels[f].moteur = moteur

\* Where the next window begins, and what the entities of a call are.
Position(a) ==
  /\ 0 <= a.debut /\ a.debut <= a.texte.longueur
  /\ a.etape \notin {"analyse", "filtre"} => a.debut = 0
  /\ a.etape = "analyse" => a.texte # SansTexte /\ a.debut < a.texte.longueur
  /\ \A e \in a.entites : 0 <= e.debut /\ e.debut < e.fin /\ e.fin <= a.texte.longueur

Lecteurs == {"spacy", "spacy_sm", "camembert"}

\* A name no longer than the overlap was seen, or is still ahead.
DejaVueOuDevant(a) ==
  /\ a.etape \in {"analyse", "filtre"} /\ a.moteur \in Lecteurs /\ a.texte # SansTexte
  /\ a.texte.entite[2] - a.texte.entite[1] <= recul
  => \/ Entite(a.texte.entite, ScoreDe(a.moteur)) \in a.entites
     \/ a.etape = "analyse" /\ a.debut <= a.texte.entite[1]

\* The inductive invariant.
IInv ==
  /\ Types
  /\ Exclusion
  /\ RienDeConstruit
  /\ \A f \in Fils : Position(appels[f]) /\ DejaVueOuDevant(appels[f])

-------------------------------------------------------------------------------
(* Intervals, and the windows. *)

\* A set of integers that is bounded above has a maximum.
LEMMA MaxBorne ==
  ASSUME NEW S \in SUBSET Int, S # {}, NEW b \in Int, \A x \in S : x <= b
  PROVE  /\ Max(S) \in S
         /\ \A x \in S : x <= Max(S)
  <1>. DEFINE T == {n \in Nat : b - n \in S}
  <1>1. \A x \in S : b - x \in T
    OBVIOUS
  <1>2. T # {}
    BY <1>1
  <1>. HIDE DEF T
  <1>3. T \in SUBSET Nat
    BY DEF T
  <1>4. PICK t \in T : \A y \in T : t <= y
    BY <1>2, <1>3, NatMinimal
  <1>5. b - t \in S
    BY <1>4 DEF T
  <1>6. \A x \in S : b - t >= x
    BY <1>1, <1>3, <1>4
  <1>. QED
    BY <1>5, <1>6 DEF Max

\* A set of integers that is bounded below has a minimum.
LEMMA MinBorne ==
  ASSUME NEW S \in SUBSET Int, S # {}, NEW b \in Int, \A x \in S : b <= x
  PROVE  /\ Min(S) \in S
         /\ \A x \in S : Min(S) <= x
  <1>. DEFINE T == {n \in Nat : n + b \in S}
  <1>1. \A x \in S : x - b \in T
    OBVIOUS
  <1>2. T # {}
    BY <1>1
  <1>. HIDE DEF T
  <1>3. T \in SUBSET Nat
    BY DEF T
  <1>4. PICK t \in T : \A y \in T : t <= y
    BY <1>2, <1>3, NatMinimal
  <1>5. t + b \in S
    BY <1>4 DEF T
  <1>6. \A x \in S : t + b =< x
    BY <1>1, <1>3, <1>4
  <1>. QED
    BY <1>5, <1>6 DEF Min

\* The window moves on by more than what two windows share.
LEMMA Mesures ==
  /\ taille \in Nat /\ recul \in Nat /\ pas \in Nat
  /\ recul >= 1 /\ recul <= pas \div 2 /\ pas <= taille /\ pas \div 2 < taille
  /\ pas \div 2 \in Nat
  <1>1. \A m, n \in Nat \ {0} : m * n \in Nat \ {0}
    OBVIOUS
  <1>2. taille \in Nat \ {0} /\ recul \in Nat \ {0}
    BY <1>1, Decoupage DEF taille, recul
  <1>3. pas \in Nat /\ recul <= pas \div 2 /\ pas <= taille
    BY <1>2, Decoupage DEF pas
  <1>. QED
    BY <1>2, <1>3

Texte(t) ==
  /\ t \in [longueur : Nat, espaces : SUBSET Int, entite : Int \X Int,
            adresses : SUBSET [debut : Int, fin : Int, score : Nat]]
  /\ 0 <= t.entite[1] /\ t.entite[1] < t.entite[2] /\ t.entite[2] <= t.longueur
  /\ t.entite[1] \notin t.espaces /\ t.entite[2] - 1 \notin t.espaces

\* A window reaches further than what the next one goes back by.
LEMMA FinDeSegment ==
  ASSUME NEW t, Texte(t), NEW debut \in Nat, debut < t.longueur
  PROVE  /\ FinSegment(t, debut) \in Int
         /\ FinSegment(t, debut) <= t.longueur
         /\ debut < FinSegment(t, debut)
         /\ FinSegment(t, debut) < t.longueur => debut + recul <= FinSegment(t, debut)
  <1>. DEFINE fin == debut + taille
              C == Coupures(t, debut, fin)
  <1>1. t.longueur \in Nat /\ t.espaces \subseteq Int
    BY DEF Texte
  <1>2. CASE fin >= t.longueur
    BY <1>1, <1>2 DEF FinSegment
  <1>3. CASE ~ (fin >= t.longueur) /\ C = {}
    BY <1>1, <1>3, Mesures DEF FinSegment
  <1>4. CASE ~ (fin >= t.longueur) /\ C # {}
    <2>1. C \in SUBSET Int /\ \A x \in C : debut + (pas \div 2) <= x /\ x < fin /\ x <= fin
      BY <1>1, Mesures DEF Coupures
    <2>2. Max(C) \in C
      <3>1. fin \in Int
        BY Mesures
      <3>. QED
        BY <1>4, <2>1, <3>1, MaxBorne
    <2>3. FinSegment(t, debut) = Max(C)
      BY <1>4 DEF FinSegment
    <2>. QED
      BY <1>1, <1>4, <2>1, <2>2, <2>3, Mesures
  <1>. QED
    BY <1>2, <1>3, <1>4

\* The next window begins further, in the text, and before any name that this one does
\* not show whole.
LEMMA SegmentSuivant ==
  ASSUME NEW t, Texte(t), NEW debut \in Nat, debut < t.longueur,
         FinSegment(t, debut) < t.longueur
  PROVE  /\ DebutSuivant(t, debut) \in Nat
         /\ DebutSuivant(t, debut) < t.longueur
         /\ (/\ t.entite[2] - t.entite[1] <= recul
             /\ debut <= t.entite[1] /\ FinSegment(t, debut) < t.entite[2])
            => DebutSuivant(t, debut) <= t.entite[1]
  <1>1. t.longueur \in Nat /\ t.entite[1] \in Int /\ t.entite[2] \in Int
    BY DEF Texte
  <1>. QED
    BY <1>1, FinDeSegment, Mesures DEF DebutSuivant

\* What recadrer returns is empty or lies in the text.
LEMMA RecadrerDansLeTexte ==
  ASSUME NEW t, Texte(t), NEW g \in Int, NEW h \in Int
  PROVE  \E a, b \in Int :
           /\ recadrer(t, g, h) = <<a, b>>
           /\ a < b => 0 <= a /\ b <= t.longueur
  <1>. DEFINE P == {p \in g..(h - 1) : 0 <= p /\ p < t.longueur /\ p \notin t.espaces}
  <1>1. t.longueur \in Nat
    BY DEF Texte
  <1>2. CASE P = {}
    BY <1>2 DEF recadrer
  <1>3. CASE P # {}
    <2>1. P \in SUBSET Int /\ \A x \in P : 0 <= x /\ x <= t.longueur - 1 /\ x <= h - 1 /\ g <= x
      BY <1>1
    <2>2. h - 1 \in Int
      OBVIOUS
    <2>. HIDE DEF P
    <2>3. Max(P) \in P
      BY <1>3, <2>1, <2>2, MaxBorne
    <2>4. Min(P) \in P
      BY <1>3, <2>1, MinBorne
    <2>5. recadrer(t, g, h) = <<Min(P), Max(P) + 1>>
      BY <1>3 DEF recadrer, P
    <2>6. Min(P) \in Int /\ Max(P) + 1 \in Int /\ 0 <= Min(P) /\ Max(P) + 1 <= t.longueur
      <3>1. \A x \in P : x \in Int /\ 0 <= x /\ x + 1 \in Int /\ x + 1 <= t.longueur
        BY <1>1, <2>1
      <3>. QED
        BY <2>3, <2>4, <3>1
    <2>. QED
      BY <2>5, <2>6
  <1>. QED
    BY <1>2, <1>3

\* The blanks a model puts around a name are trimmed.
LEMMA RecadrerLeNom ==
  ASSUME NEW t, Texte(t), NEW g \in Int, NEW h \in Int,
         \/ g = t.entite[1]
         \/ g = t.entite[1] - 1 /\ g \in t.espaces,
         \/ h = t.entite[2]
         \/ h = t.entite[2] + 1 /\ h - 1 \in t.espaces
  PROVE  recadrer(t, g, h) = <<t.entite[1], t.entite[2]>>
  <1>. DEFINE P == {p \in g..(h - 1) : 0 <= p /\ p < t.longueur /\ p \notin t.espaces}
              d == t.entite[1]
              f == t.entite[2]
  <1>1. t.longueur \in Nat /\ d \in Int /\ f \in Int /\ 0 <= d /\ d < f /\ f <= t.longueur
        /\ d \notin t.espaces /\ f - 1 \notin t.espaces
    BY DEF Texte
  <1>2. d \in P /\ f - 1 \in P
    BY <1>1
  <1>3. \A x \in P : x \in Int /\ d <= x /\ x <= f - 1
    BY <1>1
  <1>4. recadrer(t, g, h) = <<Min(P), Max(P) + 1>>
    BY <1>2 DEF recadrer
  <1>. HIDE DEF P
  <1>5. Min(P) = d
    <2>1. PICK m \in P : m = Min(P) /\ \A y \in P : m =< y
      BY <1>2, <1>3 DEF Min
    <2>. QED
      BY <1>1, <1>2, <1>3, <2>1
  <1>6. Max(P) = f - 1
    <2>1. PICK m \in P : m = Max(P) /\ \A y \in P : m >= y
      BY <1>1, <1>2, <1>3 DEF Max
    <2>. QED
      BY <1>1, <1>2, <1>3, <2>1
  <1>. QED
    BY <1>1, <1>4, <1>5, <1>6

\* Where the model sees the name whole, the span kept is the name; in any case it is empty
\* or lies in the text.
LEMMA SpanLu ==
  ASSUME NEW t, Texte(t), NEW debut \in Nat, NEW fin \in Int, fin <= t.longueur,
         NEW brute \in Reponses(t, debut, fin)
  PROVE  /\ brute \in Int \X Int
         /\ debut <= t.entite[1] /\ t.entite[2] <= fin =>
              recadrer(t, brute[1], brute[2]) = <<t.entite[1], t.entite[2]>>
         /\ brute[1] < brute[2] => 0 <= brute[1] /\ brute[2] <= fin
  <1>1. t.entite[1] \in Int /\ t.entite[2] \in Int /\ 0 <= t.entite[1]
        /\ t.entite[1] < t.entite[2] /\ t.espaces \subseteq Int /\ t.longueur \in Nat
    BY DEF Texte
  <1>2. CASE debut <= t.entite[1] /\ t.entite[2] <= fin
    <2>1. PICK g, h : /\ brute = <<g, h>>
                      /\ \/ g = t.entite[1]
                         \/ g = t.entite[1] - 1 /\ g \in t.espaces /\ debut <= g
                      /\ \/ h = t.entite[2]
                         \/ h = t.entite[2] + 1 /\ h - 1 \in t.espaces /\ h <= fin
      BY <1>1, <1>2 DEF Reponses
    <2>2. g \in Int /\ h \in Int
      BY <1>1, <2>1
    <2>3. recadrer(t, g, h) = <<t.entite[1], t.entite[2]>>
      BY <2>1, <2>2, RecadrerLeNom
    <2>. QED
      BY <1>1, <1>2, <2>1, <2>2, <2>3
  <1>3. CASE ~ (debut <= t.entite[1] /\ t.entite[2] <= fin)
    BY <1>1, <1>3 DEF Reponses
  <1>. QED
    BY <1>2, <1>3

-------------------------------------------------------------------------------
(* Every step preserves the invariant. *)

LEMMA TexteDe ==
  ASSUME NEW f \in Fils, NEW t \in TextesDe(f), t # SansTexte
  PROVE  Texte(t)
  BY TextesBienFormes DEF TextesDe, Texte

LEMMA LongueurDe ==
  ASSUME NEW f \in Fils, NEW t \in TextesDe(f)
  PROVE  t.longueur \in Nat
  BY TextesBienFormes DEF TextesDe, SansTexte

LEMMA EntiteTypee ==
  ASSUME NEW a \in Int, NEW b \in Int, NEW m
  PROVE  /\ Entite(<<a, b>>, ScoreDe(m)) \in Spans
         /\ Entite(<<a, b>>, ScoreDe(m)).debut = a
         /\ Entite(<<a, b>>, ScoreDe(m)).fin = b
  BY DEF Entite, ScoreDe, Spans

\* A step of one thread that leaves the engine as it is.
LEMMA UnSeulFil ==
  ASSUME IInv, NEW f \in Fils, NEW a \in AppelsDe(f), Avancer(f, a),
         verrou' \in Fils \union {libre},
         UNCHANGED <<backend, accepte, moteur, constructions>>,
         \A g \in Fils \ {f} :
           appels[g].etape \in {"section", "construction", "sortie"} => verrou' = g,
         a.etape \in {"section", "construction", "sortie"} => verrou' = f,
         a.etape = "construction" => moteur = absent,
         a.etape = "sortie" => a.moteur = moteur /\ moteur # absent,
         a.etape \in {"analyse", "filtre"} /\ a.moteur # absent => a.moteur = moteur,
         Position(a), DejaVueOuDevant(a)
  PROVE  IInv'
  <1>1. /\ DOMAIN appels' = Fils
        /\ appels'[f] = a
        /\ \A g \in Fils \ {f} : appels'[g] = appels[g]
    BY DEF Avancer, IInv, Types
  <1>2. Types'
    BY <1>1 DEF IInv, Types, AppelsDe, TextesDe
  <1>3. Exclusion'
    BY <1>1 DEF Exclusion
  <1>4. RienDeConstruit'
    BY <1>1 DEF IInv, RienDeConstruit
  <1>5. \A g \in Fils : (Position(appels[g]) /\ DejaVueOuDevant(appels[g]))'
    <2>1. ASSUME NEW g \in Fils PROVE (Position(appels[g]) /\ DejaVueOuDevant(appels[g]))'
      <3>1. CASE g = f
        BY <1>1, <3>1 DEF Position, DejaVueOuDevant, Lecteurs
      <3>2. CASE g # f
        BY <1>1, <3>2 DEF IInv, Position, DejaVueOuDevant, Lecteurs
      <3>. QED
        BY <3>1, <3>2
    <2>. QED
      BY <2>1
  <1>. QED
    BY <1>2, <1>3, <1>4, <1>5 DEF IInv

LEMMA InitInv == Init => IInv
  <1>. SUFFICES ASSUME Init PROVE IInv
    OBVIOUS
  <1>. USE DEF Init, Repos
  <1>1. Types
    BY DEF Types, AppelsDe, TextesDe, Etapes
  <1>2. Exclusion /\ RienDeConstruit
    BY DEF Exclusion, RienDeConstruit
  <1>3. \A f \in Fils : Position(appels[f]) /\ DejaVueOuDevant(appels[f])
    BY DEF Position, DejaVueOuDevant, SansTexte
  <1>. QED
    BY <1>1, <1>2, <1>3 DEF IInv

\* A call that gets the engine has its windows before it.
LEMMA AvecMoteurInv ==
  ASSUME IInv, NEW f \in Fils, appels[f].etape \notin {"analyse", "filtre"},
         NEW m \in Moteurs
  PROVE  /\ AvecMoteur(f, m) \in AppelsDe(f)
         /\ AvecMoteur(f, m).moteur = m
         /\ AvecMoteur(f, m).etape \in {"analyse", "filtre"}
         /\ Position(AvecMoteur(f, m)) /\ DejaVueOuDevant(AvecMoteur(f, m))
  <1>. DEFINE a == appels[f]
              b == AvecMoteur(f, m)
              e == IF a.texte = SansTexte \/ m = "aucun" THEN "filtre" ELSE "analyse"
  <1>1. a \in AppelsDe(f) /\ Position(a) /\ a.debut = 0
    BY DEF IInv, Types, Position
  <1>2. /\ b.etape = e /\ b.texte = a.texte /\ b.moteur = m /\ b.debut = 0
        /\ b.entites = a.entites
        /\ b \in AppelsDe(f)
    BY <1>1 DEF AvecMoteur, AppelsDe, Etapes
  <1>3. a.texte \in TextesDe(f)
    BY <1>1 DEF AppelsDe
  <1>4. a.texte # SansTexte => Texte(a.texte)
    BY <1>3, TexteDe
  <1>5. Texte(a.texte) => /\ a.texte.longueur \in Nat /\ a.texte.entite[1] \in Int
                          /\ a.texte.entite[2] \in Int
                          /\ 0 <= a.texte.entite[1] /\ 0 < a.texte.longueur
    BY DEF Texte
  <1>. HIDE DEF b
  <1>6. Position(b)
    BY <1>1, <1>2, <1>4, <1>5 DEF Position
  <1>7. DejaVueOuDevant(b)
    BY <1>2, <1>4, <1>5 DEF DejaVueOuDevant, Lecteurs
  <1>. QED
    BY <1>2, <1>6, <1>7 DEF b

LEMMA ReposInv ==
  ASSUME NEW f \in Fils
  PROVE  Repos \in AppelsDe(f) /\ Position(Repos) /\ DejaVueOuDevant(Repos)
  BY DEF Repos, AppelsDe, TextesDe, Etapes, Position, DejaVueOuDevant, SansTexte

LEMMA AppelerInv ==
  ASSUME IInv, NEW f \in Fils, Appeler(f)
  PROVE  IInv'
  <1>1. PICK t \in Demandes[f] :
          Avancer(f, [Repos EXCEPT !.etape = IF ner_actif THEN "lecture" ELSE "filtre",
                                   !.texte = t, !.entites = detecter_adresses(t)])
    BY DEF Appeler
  <1>. DEFINE a == [Repos EXCEPT !.etape = IF ner_actif THEN "lecture" ELSE "filtre",
                                 !.texte = t, !.entites = detecter_adresses(t)]
              e == IF ner_actif THEN "lecture" ELSE "filtre"
  <1>2. a = [etape |-> e, texte |-> t, moteur |-> absent, debut |-> 0,
             entites |-> detecter_adresses(t)]
    <2>. HIDE DEF e
    <2>1. a = [Repos EXCEPT !.etape = e, !.texte = t, !.entites = detecter_adresses(t)]
      BY DEF e
    <2>. HIDE DEF a
    <2>. QED
      BY <2>1 DEF Repos
  <1>. HIDE DEF a
  <1>3. /\ t.longueur \in Nat
        /\ t.adresses \subseteq Spans
        /\ \A x \in t.adresses : 0 <= x.debut /\ x.fin <= t.longueur
    BY TextesBienFormes DEF Spans
  <1>4. /\ detecter_adresses(t) \subseteq Spans
        /\ \A x \in detecter_adresses(t) : 0 <= x.debut /\ x.debut < x.fin /\ x.fin <= t.longueur
    BY <1>3 DEF detecter_adresses, LongueurMinAdresse, Spans
  <1>5. a \in AppelsDe(f)
    BY <1>2, <1>4 DEF AppelsDe, TextesDe, Etapes, absent
  <1>6. Position(a)
    BY <1>2, <1>3, <1>4 DEF Position
  <1>7. DejaVueOuDevant(a)
    BY <1>2 DEF DejaVueOuDevant, Lecteurs, absent
  <1>8. /\ UNCHANGED <<backend, accepte, moteur, verrou, constructions>>
        /\ Avancer(f, a)
    BY <1>1 DEF Appeler, a
  <1>9. \A g \in Fils \ {f} :
          appels[g].etape \in {"section", "construction", "sortie"} => verrou' = g
    BY <1>8 DEF IInv, Exclusion
  <1>10. verrou' \in Fils \union {libre}
    BY <1>8 DEF IInv, Types
  <1>. QED
    BY <1>2, <1>5, <1>6, <1>7, <1>8, <1>9, <1>10, UnSeulFil

LEMMA DemanderMoteurInv ==
  ASSUME IInv, NEW f \in Fils, DemanderMoteur(f)
  PROVE  IInv'
  <1>. DEFINE a == [Repos EXCEPT !.etape = "lecture"]
  <1>1. /\ UNCHANGED <<backend, accepte, moteur, verrou, constructions>>
        /\ Avancer(f, a)
    BY DEF DemanderMoteur
  <1>2. a = [etape |-> "lecture", texte |-> SansTexte, moteur |-> absent, debut |-> 0,
             entites |-> {}]
    BY DEF Repos
  <1>3. a \in AppelsDe(f) /\ Position(a) /\ DejaVueOuDevant(a) /\ a.etape = "lecture"
    BY <1>2 DEF AppelsDe, TextesDe, Etapes, Position, DejaVueOuDevant, SansTexte
  <1>4. \A g \in Fils \ {f} :
          appels[g].etape \in {"section", "construction", "sortie"} => verrou' = g
    BY <1>1 DEF IInv, Exclusion
  <1>5. verrou' \in Fils \union {libre}
    BY <1>1 DEF IInv, Types
  <1>. HIDE DEF a
  <1>. QED
    BY <1>1, <1>3, <1>4, <1>5, UnSeulFil

LEMMA LireMoteurInv ==
  ASSUME IInv, NEW f \in Fils, LireMoteur(f)
  PROVE  IInv'
  <1>1. /\ UNCHANGED <<backend, accepte, moteur, verrou, constructions>>
        /\ appels[f].etape = "lecture"
    BY DEF LireMoteur
  <1>2. \A g \in Fils \ {f} :
          appels[g].etape \in {"section", "construction", "sortie"} => verrou' = g
    BY <1>1 DEF IInv, Exclusion
  <1>3. verrou' \in Fils \union {libre}
    BY <1>1 DEF IInv, Types
  <1>4. CASE moteur # absent
    <2>1. moteur \in Moteurs
      BY <1>4 DEF IInv, Types
    <2>2. Avancer(f, AvecMoteur(f, moteur))
      BY <1>4 DEF LireMoteur
    <2>. QED
      BY <1>1, <1>2, <1>3, <2>1, <2>2, AvecMoteurInv, UnSeulFil
  <1>5. CASE moteur = absent
    <2>. DEFINE a == [appels[f] EXCEPT !.etape = "attente"]
    <2>1. Avancer(f, a)
      BY <1>5 DEF LireMoteur
    <2>2. appels[f] \in AppelsDe(f) /\ Position(appels[f])
      BY DEF IInv, Types
    <2>3. a \in AppelsDe(f) /\ a.etape = "attente"
      BY <2>2 DEF AppelsDe, Etapes
    <2>4. Position(a) /\ DejaVueOuDevant(a)
      BY <1>1, <2>2, <2>3 DEF AppelsDe, Position, DejaVueOuDevant
    <2>. HIDE DEF a
    <2>. QED
      BY <1>1, <1>2, <1>3, <2>1, <2>3, <2>4, UnSeulFil
  <1>. QED
    BY <1>4, <1>5

LEMMA PrendreVerrouInv ==
  ASSUME IInv, NEW f \in Fils, PrendreVerrou(f)
  PROVE  IInv'
  <1>. DEFINE a == [appels[f] EXCEPT !.etape = "section"]
  <1>1. /\ UNCHANGED <<backend, accepte, moteur, constructions>>
        /\ appels[f].etape = "attente" /\ verrou = libre /\ verrou' = f
        /\ Avancer(f, a)
    BY DEF PrendreVerrou
  <1>2. \A g \in Fils : appels[g].etape \notin {"section", "construction", "sortie"}
    BY <1>1, LibreNEstPasUnFil DEF IInv, Exclusion
  <1>3. appels[f] \in AppelsDe(f) /\ Position(appels[f])
    BY DEF IInv, Types
  <1>4. a \in AppelsDe(f) /\ a.etape = "section"
    BY <1>3 DEF AppelsDe, Etapes
  <1>5. Position(a) /\ DejaVueOuDevant(a)
    BY <1>1, <1>3, <1>4 DEF AppelsDe, Position, DejaVueOuDevant
  <1>. HIDE DEF a
  <1>. QED
    BY <1>1, <1>2, <1>4, <1>5, UnSeulFil

LEMMA RelireMoteurInv ==
  ASSUME IInv, NEW f \in Fils, RelireMoteur(f)
  PROVE  IInv'
  <1>1. /\ UNCHANGED <<backend, accepte, moteur, constructions>>
        /\ appels[f].etape = "section"
    BY DEF RelireMoteur
  <1>2. \A g \in Fils \ {f} : appels[g].etape \notin {"section", "construction", "sortie"}
    BY <1>1 DEF IInv, Exclusion
  <1>3. verrou = f
    BY <1>1 DEF IInv, Exclusion
  <1>4. CASE moteur # absent
    <2>1. moteur \in Moteurs
      BY <1>4 DEF IInv, Types
    <2>2. Avancer(f, AvecMoteur(f, moteur)) /\ verrou' = libre
      BY <1>4 DEF RelireMoteur
    <2>. QED
      BY <1>1, <1>2, <2>1, <2>2, AvecMoteurInv, UnSeulFil
  <1>5. CASE moteur = absent
    <2>. DEFINE a == [appels[f] EXCEPT !.etape = "construction"]
    <2>1. Avancer(f, a) /\ verrou' = f
      BY <1>3, <1>5 DEF RelireMoteur
    <2>2. appels[f] \in AppelsDe(f) /\ Position(appels[f])
      BY DEF IInv, Types
    <2>3. a \in AppelsDe(f) /\ a.etape = "construction"
      BY <2>2 DEF AppelsDe, Etapes
    <2>4. Position(a) /\ DejaVueOuDevant(a)
      BY <1>1, <2>2, <2>3 DEF AppelsDe, Position, DejaVueOuDevant
    <2>. HIDE DEF a
    <2>. QED
      BY <1>1, <1>2, <1>5, <2>1, <2>3, <2>4, UnSeulFil
  <1>. QED
    BY <1>4, <1>5

\* The one that builds is alone, and nobody has an engine yet.
LEMMA ConstruireInv ==
  ASSUME IInv, NEW f \in Fils, Construire(f)
  PROVE  IInv'
  <1>1. PICK m \in Constructibles :
          moteur' = m /\ Avancer(f, [appels[f] EXCEPT !.etape = "sortie", !.moteur = m])
    BY DEF Construire
  <1>. DEFINE a == [appels[f] EXCEPT !.etape = "sortie", !.moteur = m]
  <1>2. /\ UNCHANGED <<backend, accepte, verrou>>
        /\ constructions' = constructions + 1
        /\ appels[f].etape = "construction"
    BY DEF Construire
  <1>3. m \in Moteurs /\ m # absent
    BY DEF Constructibles, Moteurs, absent
  <1>4. appels[f] \in AppelsDe(f) /\ Position(appels[f]) /\ DOMAIN appels = Fils
    BY DEF IInv, Types
  <1>5. a \in AppelsDe(f) /\ a.etape = "sortie" /\ a.moteur = m
    BY <1>3, <1>4 DEF AppelsDe, Etapes
  <1>6. Position(a) /\ DejaVueOuDevant(a)
    BY <1>2, <1>4, <1>5 DEF AppelsDe, Position, DejaVueOuDevant
  <1>7. /\ DOMAIN appels' = Fils
        /\ appels'[f] = a
        /\ \A g \in Fils \ {f} : appels'[g] = appels[g]
    BY <1>1, <1>4 DEF Avancer
  <1>8. moteur = absent /\ constructions = 0
    BY <1>2 DEF IInv, RienDeConstruit
  <1>9. \A g \in Fils \ {f} :
          /\ appels[g].etape \notin {"section", "construction", "sortie"}
          /\ appels[g].etape \in {"analyse", "filtre"} => appels[g].moteur = absent
    BY <1>2, <1>8 DEF IInv, Exclusion, RienDeConstruit
  <1>. HIDE DEF a
  <1>10. Types'
    BY <1>1, <1>2, <1>3, <1>5, <1>7, <1>8 DEF IInv, Types, AppelsDe, TextesDe
  <1>11. Exclusion'
    BY <1>2, <1>5, <1>7 DEF IInv, Exclusion
  <1>12. RienDeConstruit'
    BY <1>1, <1>2, <1>3, <1>5, <1>7, <1>8, <1>9 DEF RienDeConstruit
  <1>13. \A g \in Fils : (Position(appels[g]) /\ DejaVueOuDevant(appels[g]))'
    <2>1. ASSUME NEW g \in Fils PROVE (Position(appels[g]) /\ DejaVueOuDevant(appels[g]))'
      <3>1. CASE g = f
        BY <1>6, <1>7, <3>1 DEF Position, DejaVueOuDevant, Lecteurs
      <3>2. CASE g # f
        BY <1>7, <3>2 DEF IInv, Position, DejaVueOuDevant, Lecteurs
      <3>. QED
        BY <3>1, <3>2
    <2>. QED
      BY <2>1
  <1>. QED
    BY <1>10, <1>11, <1>12, <1>13 DEF IInv

LEMMA RendreVerrouInv ==
  ASSUME IInv, NEW f \in Fils, RendreVerrou(f)
  PROVE  IInv'
  <1>1. /\ UNCHANGED <<backend, accepte, moteur, constructions>>
        /\ appels[f].etape = "sortie" /\ verrou' = libre
        /\ Avancer(f, AvecMoteur(f, appels[f].moteur))
    BY DEF RendreVerrou
  <1>2. \A g \in Fils \ {f} : appels[g].etape \notin {"section", "construction", "sortie"}
    BY <1>1 DEF IInv, Exclusion
  <1>3. appels[f].moteur = moteur /\ moteur \in Moteurs
    BY <1>1 DEF IInv, RienDeConstruit, Types
  <1>. QED
    BY <1>1, <1>2, <1>3, AvecMoteurInv, UnSeulFil

\* What one span adds to the entities.
LEMMA AjouteesTypees ==
  ASSUME NEW a \in Int, NEW b \in Int, NEW m
  PROVE  /\ Ajoutees(<<a, b>>, m) \subseteq Spans
         /\ \A e \in Ajoutees(<<a, b>>, m) : e.debut = a /\ e.fin = b /\ a < b
  <1>1. CASE a < b
    <2>1. Ajoutees(<<a, b>>, m) = {Entite(<<a, b>>, ScoreDe(m))}
      BY <1>1 DEF Ajoutees
    <2>. QED
      BY <1>1, <2>1, EntiteTypee
  <1>2. CASE ~ (a < b)
    BY <1>2 DEF Ajoutees
  <1>. QED
    BY <1>1, <1>2

LEMMA AjouteesRecadrees ==
  ASSUME NEW t, Texte(t), NEW g \in Int, NEW h \in Int, NEW m
  PROVE  /\ Ajoutees(recadrer(t, g, h), m) \subseteq Spans
         /\ \A e \in Ajoutees(recadrer(t, g, h), m) :
              0 <= e.debut /\ e.debut < e.fin /\ e.fin <= t.longueur
  <1>. DEFINE span == recadrer(t, g, h)
  <1>1. PICK a \in Int, b \in Int : span = <<a, b>> /\ (a < b => 0 <= a /\ b <= t.longueur)
    BY RecadrerDansLeTexte
  <1>. HIDE DEF span
  <1>2. Ajoutees(span, m) = Ajoutees(<<a, b>>, m)
    BY <1>1
  <1>3. /\ Ajoutees(<<a, b>>, m) \subseteq Spans
        /\ \A e \in Ajoutees(<<a, b>>, m) : e.debut = a /\ e.fin = b /\ a < b
    BY AjouteesTypees
  <1>4. /\ Ajoutees(<<a, b>>, m) \subseteq Spans
        /\ \A e \in Ajoutees(<<a, b>>, m) :
             0 <= e.debut /\ e.debut < e.fin /\ e.fin <= t.longueur
    BY <1>1, <1>3
  <1>5. /\ Ajoutees(span, m) \subseteq Spans
        /\ \A e \in Ajoutees(span, m) :
             0 <= e.debut /\ e.debut < e.fin /\ e.fin <= t.longueur
    BY <1>2, <1>4
  <1>. QED
    BY <1>5 DEF span

LEMMA LireSegmentInv ==
  ASSUME IInv, NEW f \in Fils, LireSegment(f)
  PROVE  IInv'
  <1>. DEFINE a == appels[f]
              t == a.texte
              fin == FinSegment(t, a.debut)
  <1>1. /\ a.etape = "analyse" /\ a.moteur # "presidio"
        /\ UNCHANGED <<backend, accepte, moteur, verrou, constructions>>
    BY DEF LireSegment
  <1>2. /\ a \in AppelsDe(f) /\ Position(a) /\ DejaVueOuDevant(a)
        /\ a.texte \in TextesDe(f) /\ a.debut \in Int
    BY DEF IInv, Types, AppelsDe
  <1>3. /\ t # SansTexte /\ Texte(t) /\ a.debut \in Nat /\ a.debut < t.longueur
    BY <1>1, <1>2, TexteDe DEF Position
  <1>4. /\ fin \in Int /\ fin <= t.longueur /\ a.debut < fin
        /\ t.longueur \in Nat /\ t.entite[1] \in Int /\ t.entite[2] \in Int
        /\ t.entite[1] < t.entite[2] /\ t.entite[2] <= t.longueur
        /\ t.entite = <<t.entite[1], t.entite[2]>>
    BY <1>3, FinDeSegment DEF Texte
  <1>. DEFINE suivant == IF fin >= t.longueur THEN t.longueur ELSE DebutSuivant(t, a.debut)
              etape == IF fin >= t.longueur THEN "filtre" ELSE "analyse"
  <1>5. PICK brute \in Reponses(t, a.debut, fin) :
          Avancer(f, Poursuivi(a, recadrer(t, brute[1], brute[2]), etape, suivant))
    <2>1. CASE fin >= t.longueur
      BY <1>1, <2>1 DEF LireSegment
    <2>2. CASE ~ (fin >= t.longueur)
      BY <1>1, <2>2 DEF LireSegment
    <2>. QED
      BY <2>1, <2>2
  <1>. DEFINE nouvelles == Ajoutees(recadrer(t, brute[1], brute[2]), a.moteur)
              b == Poursuivi(a, recadrer(t, brute[1], brute[2]), etape, suivant)
  <1>6. b = [etape |-> etape, texte |-> t, moteur |-> a.moteur, debut |-> suivant,
             entites |-> a.entites \union nouvelles]
    BY DEF Poursuivi
  <1>7. /\ brute \in Int \X Int
        /\ a.debut <= t.entite[1] /\ t.entite[2] <= fin =>
             recadrer(t, brute[1], brute[2]) = t.entite
    BY <1>3, <1>4, SpanLu
  <1>8. /\ nouvelles \subseteq Spans
        /\ \A e \in nouvelles : 0 <= e.debut /\ e.debut < e.fin /\ e.fin <= t.longueur
    BY <1>3, <1>7, AjouteesRecadrees
  <1>9. suivant \in Nat /\ suivant <= t.longueur /\ (etape = "analyse" => suivant < t.longueur)
    BY <1>3, <1>4, SegmentSuivant
  <1>10. b \in AppelsDe(f)
    BY <1>2, <1>6, <1>8, <1>9 DEF AppelsDe, Etapes
  <1>11. Position(b)
    <2>1. /\ b.etape = etape /\ b.texte = t /\ b.debut = suivant
          /\ b.entites = a.entites \union nouvelles
      BY <1>6
    <2>2. \A e \in a.entites : 0 <= e.debut /\ e.debut < e.fin /\ e.fin <= t.longueur
      BY <1>2 DEF Position
    <2>3. etape \in {"analyse", "filtre"}
      OBVIOUS
    <2>4. \A e \in b.entites : 0 <= e.debut /\ e.debut < e.fin /\ e.fin <= b.texte.longueur
      <3>. HIDE DEF b, nouvelles
      <3>. QED
        BY <1>8, <2>1, <2>2
    <2>. HIDE DEF b, suivant, etape, nouvelles, t
    <2>. QED
      BY <1>3, <1>9, <2>1, <2>3, <2>4 DEF Position
  <1>12. DejaVueOuDevant(b)
    <2>. SUFFICES ASSUME a.moteur \in Lecteurs, t.entite[2] - t.entite[1] <= recul
         PROVE  \/ Entite(t.entite, ScoreDe(a.moteur)) \in a.entites \union nouvelles
                \/ etape = "analyse" /\ suivant <= t.entite[1]
      <3>1. /\ b.etape = etape /\ b.texte = t /\ b.debut = suivant /\ b.moteur = a.moteur
            /\ b.entites = a.entites \union nouvelles
        BY <1>6
      <3>. HIDE DEF b, suivant, etape, nouvelles, t, a
      <3>. QED
        BY <3>1 DEF DejaVueOuDevant
    <2>1. CASE Entite(t.entite, ScoreDe(a.moteur)) \in a.entites
      BY <2>1
    <2>2. CASE a.debut <= t.entite[1] /\ t.entite[2] <= fin
      BY <1>4, <1>7, <2>2 DEF Ajoutees
    <2>3. CASE a.debut <= t.entite[1] /\ fin < t.entite[2]
      BY <1>3, <1>4, <2>3, SegmentSuivant
    <2>4. Entite(t.entite, ScoreDe(a.moteur)) \in a.entites \/ a.debut <= t.entite[1]
      BY <1>1, <1>2, <1>3 DEF DejaVueOuDevant
    <2>. QED
      BY <1>4, <2>1, <2>2, <2>3, <2>4
  <1>13. a.moteur # absent => a.moteur = moteur
    BY <1>1 DEF IInv, RienDeConstruit
  <1>14. \A g \in Fils \ {f} :
           appels[g].etape \in {"section", "construction", "sortie"} => verrou' = g
    BY <1>1 DEF IInv, Exclusion
  <1>15. verrou' \in Fils \union {libre}
    BY <1>1 DEF IInv, Types
  <1>16. b.moteur = a.moteur /\ b.etape \in {"analyse", "filtre"}
    BY <1>6
  <1>17. Avancer(f, b)
    BY <1>5
  <1>. HIDE DEF b, a
  <1>. QED
    BY <1>1, <1>17, <1>10, <1>11, <1>12, <1>13, <1>14, <1>15, <1>16, UnSeulFil

LEMMA LireEntierInv ==
  ASSUME IInv, NEW f \in Fils, LireEntier(f)
  PROVE  IInv'
  <1>. DEFINE a == appels[f]
              t == a.texte
  <1>1. /\ a.etape = "analyse" /\ a.moteur = "presidio"
        /\ UNCHANGED <<backend, accepte, moteur, verrou, constructions>>
    BY DEF LireEntier
  <1>2. a \in AppelsDe(f) /\ Position(a) /\ a.texte \in TextesDe(f)
    BY DEF IInv, Types, AppelsDe
  <1>3. t # SansTexte /\ Texte(t) /\ t.longueur \in Nat
    BY <1>1, <1>2, TexteDe DEF Position, Texte
  <1>4. PICK brute \in Reponses(t, 0, t.longueur) :
          Avancer(f, Poursuivi(a, brute, "filtre", t.longueur))
    BY <1>1 DEF LireEntier
  <1>. DEFINE nouvelles == Ajoutees(brute, a.moteur)
              b == Poursuivi(a, brute, "filtre", t.longueur)
  <1>5. b = [etape |-> "filtre", texte |-> t, moteur |-> a.moteur, debut |-> t.longueur,
             entites |-> a.entites \union nouvelles]
    BY DEF Poursuivi
  <1>6. /\ nouvelles \subseteq Spans
        /\ \A e \in nouvelles : 0 <= e.debut /\ e.debut < e.fin /\ e.fin <= t.longueur
    <2>1. /\ brute \in Int \X Int
          /\ brute[1] < brute[2] => 0 <= brute[1] /\ brute[2] <= t.longueur
      BY <1>3, SpanLu
    <2>2. brute = <<brute[1], brute[2]>> /\ brute[1] \in Int /\ brute[2] \in Int
      BY <2>1
    <2>3. nouvelles = Ajoutees(<<brute[1], brute[2]>>, a.moteur)
      BY <2>2
    <2>. HIDE DEF nouvelles
    <2>. QED
      BY <2>1, <2>2, <2>3, AjouteesTypees
  <1>7. b \in AppelsDe(f)
    BY <1>2, <1>3, <1>5, <1>6 DEF AppelsDe, Etapes
  <1>8. Position(b) /\ DejaVueOuDevant(b)
    BY <1>1, <1>2, <1>3, <1>5, <1>6 DEF Position, DejaVueOuDevant, Lecteurs
  <1>9. b.moteur = "presidio" /\ b.etape = "filtre" /\ moteur = "presidio"
    BY <1>1, <1>5 DEF IInv, RienDeConstruit, absent
  <1>10. \A g \in Fils \ {f} :
           appels[g].etape \in {"section", "construction", "sortie"} => verrou' = g
    BY <1>1 DEF IInv, Exclusion
  <1>11. verrou' \in Fils \union {libre}
    BY <1>1 DEF IInv, Types
  <1>12. Avancer(f, b)
    BY <1>4
  <1>. HIDE DEF b, a
  <1>. QED
    BY <1>1, <1>12, <1>7, <1>8, <1>9, <1>10, <1>11, UnSeulFil

\* A call that ends, with or without an answer.
LEMMA FinirInv ==
  ASSUME IInv, NEW f \in Fils, Echouer(f) \/ Rendre(f)
  PROVE  IInv'
  <1>1. /\ UNCHANGED <<backend, accepte, moteur, verrou, constructions>>
        /\ Avancer(f, Repos)
    BY DEF Echouer, Rendre
  <1>2. \A g \in Fils \ {f} :
          appels[g].etape \in {"section", "construction", "sortie"} => verrou' = g
    BY <1>1 DEF IInv, Exclusion
  <1>3. verrou' \in Fils \union {libre}
    BY <1>1 DEF IInv, Types
  <1>4. Repos.etape = "repos"
    BY DEF Repos
  <1>. QED
    BY <1>1, <1>2, <1>3, <1>4, ReposInv, UnSeulFil

LEMMA InchangeInv ==
  ASSUME IInv, UNCHANGED <<backend, moteur, verrou, appels, constructions>>,
         accepte' \in BOOLEAN
  PROVE  IInv'
  BY DEF IInv, Types, AppelsDe, TextesDe, Exclusion, RienDeConstruit, Position,
         DejaVueOuDevant, Lecteurs

LEMMA NextInv == IInv /\ [Next]_vars => IInv'
  <1>. SUFFICES ASSUME IInv, [Next]_vars PROVE IInv'
    OBVIOUS
  <1>1. CASE Accepter
    BY <1>1, InchangeInv DEF Accepter
  <1>2. ASSUME NEW f \in Fils,
               Appeler(f) \/ DemanderMoteur(f) \/ EtapeAppel(f) \/ Echouer(f)
        PROVE  IInv'
    BY <1>2, AppelerInv, DemanderMoteurInv, LireMoteurInv, PrendreVerrouInv,
       RelireMoteurInv, ConstruireInv, RendreVerrouInv, LireSegmentInv, LireEntierInv,
       FinirInv DEF EtapeAppel
  <1>3. CASE UNCHANGED vars
    BY <1>3, InchangeInv DEF vars, IInv, Types
  <1>. QED
    BY <1>1, <1>2, <1>3 DEF Next

-------------------------------------------------------------------------------
(* Theorems *)

THEOREM Invariance == Spec => []IInv
  BY InitInv, NextInv, PTL DEF Spec

\* Type correctness, for any threads, texts, windows and values of NER_BACKEND
\* (ai-engine/app/detection/ner.py).
THEOREM TypesCorrects == Spec => []TypeOK
  <1>1. IInv => TypeOK
    BY DEF IInv, Types, AppelsDe, Position, TypeOK
  <1>. QED
    BY <1>1, Invariance, PTL

\* One engine is built in the life of the process and every call uses that one
\* (obtenir_moteur, ner.py:289-296), whatever the number of threads.
THEOREM MoteurUnique == Spec => []UnSeulMoteur
  <1>1. IInv => UnSeulMoteur
    BY DEF IInv, RienDeConstruit, UnSeulMoteur
  <1>. QED
    BY <1>1, Invariance, PTL

\* A name no longer than the overlap of two windows is seen whole, for any window,
\* overlap and text (segmenter, normalize.py:126-160), provided the overlap is at most
\* half of what a window moves on by (Decoupage).
THEOREM NomVuEntier == Spec => []EntiteVueEntiere
  <1>1. IInv => EntiteVueEntiere
    BY DEF IInv, DejaVueOuDevant, Lecteurs, EntiteVueEntiere
  <1>. QED
    BY <1>1, Invariance, PTL

\* The engine, once built, never changes: a service that starts without a model stays
\* without one (ner.py:252-257).
THEOREM MoteurDefinitif == Spec => [][moteur # absent => moteur' = moteur]_vars
  <1>1. IInv /\ [Next]_vars => [moteur # absent => moteur' = moteur]_vars
    <2>. SUFFICES ASSUME IInv, [Next]_vars PROVE [moteur # absent => moteur' = moteur]_vars
      OBVIOUS
    <2>1. ASSUME NEW f \in Fils, Construire(f) PROVE moteur = absent
      BY <2>1 DEF Construire, IInv, RienDeConstruit
    <2>2. CASE Accepter
      BY <2>2 DEF Accepter
    <2>3. ASSUME NEW f \in Fils,
                 Appeler(f) \/ DemanderMoteur(f) \/ EtapeAppel(f) \/ Echouer(f)
          PROVE  moteur # absent => moteur' = moteur
      BY <2>1, <2>3 DEF Appeler, DemanderMoteur, EtapeAppel, Echouer, LireMoteur,
         PrendreVerrou, RelireMoteur, RendreVerrou, LireSegment, LireEntier, Rendre
    <2>. QED
      BY <2>2, <2>3 DEF Next, vars
  <1>. QED
    BY <1>1, Invariance, PTL DEF Spec
===============================================================================
