-------------------------- MODULE Restitution_proofs --------------------------
(***************************************************************************)
(* What the enforcement point guarantees for any number of requests at     *)
(* once, any contents, and any roles, levels and matrix whose levels can   *)
(* be told apart by one threshold (UnSeulSeuil).                           *)
(*                                                                         *)
(* The argument.  A handler decides once, on the row it has loaded, and    *)
(* carries that decision (Autorisee): the matrix in memory is empty or the *)
(* seeded one, and where it is full the database is seeded for good        *)
(* (MatriceLue).  What is left readable is everything or what is under the *)
(* threshold (EnClair).  The entry is written in the very step that ends   *)
(* the handler, and nothing before (UneTrace).                             *)
(***************************************************************************)
EXTENDS Restitution, FiniteSetTheorems, TLAPS

\* A set of natural numbers has a least element.
LEMMA NatMinimal ==
  ASSUME NEW T \in SUBSET Nat, T # {}
  PROVE  \E t \in T : \A y \in T : t <= y
  <1>1. PICK t \in T : \A y \in T : ~ (<<y, t>> \in OpToRel(<, Nat))
    BY NatLessThanWellFounded, WFMin
  <1>2. ASSUME NEW y \in T, ~ (t <= y) PROVE FALSE
    <2>1. y < t /\ <<y, t>> \in Nat \X Nat
      BY <1>2
    <2>2. <<y, t>> \in OpToRel(<, Nat)
      BY <2>1 DEF OpToRel
    <2>. QED
      BY <1>1, <2>2
  <1>. QED
    BY <1>2

(* The matrix in memory, or about to be.                                   *)
MatriceLue ==
  /\ base # "amorcee" => matrice = <<>>
  /\ "amorcee" \in reponses => base = "amorcee"

(* Of a handler q: the versions it has met are some the file has had.      *)
VersionsConnues(q) ==
  q.lue.niveau \in 0..MaxVersions /\ q.octets \in 0..MaxVersions

(* Where q may be, and the code its refusal leads to.                      *)
Chemin(q) ==
  /\ q.etape = "refus" => q.portee = "contenu" /\ q.code \in {403, 404, 423, 502}
  /\ q.portee = "metadonnees" => q.etape \in {"libre", "chargement", "journal", "finie"}

(* Of a handler q whose entries are t: none before the step that ends it,  *)
(* one then.                                                               *)
UneTrace(q, t) ==
  /\ q.etape \notin {"libre", "finie"} => t = <<>>
  /\ q.etape = "finie" /\ q.code = 200 =>
       t = <<[action |-> "LECTURE", politique |-> q.action]>>
  /\ q.etape = "finie"
       /\ (q.code \in {403, 423} \/ (q.code = 404 /\ q.portee = "contenu")) =>
       t = <<[action |-> "REFUS", politique |-> "refus"]>>

(* A content is being read, protected or served.                           *)
EnLecture(q) ==
  /\ q.portee = "contenu"
  /\ \/ q.etape \in {"source", "moteur", "pseudonymes", "journal"}
     \/ q.etape = "finie" /\ q.code = 200

(* The decision the handler took is the one of the seeded matrix.          *)
Autorisee(q) ==
  EnLecture(q) =>
    /\ base = "amorcee"
    /\ NiveauMax(q.lue.niveau) # "aucun"
    /\ <<q.role, NiveauMax(q.lue.niveau)>> \in DOMAIN Matrice
    /\ q.action = Matrice[<<q.role, NiveauMax(q.lue.niveau)>>]
    /\ q.action # "refus"

(* What is readable in the bytes it has.                                   *)
EnClair(q) ==
  EnLecture(q) =>
    /\ q.etape # "source" => q.octets # Nul
    /\ q.etape = "moteur" => q.action # "complet"
    /\ q.etape \in {"pseudonymes", "journal", "finie"} =>
         q.clair = IF q.action = "complet" THEN NiveauxDe[q.octets]
                   ELSE ResteEnClair(q.octets, NiveauMax(q.lue.niveau))

Suivi(q, t) ==
  /\ q \in Requete /\ t \in Seq(Trace)
  /\ VersionsConnues(q) /\ Chemin(q) /\ UneTrace(q, t) /\ Autorisee(q) /\ EnClair(q)

(* The inductive invariant.                                                *)
IInv ==
  /\ TypeOK
  /\ MatriceLue
  /\ ligne.niveau \in 0..MaxVersions
  /\ \A r \in Requetes : Suivi(requetes[r], traces[r])

-------------------------------------------------------------------------------
(* The levels of a content.                                                *)

(* Some levels, unless there is none, have a highest one.  By induction on *)
(* their number: a smallest set without a highest level has one as soon as *)
(* it loses one of its levels.                                             *)
LEMMA NiveauLePlusHaut ==
  ASSUME NEW S \in SUBSET Niveaux, S # {}
  PROVE  \E n \in S : \A m \in S : Rang[m] <= Rang[n]
  <1>. DEFINE SansMax(T) == T # {} /\ ~ \E n \in T : \A m \in T : Rang[m] <= Rang[n]
              Tailles == {k \in Nat : \E T \in SUBSET Niveaux : SansMax(T) /\ Cardinality(T) = k}
  <1>0. /\ IsFiniteSet(Niveaux) /\ Rang \in [Niveaux -> Nat]
        /\ \A T \in SUBSET Niveaux : IsFiniteSet(T) /\ Cardinality(T) \in Nat
    BY ConstantesRestitution, FS_Subset, FS_CardinalityType
  <1>1. SUFFICES ASSUME SansMax(S) PROVE FALSE
    OBVIOUS
  <1>2. Cardinality(S) \in Tailles
    BY <1>0, <1>1
  <1>3. PICK k \in Tailles : \A j \in Tailles : k <= j
    <2>1. Tailles \in SUBSET Nat /\ Tailles # {}
      BY <1>2
    <2>. HIDE DEF Tailles
    <2>. QED
      BY <2>1, NatMinimal
  <1>4. PICK T \in SUBSET Niveaux : SansMax(T) /\ Cardinality(T) = k
    OBVIOUS
  <1>5. PICK n \in T : TRUE
    BY <1>4
  <1>6. /\ T \ {n} \in SUBSET Niveaux
        /\ Cardinality(T \ {n}) = k - 1 /\ k \in Nat
    BY <1>0, <1>4, <1>5, FS_RemoveElement
  <1>7. ~ SansMax(T \ {n})
    <2>1. ~ k <= k - 1
      BY <1>6
    <2>2. SansMax(T \ {n}) => k - 1 \in Tailles
      BY <1>0, <1>6
    <2>. QED
      BY <1>3, <2>1, <2>2
  <1>8. CASE T \ {n} = {}
    <2>1. \A m \in T : m = n
      BY <1>8
    <2>2. Rang[n] \in Nat
      BY <1>0, <1>5
    <2>. QED
      BY <1>4, <1>5, <2>1, <2>2
  <1>9. CASE T \ {n} # {}
    <2>1. PICK p \in T \ {n} : \A m \in T \ {n} : Rang[m] <= Rang[p]
      BY <1>7, <1>9
    <2>2. Rang[n] \in Nat /\ Rang[p] \in Nat /\ \A m \in T : Rang[m] \in Nat
      BY <1>0, <1>5, <2>1
    <2>3. CASE Rang[n] <= Rang[p]
      BY <1>4, <2>1, <2>2, <2>3
    <2>4. CASE Rang[p] <= Rang[n]
      BY <1>4, <1>5, <2>1, <2>2, <2>4
    <2>. QED
      BY <2>2, <2>3, <2>4
  <1>. QED
    BY <1>8, <1>9

(* NiveauMax is one of the levels of the content, and none is above.       *)
LEMMA NiveauMaxJuste ==
  ASSUME NEW v \in 0..MaxVersions, NiveauMax(v) # "aucun"
  PROVE  /\ v \in 1..MaxVersions /\ NiveauxDe[v] \in SUBSET Niveaux
         /\ NiveauMax(v) \in NiveauxDe[v]
         /\ \A n \in NiveauxDe[v] : Rang[n] <= Rang[NiveauMax(v)]
  <1>1. v # 0 /\ NiveauxDe[v] # {}
    BY DEF NiveauMax, Nul
  <1>2. /\ NiveauMax(v) = CHOOSE n \in NiveauxDe[v] : \A m \in NiveauxDe[v] : Rang[m] <= Rang[n]
        /\ v \in 1..Len(NiveauxDe) /\ NiveauxDe \in Seq(SUBSET Niveaux)
    BY <1>1, ConstantesRestitution DEF NiveauMax, MaxVersions, Nul
  <1>3. NiveauxDe[v] \in SUBSET Niveaux
    BY <1>2
  <1>4. \E n \in NiveauxDe[v] : \A m \in NiveauxDe[v] : Rang[m] <= Rang[n]
    BY <1>1, <1>3, NiveauLePlusHaut
  <1>. QED
    BY <1>2, <1>3, <1>4 DEF MaxVersions

LEMMA EnClairTypee ==
  ASSUME NEW v \in 1..MaxVersions, NEW n
  PROVE  /\ NiveauxDe[v] \in SUBSET Niveaux
         /\ ResteEnClair(v, n) \in SUBSET Niveaux
  <1>1. NiveauxDe[v] \in SUBSET Niveaux
    BY ConstantesRestitution DEF MaxVersions
  <1>. QED
    BY <1>1 DEF ResteEnClair
(* The decision, when it is not a refusal, is a cell of the seeded matrix. *)
LEMMA DecisionLue ==
  ASSUME TypeOK, MatriceLue, NEW role, NEW n
  PROVE  /\ Decide(role, n) \in Actions
         /\ Decide(role, n) # "refus" =>
              /\ base = "amorcee"
              /\ <<role, n>> \in DOMAIN Matrice
              /\ Decide(role, n) = Matrice[<<role, n>>]
  <1>1. matrice \in {<<>>, Matrice}
    BY DEF TypeOK, TypeOKPolitique
  <1>2. CASE <<role, n>> \notin DOMAIN matrice
    BY <1>2 DEF Decide, Actions
  <1>3. CASE <<role, n>> \in DOMAIN matrice
    <2>1. matrice # <<>>
      <3>1. DOMAIN <<>> = {}
        OBVIOUS
      <3>. QED
        BY <1>3, <3>1
    <2>2. matrice = Matrice /\ base = "amorcee"
      BY <1>1, <2>1 DEF MatriceLue
    <2>. QED
      BY <1>3, <2>2, ConstantesPolitique DEF Decide
  <1>. QED
    BY <1>2, <1>3

-------------------------------------------------------------------------------
(* Every step preserves the invariant.                                     *)

LEMMA LigneAbsenteTypee ==
  /\ LigneAbsente \in LigneDocument /\ LigneAbsente.niveau = 0
  /\ RequeteVide \in Requete
  <1>1. LigneAbsente \in LigneDocument /\ LigneAbsente.niveau = 0
    BY DEF LigneAbsente, LigneDocument, StatutDoc, Nul
  <1>. QED
    BY <1>1 DEF RequeteVide, Requete, Etapes, Codes, Nul

LEMMA InitInv == Init => IInv
  <1>. SUFFICES ASSUME Init PROVE IInv
    OBVIOUS
  <1>. USE DEF Init
  <1>0. MaxVersions \in Nat
    BY ConstantesRestitution DEF MaxVersions
  <1>1. TypeOKPolitique /\ MatriceLue
    BY DEF InitPolitique, TypeOKPolitique, MatriceLue
  <1>2. ASSUME NEW r \in Requetes PROVE Suivi(requetes[r], traces[r])
    <2>1. requetes[r] = RequeteVide /\ traces[r] = <<>>
      OBVIOUS
    <2>2. RequeteVide.lue = LigneAbsente /\ RequeteVide.octets = 0
      BY DEF RequeteVide, Nul
    <2>3. VersionsConnues(RequeteVide)
      BY <1>0, <2>2, LigneAbsenteTypee DEF VersionsConnues
    <2>4. <<>> \in Seq(Trace)
      OBVIOUS
    <2>5. Chemin(RequeteVide) /\ UneTrace(RequeteVide, <<>>) /\ ~EnLecture(RequeteVide)
      BY DEF Chemin, UneTrace, EnLecture, RequeteVide
    <2>. QED
      BY <2>1, <2>3, <2>4, <2>5, LigneAbsenteTypee DEF Suivi, Autorisee, EnClair
  <1>3. TypeOK
    <2>1. requetes \in [Requetes -> Requete] /\ traces \in [Requetes -> Seq(Trace)]
      BY LigneAbsenteTypee
    <2>. QED
      BY <1>0, <1>1, <2>1, LigneAbsenteTypee DEF TypeOK, Nul
  <1>. QED
    BY <1>0, <1>1, <1>2, <1>3, LigneAbsenteTypee DEF IInv

(* The policy decision point, and the commits of the migration.            *)
LEMMA PolitiqueInv ==
  ASSUME IInv, NextPolitique, UNCHANGED varsPEP
  PROVE  IInv'
  <1>1. /\ UNCHANGED <<fichier, ligne, requetes, traces>>
        /\ TypeOKPolitique /\ MatriceLue
    BY DEF varsPEP, IInv, TypeOK
  <1>2. /\ TypeOKPolitique' /\ MatriceLue'
        /\ base = "amorcee" => base' = "amorcee"
    <2>. USE <1>1 DEF TypeOKPolitique, MatriceLue, Bases, Lignes
    <2>1. CASE Migrer
      BY <2>1 DEF Migrer
    <2>2. CASE Amorcer
      BY <2>2 DEF Amorcer
    <2>3. CASE ChargerAuDemarrage
      BY <2>3 DEF ChargerAuDemarrage
    <2>4. CASE DemarrerSansMatrice
      BY <2>4 DEF DemarrerSansMatrice
    <2>5. CASE InterrogerBase
      BY <2>5 DEF InterrogerBase
    <2>6. ASSUME NEW b \in reponses, AppliquerReponse(b)
          PROVE  TypeOKPolitique' /\ MatriceLue' /\ (base = "amorcee" => base' = "amorcee")
      BY <2>6 DEF AppliquerReponse
    <2>. QED
      BY <2>1, <2>2, <2>3, <2>4, <2>5, <2>6 DEF NextPolitique
  <1>3. TypeOK'
    BY <1>1, <1>2 DEF IInv, TypeOK
  <1>4. ASSUME NEW r \in Requetes PROVE Suivi(requetes[r], traces[r])'
    <2>1. Suivi(requetes[r], traces[r]) /\ requetes'[r] = requetes[r] /\ traces'[r] = traces[r]
      BY <1>1 DEF IInv
    <2>2. Autorisee(requetes[r])'
      BY <1>2, <2>1 DEF Suivi, Autorisee, EnLecture
    <2>. QED
      BY <2>1, <2>2 DEF Suivi, VersionsConnues, Chemin, UneTrace, EnClair, EnLecture
  <1>. QED
    BY <1>1, <1>2, <1>3, <1>4 DEF IInv

(* The statements of the catalogue keep the type of the row, and give it   *)
(* the levels of the version they are told.                                *)
LEMMA LignesTypees ==
  ASSUME NEW l \in LigneDocument, NEW v \in Nat, NEW s \in StatutDoc
  PROVE  /\ LigneInscrite(l, v) \in LigneDocument /\ LigneInscrite(l, v).niveau = 0
         /\ LigneMarquee(l, s) \in LigneDocument /\ LigneMarquee(l, s).niveau = l.niveau
         /\ LigneAnalysee(l, v) \in LigneDocument /\ LigneAnalysee(l, v).niveau = v
  <1>. USE DEF LigneDocument, StatutDoc, Nul
  <1>1. LigneInscrite(l, v) \in LigneDocument /\ LigneInscrite(l, v).niveau = 0
    BY DEF LigneInscrite
  <1>2. LigneMarquee(l, s) \in LigneDocument /\ LigneMarquee(l, s).niveau = l.niveau
    <2>. DEFINE n == IF s = "echec" /\ l.tentatives < PlafondTentatives
                     THEN l.tentatives + 1 ELSE l.tentatives
    <2>1. n \in Nat
      OBVIOUS
    <2>2. LigneMarquee(l, s) = [l EXCEPT !.statut = s, !.tentatives = n]
      BY DEF LigneMarquee
    <2>. HIDE DEF n
    <2>. QED
      BY <2>1, <2>2
  <1>3. LigneAnalysee(l, v) \in LigneDocument /\ LigneAnalysee(l, v).niveau = v
    BY DEF LigneAnalysee
  <1>. QED
    BY <1>1, <1>2, <1>3

(* The file store and the orchestrator.                                    *)
LEMMA DocumentInv ==
  ASSUME IInv, ModifierFichier \/ Orchestrateur
  PROVE  IInv'
  <1>0. /\ MaxVersions \in Nat /\ fichier \in 0..MaxVersions
        /\ ligne \in LigneDocument /\ ligne.niveau \in 0..MaxVersions
    BY ConstantesRestitution DEF MaxVersions, IInv, TypeOK
  <1>1. /\ fichier' \in 0..MaxVersions
        /\ ligne' \in LigneDocument /\ ligne'.niveau \in 0..MaxVersions
        /\ UNCHANGED varsPolitique /\ UNCHANGED <<requetes, traces>>
    <2>1. CASE ModifierFichier
      BY <1>0, <2>1 DEF ModifierFichier
    <2>2. ASSUME NEW l \in LigneDocument, l.niveau \in 0..MaxVersions, Ecrire(l)
          PROVE  /\ fichier' \in 0..MaxVersions
                 /\ ligne' \in LigneDocument /\ ligne'.niveau \in 0..MaxVersions
                 /\ UNCHANGED varsPolitique /\ UNCHANGED <<requetes, traces>>
      BY <1>0, <2>2 DEF Ecrire
    <2>3. /\ "en_analyse" \in StatutDoc /\ "echec" \in StatutDoc
          /\ fichier \in Nat /\ \A v \in 1..fichier : v \in Nat /\ v \in 0..MaxVersions
      BY <1>0 DEF StatutDoc
    <2>4. CASE Inscrire
      <3>1. LigneInscrite(ligne, fichier) \in LigneDocument /\ LigneInscrite(ligne, fichier).niveau = 0
        BY <1>0, <2>3, LignesTypees
      <3>2. 0 \in 0..MaxVersions
        BY <1>0
      <3>. QED
        BY <2>2, <2>4, <3>1, <3>2 DEF Inscrire
    <2>5. CASE Entamer \/ Renoncer
      <3>1. PICK s \in StatutDoc : Ecrire(LigneMarquee(ligne, s))
        BY <2>3, <2>5 DEF Entamer, Renoncer
      <3>2. LigneMarquee(ligne, s) \in LigneDocument /\ LigneMarquee(ligne, s).niveau \in 0..MaxVersions
        BY <1>0, LignesTypees
      <3>. QED
        BY <2>2, <3>1, <3>2
    <2>6. CASE Classer
      <3>1. PICK v \in 1..fichier : Ecrire(LigneAnalysee(ligne, v))
        BY <2>6 DEF Classer
      <3>2. LigneAnalysee(ligne, v) \in LigneDocument /\ LigneAnalysee(ligne, v).niveau \in 0..MaxVersions
        BY <1>0, <2>3, LignesTypees
      <3>. QED
        BY <2>2, <3>1, <3>2
    <2>. QED
      BY <2>1, <2>4, <2>5, <2>6 DEF Orchestrateur
  <1>. QED
    BY <1>1 DEF IInv, TypeOK, TypeOKPolitique, MatriceLue, varsPolitique, Suivi, VersionsConnues,
                Chemin, UneTrace, Autorisee, EnClair, EnLecture

-------------------------------------------------------------------------------
(* The handlers.                                                           *)

(* A handler changes itself and its entries only.                          *)
LEMMA HandlerInv ==
  ASSUME IInv, NEW r \in Requetes, NEW q, NEW t, Suivi(q, t),
         UNCHANGED varsPolitique, UNCHANGED <<fichier, ligne>>,
         requetes' = [requetes EXCEPT ![r] = q], traces' = [traces EXCEPT ![r] = t]
  PROVE  IInv'
  <1>1. /\ requetes \in [Requetes -> Requete] /\ traces \in [Requetes -> Seq(Trace)]
        /\ q \in Requete /\ t \in Seq(Trace)
    BY DEF IInv, TypeOK, Suivi
  <1>2. requetes' \in [Requetes -> Requete] /\ traces' \in [Requetes -> Seq(Trace)]
    BY <1>1
  <1>3. TypeOK' /\ MatriceLue' /\ (ligne.niveau \in 0..MaxVersions)'
    BY <1>2 DEF IInv, TypeOK, TypeOKPolitique, MatriceLue, varsPolitique
  <1>4. ASSUME NEW s \in Requetes PROVE Suivi(requetes[s], traces[s])'
    <2>1. PICK qq, tt : Suivi(qq, tt) /\ requetes'[s] = qq /\ traces'[s] = tt
      <3>1. CASE s = r
        BY <1>1, <3>1
      <3>2. CASE s # r
        BY <1>1, <3>2 DEF IInv
      <3>. QED
        BY <3>1, <3>2
    <2>2. base' = base
      BY DEF varsPolitique
    <2>3. Autorisee(requetes[s])'
      BY <2>1, <2>2 DEF Suivi, Autorisee, EnLecture
    <2>4. EnClair(requetes[s])'
      BY <2>1 DEF Suivi, EnClair, EnLecture
    <2>. QED
      BY <2>1, <2>3, <2>4 DEF Suivi, VersionsConnues, Chemin, UneTrace
  <1>. QED
    BY <1>3, <1>4 DEF IInv

(* The forms the actions take: the handler goes on, with the entries it    *)
(* has, or with one more.                                                  *)
LEMMA PasserInv ==
  ASSUME IInv, NEW r \in Requetes, NEW q, Passer(r, q), UNCHANGED traces, Suivi(q, traces[r])
  PROVE  IInv'
  <1>1. traces' = [traces EXCEPT ![r] = traces[r]]
    BY DEF IInv, TypeOK
  <1>. QED
    BY <1>1, HandlerInv DEF Passer

LEMMA RefuserInv ==
  ASSUME IInv, NEW r \in Requetes, NEW code \in {403, 404, 423, 502}, Refuser(r, code),
         requetes[r].portee = "contenu", requetes[r].etape \notin {"libre", "finie"}
  PROVE  IInv'
  <1>. DEFINE q == [requetes[r] EXCEPT !.etape = "refus", !.code = code]
  <1>0. Suivi(requetes[r], traces[r]) /\ requetes[r] \in Requete
    BY DEF IInv, Suivi
  <1>1. /\ q \in Requete /\ q.etape = "refus" /\ q.code = code
        /\ q.portee = requetes[r].portee /\ q.lue = requetes[r].lue
        /\ q.octets = requetes[r].octets
    <2>1. code \in Codes
      BY DEF Codes
    <2>. QED
      BY <1>0, <2>1 DEF Requete, Etapes
  <1>2. Passer(r, q) /\ UNCHANGED traces
    BY DEF Refuser
  <1>. HIDE DEF q
  <1>3. traces[r] = <<>>
    BY <1>0 DEF Suivi, UneTrace
  <1>4. Suivi(q, traces[r])
    BY <1>0, <1>1, <1>3 DEF Suivi, VersionsConnues, Chemin, UneTrace, Autorisee, EnClair, EnLecture
  <1>. QED
    BY <1>2, <1>4, PasserInv

(* An answer that leaves no entry.                                         *)
LEMMA RepondreInv ==
  ASSUME IInv, NEW r \in Requetes, NEW code, Repondre(r, code),
         code \in {500, 502} \/ (code = 404 /\ requetes[r].portee = "metadonnees")
  PROVE  IInv'
  <1>. DEFINE q == [requetes[r] EXCEPT !.etape = "finie", !.code = code]
  <1>0. Suivi(requetes[r], traces[r]) /\ requetes[r] \in Requete
    BY DEF IInv, Suivi
  <1>1. /\ q \in Requete /\ q.etape = "finie" /\ q.code = code
        /\ q.portee = requetes[r].portee /\ q.lue = requetes[r].lue
        /\ q.octets = requetes[r].octets
    <2>1. code \in Codes
      BY DEF Codes
    <2>. QED
      BY <1>0, <2>1 DEF Requete, Etapes
  <1>2. Passer(r, q) /\ UNCHANGED traces
    BY DEF Repondre
  <1>. HIDE DEF q
  <1>3. Suivi(q, traces[r])
    BY <1>0, <1>1 DEF Suivi, VersionsConnues, Chemin, UneTrace, Autorisee, EnClair, EnLecture
  <1>. QED
    BY <1>2, <1>3, PasserInv

(* A new request starts from nothing, or ends at once.                     *)
LEMMA ArriverInv ==
  ASSUME IInv, NEW r \in Requetes, Arriver(r) \/ RefuserJeton(r)
  PROVE  IInv'
  <1>0. RequeteVide.lue = LigneAbsente /\ RequeteVide.octets = 0 /\ RequeteVide \in Requete
    BY LigneAbsenteTypee DEF RequeteVide, Nul
  <1>1. PICK q : /\ Passer(r, q) /\ traces' = [traces EXCEPT ![r] = <<>>]
                 /\ q \in Requete /\ q.lue = LigneAbsente /\ q.octets = 0
                 /\ \/ q.etape = "chargement"
                    \/ q.etape = "finie" /\ q.code = 401
    <2>1. CASE Arriver(r)
      <3>1. PICK role \in Roles, portee \in {"contenu", "metadonnees"} :
              Passer(r, [RequeteVide EXCEPT !.etape = "chargement", !.role = role,
                                            !.portee = portee])
        BY <2>1 DEF Arriver
      <3>. DEFINE q == [RequeteVide EXCEPT !.etape = "chargement", !.role = role, !.portee = portee]
      <3>2. q \in Requete /\ q.lue = LigneAbsente /\ q.octets = 0 /\ q.etape = "chargement"
        BY <1>0 DEF Requete, Etapes
      <3>. HIDE DEF q
      <3>. QED
        BY <2>1, <3>1, <3>2 DEF Arriver, q
    <2>2. CASE RefuserJeton(r)
      <3>1. PICK code \in Codes : code = 401
        BY DEF Codes
      <3>. DEFINE q == [RequeteVide EXCEPT !.etape = "finie", !.code = code]
      <3>2. q \in Requete /\ q.lue = LigneAbsente /\ q.octets = 0 /\ q.etape = "finie" /\ q.code = code
        BY <1>0 DEF Requete, Etapes
      <3>3. Passer(r, q) /\ traces' = [traces EXCEPT ![r] = <<>>]
        BY <2>2, <3>1 DEF RefuserJeton
      <3>. HIDE DEF q
      <3>. QED
        BY <3>1, <3>2, <3>3
    <2>. QED
      BY <2>1, <2>2
  <1>2. Suivi(q, <<>>)
    <2>1. <<>> \in Seq(Trace) /\ MaxVersions \in Nat
      BY ConstantesRestitution DEF MaxVersions
    <2>2. VersionsConnues(q)
      BY <1>1, <2>1, LigneAbsenteTypee DEF VersionsConnues
    <2>3. Chemin(q) /\ UneTrace(q, <<>>) /\ ~ EnLecture(q)
      BY <1>1 DEF Chemin, UneTrace, EnLecture
    <2>. QED
      BY <1>1, <2>1, <2>2, <2>3 DEF Suivi, Autorisee, EnClair
  <1>. QED
    BY <1>1, <1>2, HandlerInv DEF Passer

LEMMA ChargerDocumentInv ==
  ASSUME IInv, NEW r \in Requetes, ChargerDocument(r)
  PROVE  IInv'
  <1>0. Suivi(requetes[r], traces[r]) /\ requetes[r].etape = "chargement"
    BY DEF IInv, ChargerDocument
  <1>1. CASE requetes[r].portee = "contenu" /\ Refuser(r, 404)
    BY <1>0, <1>1, RefuserInv
  <1>2. CASE requetes[r].portee = "metadonnees" /\ Repondre(r, 404)
    BY <1>2, RepondreInv
  <1>3. CASE /\ Passer(r, [requetes[r] EXCEPT !.lue = ligne,
                             !.etape = IF requetes[r].portee = "contenu" THEN "decision" ELSE "journal"])
             /\ UNCHANGED traces
    <2>. DEFINE q == [requetes[r] EXCEPT !.lue = ligne,
                        !.etape = IF requetes[r].portee = "contenu" THEN "decision" ELSE "journal"]
    <2>1. ligne \in LigneDocument /\ ligne.niveau \in 0..MaxVersions
      BY DEF IInv, TypeOK
    <2>2. /\ q \in Requete /\ q.lue = ligne /\ q.octets = requetes[r].octets
          /\ q.portee = requetes[r].portee
          /\ q.etape = IF q.portee = "contenu" THEN "decision" ELSE "journal"
      BY <1>0, <2>1 DEF Suivi, Requete, Etapes
    <2>. HIDE DEF q
    <2>3. Suivi(q, traces[r])
      BY <1>0, <2>1, <2>2 DEF Suivi, VersionsConnues, Chemin, UneTrace, Autorisee, EnClair, EnLecture
    <2>. QED
      BY <1>3, <2>3, PasserInv DEF q
  <1>. QED
    BY <1>1, <1>2, <1>3 DEF ChargerDocument

(* The decision: the handler goes on only with a cell of the seeded matrix.*)
LEMMA DeciderInv ==
  ASSUME IInv, NEW r \in Requetes, Decider(r)
  PROVE  IInv'
  <1>0. Suivi(requetes[r], traces[r]) /\ requetes[r].etape = "decision"
    BY DEF IInv, Decider
  <1>1. requetes[r].portee = "contenu"
    BY <1>0 DEF Suivi, Chemin, Requete
  <1>2. ASSUME NEW code \in {403, 423}, Refuser(r, code) PROVE IInv'
    BY <1>0, <1>1, <1>2, RefuserInv
  <1>. DEFINE action == Decide(requetes[r].role, NiveauLu(r))
              q == [requetes[r] EXCEPT !.etape = "source", !.action = action]
  <1>3. CASE /\ NiveauLu(r) # "aucun" /\ action # "refus"
             /\ Passer(r, q) /\ UNCHANGED traces
    <2>1. action \in Actions
          /\ base = "amorcee"
          /\ <<requetes[r].role, NiveauLu(r)>> \in DOMAIN Matrice
          /\ action = Matrice[<<requetes[r].role, NiveauLu(r)>>]
      BY <1>3, DecisionLue DEF IInv
    <2>. HIDE DEF action
    <2>2. /\ q \in Requete /\ q.lue = requetes[r].lue /\ q.octets = requetes[r].octets
          /\ q.portee = requetes[r].portee /\ q.role = requetes[r].role
          /\ q.etape = "source" /\ q.action = action
      BY <1>0, <2>1 DEF Suivi, Requete, Etapes
    <2>. HIDE DEF q
    <2>3. Autorisee(q)
      BY <1>3, <2>1, <2>2 DEF Autorisee, NiveauLu
    <2>4. VersionsConnues(q) /\ Chemin(q) /\ UneTrace(q, traces[r]) /\ EnClair(q)
      BY <1>0, <1>1, <2>2 DEF Suivi, VersionsConnues, Chemin, UneTrace, EnClair
    <2>5. Suivi(q, traces[r])
      BY <1>0, <2>2, <2>3, <2>4 DEF Suivi
    <2>. QED
      BY <1>3, <2>5, PasserInv
  <1>. QED
    BY <1>2, <1>3 DEF Decider

(* The refusal written, then answered.                                     *)
LEMMA JournaliserRefusInv ==
  ASSUME IInv, NEW r \in Requetes, JournaliserRefus(r)
  PROVE  IInv'
  <1>. DEFINE q == [requetes[r] EXCEPT !.etape = "finie"]
              e == [action |-> "REFUS", politique |-> "refus"]
  <1>0. /\ Suivi(requetes[r], traces[r]) /\ requetes[r] \in Requete
        /\ requetes[r].etape = "refus" /\ Passer(r, q)
    BY DEF IInv, Suivi, JournaliserRefus
  <1>1. /\ q \in Requete /\ q.etape = "finie" /\ q.code = requetes[r].code
        /\ q.portee = requetes[r].portee /\ q.lue = requetes[r].lue
        /\ q.octets = requetes[r].octets
    BY <1>0 DEF Requete, Etapes
  <1>2. traces[r] = <<>> /\ q.code \in {403, 404, 423, 502} /\ q.portee = "contenu"
    BY <1>0, <1>1 DEF Suivi, UneTrace, Chemin
  <1>3. e \in Trace /\ <<e>> \in Seq(Trace)
    BY DEF Trace, Actions
  <1>4. traces' = [traces EXCEPT ![r] = <<e>>]
    <2>1. Append(<<>>, e) = <<e>>
      OBVIOUS
    <2>. QED
      BY <1>2, <2>1 DEF JournaliserRefus, Tracer, IInv, TypeOK
  <1>. HIDE DEF q
  <1>5. Suivi(q, <<e>>)
    <2>1. UneTrace(q, <<e>>) /\ Chemin(q) /\ ~ EnLecture(q)
      BY <1>1, <1>2 DEF UneTrace, Chemin, EnLecture
    <2>. QED
      BY <1>0, <1>1, <1>3, <2>1 DEF Suivi, VersionsConnues, Autorisee, EnClair
  <1>. QED
    BY <1>0, <1>4, <1>5, HandlerInv DEF Passer

(* A handler that goes on with the decision it has taken.                  *)
LEMMA LireOctetsInv ==
  ASSUME IInv, NEW r \in Requetes, LireOctets(r)
  PROVE  IInv'
  <1>0. /\ Suivi(requetes[r], traces[r]) /\ requetes[r] \in Requete
        /\ requetes[r].etape = "source" /\ fichier # Nul
        /\ fichier \in 0..MaxVersions /\ MaxVersions \in Nat
    BY ConstantesRestitution DEF IInv, Suivi, LireOctets, TypeOK, MaxVersions
  <1>1. fichier \in 1..MaxVersions /\ fichier \in Nat
    BY <1>0 DEF Nul
  <1>2. requetes[r].portee = "contenu"
    BY <1>0 DEF Suivi, Chemin, Requete
  <1>3. PICK c \in SUBSET Niveaux, e \in {"journal", "moteur"} :
          /\ Passer(r, [requetes[r] EXCEPT !.octets = fichier, !.etape = e, !.clair = c])
          /\ IF requetes[r].action = "complet" THEN e = "journal" /\ c = NiveauxDe[fichier]
             ELSE e = "moteur"
    <2>1. CASE requetes[r].action = "complet"
      BY <1>1, <2>1, EnClairTypee DEF LireOctets
    <2>2. CASE requetes[r].action # "complet"
      <3>1. /\ requetes[r].clair \in SUBSET Niveaux
            /\ [requetes[r] EXCEPT !.octets = fichier, !.etape = "moteur"]
                 = [requetes[r] EXCEPT !.octets = fichier, !.etape = "moteur", !.clair = requetes[r].clair]
        BY <1>0 DEF Requete
      <3>. QED
        BY <2>2, <3>1 DEF LireOctets
    <2>. QED
      BY <2>1, <2>2
  <1>. DEFINE q == [requetes[r] EXCEPT !.octets = fichier, !.etape = e, !.clair = c]
  <1>4. /\ q \in Requete /\ q.etape = e /\ q.clair = c
        /\ q.portee = requetes[r].portee /\ q.lue = requetes[r].lue
        /\ q.role = requetes[r].role /\ q.action = requetes[r].action
        /\ q.octets = fichier
    BY <1>0, <1>1 DEF Requete, Etapes
  <1>5. Passer(r, q) /\ UNCHANGED traces
    BY <1>3 DEF LireOctets
  <1>. HIDE DEF q
  <1>6. Autorisee(q)
    BY <1>0, <1>2, <1>4 DEF Suivi, Autorisee, EnLecture
  <1>7. VersionsConnues(q) /\ Chemin(q) /\ UneTrace(q, traces[r])
    BY <1>0, <1>2, <1>4 DEF Suivi, VersionsConnues, Chemin, UneTrace
  <1>8. EnClair(q)
    <2>1. CASE requetes[r].action = "complet"
      <3>1. q.etape = "journal" /\ q.clair = NiveauxDe[q.octets] /\ q.action = "complet"
        BY <1>3, <1>4, <2>1
      <3>2. q.octets # Nul
        BY <1>0, <1>4
      <3>. QED
        BY <3>1, <3>2 DEF EnClair
    <2>2. CASE requetes[r].action # "complet"
      BY <1>0, <1>3, <1>4, <2>2 DEF EnClair
    <2>. QED
      BY <2>1, <2>2
  <1>9. Suivi(q, traces[r])
    BY <1>0, <1>4, <1>6, <1>7, <1>8 DEF Suivi
  <1>. QED
    BY <1>5, <1>9, PasserInv

LEMMA ProtegerInv ==
  ASSUME IInv, NEW r \in Requetes, Proteger(r)
  PROVE  IInv'
  <1>0. /\ Suivi(requetes[r], traces[r]) /\ requetes[r] \in Requete
        /\ requetes[r].etape = "moteur" /\ MaxVersions \in Nat
    BY ConstantesRestitution DEF IInv, Suivi, Proteger, MaxVersions
  <1>1. requetes[r].portee = "contenu"
    BY <1>0 DEF Suivi, Chemin, Requete
  <1>. DEFINE c == ResteEnClair(requetes[r].octets, NiveauLu(r))
              e == IF requetes[r].action = "pseudonymise" THEN "pseudonymes" ELSE "journal"
              q == [requetes[r] EXCEPT !.clair = c, !.etape = e]
  <1>2. requetes[r].octets \in 1..MaxVersions
    BY <1>0, <1>1 DEF Suivi, VersionsConnues, EnClair, EnLecture, Nul
  <1>3. c \in SUBSET Niveaux /\ e \in Etapes /\ e \in {"pseudonymes", "journal"}
    BY <1>2, EnClairTypee DEF Etapes
  <1>4. c = ResteEnClair(requetes[r].octets, NiveauMax(requetes[r].lue.niveau))
    BY DEF NiveauLu
  <1>5. Passer(r, q) /\ UNCHANGED traces
    BY DEF Proteger
  <1>. HIDE DEF c, e
  <1>6. /\ q \in Requete /\ q.etape = e /\ q.clair = c
        /\ q.portee = requetes[r].portee /\ q.lue = requetes[r].lue
        /\ q.role = requetes[r].role /\ q.action = requetes[r].action
        /\ q.octets = requetes[r].octets
    BY <1>0, <1>3 DEF Requete
  <1>. HIDE DEF q
  <1>7. Autorisee(q)
    BY <1>0, <1>1, <1>6 DEF Suivi, Autorisee, EnLecture
  <1>8. VersionsConnues(q) /\ Chemin(q) /\ UneTrace(q, traces[r])
    BY <1>0, <1>1, <1>3, <1>6 DEF Suivi, VersionsConnues, Chemin, UneTrace
  <1>9. EnClair(q)
    BY <1>0, <1>1, <1>2, <1>3, <1>4, <1>6 DEF Suivi, EnClair, EnLecture, Nul
  <1>10. Suivi(q, traces[r])
    BY <1>0, <1>6, <1>7, <1>8, <1>9 DEF Suivi
  <1>. QED
    BY <1>5, <1>10, PasserInv

LEMMA EnregistrerPseudonymesInv ==
  ASSUME IInv, NEW r \in Requetes, EnregistrerPseudonymes(r)
  PROVE  IInv'
  <1>. DEFINE q == [requetes[r] EXCEPT !.etape = "journal"]
  <1>0. /\ Suivi(requetes[r], traces[r]) /\ requetes[r] \in Requete
        /\ requetes[r].etape = "pseudonymes" /\ Passer(r, q) /\ UNCHANGED traces
    BY DEF IInv, Suivi, EnregistrerPseudonymes
  <1>1. requetes[r].portee = "contenu"
    BY <1>0 DEF Suivi, Chemin, Requete
  <1>2. /\ q \in Requete /\ q.etape = "journal" /\ q.clair = requetes[r].clair
        /\ q.portee = requetes[r].portee /\ q.lue = requetes[r].lue
        /\ q.role = requetes[r].role /\ q.action = requetes[r].action
        /\ q.octets = requetes[r].octets
    BY <1>0 DEF Requete, Etapes
  <1>. HIDE DEF q
  <1>3. Suivi(q, traces[r])
    BY <1>0, <1>1, <1>2
       DEF Suivi, VersionsConnues, Chemin, UneTrace, Autorisee, EnClair, EnLecture
  <1>. QED
    BY <1>0, <1>3, PasserInv

(* The reading written, then answered.                                     *)
LEMMA JournaliserLectureInv ==
  ASSUME IInv, NEW r \in Requetes, JournaliserLecture(r)
  PROVE  IInv'
  <1>1. PICK code \in Codes : code = 200
    BY DEF Codes
  <1>. DEFINE q == [requetes[r] EXCEPT !.etape = "finie", !.code = code]
              e == [action |-> "LECTURE", politique |-> requetes[r].action]
  <1>0. /\ Suivi(requetes[r], traces[r]) /\ requetes[r] \in Requete
        /\ requetes[r].etape = "journal" /\ Passer(r, q)
    BY <1>1 DEF IInv, Suivi, JournaliserLecture
  <1>2. /\ q \in Requete /\ q.etape = "finie" /\ q.clair = requetes[r].clair
        /\ q.portee = requetes[r].portee /\ q.lue = requetes[r].lue
        /\ q.role = requetes[r].role /\ q.action = requetes[r].action
        /\ q.octets = requetes[r].octets /\ q.code = code
    BY <1>0 DEF Requete, Etapes
  <1>3. traces[r] = <<>>
    BY <1>0 DEF Suivi, UneTrace
  <1>4. e \in Trace /\ <<e>> \in Seq(Trace)
    BY <1>0 DEF Trace, Requete
  <1>5. traces' = [traces EXCEPT ![r] = <<e>>]
    <2>1. Append(<<>>, e) = <<e>>
      OBVIOUS
    <2>. QED
      BY <1>3, <2>1 DEF JournaliserLecture, Tracer, IInv, TypeOK
  <1>6. e = [action |-> "LECTURE", politique |-> q.action]
    BY <1>2
  <1>. HIDE DEF q, e
  <1>7. UneTrace(q, <<e>>)
    BY <1>1, <1>2, <1>6 DEF UneTrace
  <1>8. VersionsConnues(q) /\ Chemin(q) /\ Autorisee(q) /\ EnClair(q)
    BY <1>0, <1>1, <1>2 DEF Suivi, VersionsConnues, Chemin, Autorisee, EnClair, EnLecture
  <1>9. Suivi(q, <<e>>)
    BY <1>0, <1>2, <1>4, <1>7, <1>8 DEF Suivi
  <1>. QED
    BY <1>0, <1>5, <1>9, HandlerInv DEF Passer

(* The calls that throw.                                                   *)
LEMMA EchecsInv ==
  ASSUME IInv, NEW r \in Requetes, LectureEchoue(r) \/ MoteurIndisponible(r) \/ Panne(r)
  PROVE  IInv'
  <1>1. CASE LectureEchoue(r)
    <2>1. requetes[r].etape = "source" /\ requetes[r].portee = "contenu"
      BY <1>1 DEF LectureEchoue, IInv, Suivi, Chemin, Requete
    <2>. QED
      BY <1>1, <2>1, RefuserInv DEF LectureEchoue
  <1>2. CASE MoteurIndisponible(r) \/ Panne(r)
    <2>1. PICK code \in {500, 502} : Repondre(r, code)
      BY <1>2 DEF MoteurIndisponible, Panne
    <2>. QED
      BY <2>1, RepondreInv
  <1>. QED
    BY <1>1, <1>2

(* Every step preserves the invariant.                                     *)
LEMMA NextInv == IInv /\ [Next]_vars => IInv'
  <1>. SUFFICES ASSUME IInv, [Next]_vars PROVE IInv'
    OBVIOUS
  <1>1. CASE NextPolitique /\ UNCHANGED varsPEP
    BY <1>1, PolitiqueInv
  <1>2. CASE ModifierFichier \/ Orchestrateur
    BY <1>2, DocumentInv
  <1>3. ASSUME NEW r \in Requetes, Servir(r) PROVE IInv'
    <2>1. CASE Arriver(r) \/ RefuserJeton(r)
      BY <2>1, ArriverInv
    <2>2. CASE ChargerDocument(r)
      BY <2>2, ChargerDocumentInv
    <2>3. CASE Decider(r)
      BY <2>3, DeciderInv
    <2>4. CASE JournaliserRefus(r)
      BY <2>4, JournaliserRefusInv
    <2>5. CASE LireOctets(r)
      BY <2>5, LireOctetsInv
    <2>6. CASE Proteger(r)
      BY <2>6, ProtegerInv
    <2>7. CASE EnregistrerPseudonymes(r)
      BY <2>7, EnregistrerPseudonymesInv
    <2>8. CASE JournaliserLecture(r)
      BY <2>8, JournaliserLectureInv
    <2>9. CASE LectureEchoue(r) \/ MoteurIndisponible(r) \/ Panne(r)
      BY <2>9, EchecsInv
    <2>. QED
      BY <1>3, <2>1, <2>2, <2>3, <2>4, <2>5, <2>6, <2>7, <2>8, <2>9 DEF Servir
  <1>4. CASE UNCHANGED vars
    <2>1. UNCHANGED varsPolitique /\ UNCHANGED <<fichier, ligne, requetes, traces>>
      BY <1>4 DEF vars, varsPEP
    <2>. QED
      BY <2>1 DEF IInv, TypeOK, TypeOKPolitique, MatriceLue, varsPolitique, Suivi,
                  VersionsConnues, Chemin, UneTrace, Autorisee, EnClair, EnLecture
  <1>. QED
    BY <1>1, <1>2, <1>3, <1>4 DEF Next

(* IInv holds in every reachable state.                                    *)
THEOREM Invariant == Spec => []IInv
  BY InitInv, NextInv, PTL DEF Spec

-------------------------------------------------------------------------------
(* What the point guarantees.                                              *)

(* T-03: a request served, refused by policy, refused for want of an       *)
(* analysis or on an unknown document has left exactly one entry, which    *)
(* says what was done (documents.service.ts: journaliserRefus before the   *)
(* exception, journaliser before the answer).                              *)
THEOREM UneTraceParReponseInvariante == Spec => []UneTraceParReponse
  <1>1. ASSUME IInv, NEW r \in Requetes
        PROVE  /\ Repondu(r, {200}) =>
                    traces[r] = <<[action |-> "LECTURE", politique |-> requetes[r].action]>>
               /\ Repondu(r, {403, 423}) =>
                    traces[r] = <<[action |-> "REFUS", politique |-> "refus"]>>
               /\ Repondu(r, {404}) /\ requetes[r].portee = "contenu" =>
                    traces[r] = <<[action |-> "REFUS", politique |-> "refus"]>>
    <2>1. UneTrace(requetes[r], traces[r])
      BY <1>1 DEF IInv, Suivi
    <2>. QED
      BY <2>1 DEF UneTrace, Repondu
  <1>2. IInv => UneTraceParReponse
    BY <1>1 DEF UneTraceParReponse
  <1>. QED
    BY <1>2, Invariant, PTL

(* Types; an action taken by a request is one the matrix can hold, and the *)
(* versions met are some the file has had.                                 *)
THEOREM TypesPEP == Spec => []TypeOK
  <1>1. IInv => TypeOK
    BY DEF IInv
  <1>. QED
    BY <1>1, Invariant, PTL

(* A level the role may read in some form, and one below: that one is read *)
(* in full.                                                                *)
LEMMA SousLeSeuil ==
  ASSUME NEW role, NEW n, <<role, n>> \in DOMAIN Matrice, Matrice[<<role, n>>] # "refus",
         NEW m \in Niveaux, Rang[m] < Rang[n]
  PROVE  <<role, m>> \in DOMAIN Matrice /\ Matrice[<<role, m>>] = "complet"
  <1>. DEFINE c == <<role, n>>
  <1>1. c[1] = role /\ c[2] = n
    OBVIOUS
  <1>2. c \in DOMAIN Matrice /\ Matrice[c] # "refus" /\ Rang[m] < Rang[c[2]]
    BY <1>1
  <1>. HIDE DEF c
  <1>. QED
    BY <1>1, <1>2, UnSeulSeuil

(* Nothing is readable in an answer that the matrix does not give the role *)
(* in full, for a content that is the one its level was computed from: the *)
(* threshold of the engine is the level of the row, which is the highest   *)
(* of the content (calculer_niveau_sensibilite), and the default of the    *)
(* decision is a refusal (politique.service.ts).                           *)
THEOREM ClairAutoriseInvariant == Spec => []ClairAutorise
  <1>1. ASSUME IInv, NEW r \in Requetes, ContenuServi(r),
               requetes[r].octets = requetes[r].lue.niveau, NEW n \in requetes[r].clair
        PROVE  /\ base = "amorcee"
               /\ <<requetes[r].role, n>> \in DOMAIN Matrice
               /\ Matrice[<<requetes[r].role, n>>] = "complet"
    <2>. DEFINE q == requetes[r]
                seuil == NiveauMax(q.lue.niveau)
    <2>1. /\ q \in Requete /\ VersionsConnues(q) /\ EnLecture(q) /\ Autorisee(q) /\ EnClair(q)
          /\ q.etape = "finie"
      BY <1>1 DEF IInv, Suivi, ContenuServi, Repondu, EnLecture
    <2>2. /\ base = "amorcee" /\ seuil # "aucun" /\ <<q.role, seuil>> \in DOMAIN Matrice
          /\ q.action = Matrice[<<q.role, seuil>>] /\ q.action # "refus"
          /\ q.clair = IF q.action = "complet" THEN NiveauxDe[q.octets]
                       ELSE ResteEnClair(q.octets, seuil)
      BY <2>1 DEF Autorisee, EnClair
    <2>3. /\ q.octets = q.lue.niveau /\ q.lue.niveau \in 0..MaxVersions
          /\ NiveauxDe[q.octets] \in SUBSET Niveaux /\ seuil \in NiveauxDe[q.octets]
          /\ \A m \in NiveauxDe[q.octets] : Rang[m] <= Rang[seuil]
      BY <1>1, <2>1, <2>2, NiveauMaxJuste DEF VersionsConnues
    <2>. HIDE DEF seuil
    <2>4. n \in NiveauxDe[q.octets] /\ n \in Niveaux /\ seuil \in Niveaux
      BY <2>2, <2>3 DEF ResteEnClair
    <2>5. CASE Rang[n] < Rang[seuil]
      BY <2>2, <2>4, <2>5, SousLeSeuil
    <2>6. CASE ~ (Rang[n] < Rang[seuil])
      <3>1. Rang[n] = Rang[seuil]
        BY <2>3, <2>4, <2>6, ConstantesRestitution
      <3>2. n = seuil
        BY <2>4, <3>1, ConstantesRestitution
      <3>3. q.action = "complet"
        BY <2>2, <2>6 DEF ResteEnClair
      <3>. QED
        BY <2>2, <3>2, <3>3
    <2>. QED
      BY <2>5, <2>6
  <1>2. IInv => ClairAutorise
    BY <1>1 DEF ClairAutorise
  <1>. QED
    BY <1>2, Invariant, PTL

===============================================================================
