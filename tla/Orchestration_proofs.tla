-------------------------- MODULE Orchestration_proofs -------------------------
(***************************************************************************)
(* What Orchestration guarantees for any set of documents, any number of   *)
(* attempts, batch size, concurrency, versions and incidents.              *)
(*                                                                         *)
(* The argument.  A job id names at most one job, and a handler runs only  *)
(* while its job is active (HandlerActif); so two handlers never work on   *)
(* one document, and between marquerStatut('en_analyse') and the end of    *)
(* the moment its result is stored only an upsert may touch the status: it *)
(* stays 'en_analyse' or goes back to 'decouvert' (StatutDuTravail).  In   *)
(* its catch the handler may find the row 'analyse': its own transaction,  *)
(* committed without an answer.  What is queued was in                     *)
(* the catalogue first (TacheCataloguee).  The content in hand was in the  *)
(* file after whatever the catalogue holds (VersionsOrdonnees).            *)
(***************************************************************************)
EXTENDS Orchestration, FiniteSetTheorems, TLAPS

HandlerActif ==
  \A d \in Documents :
    executions[d].phase # "aucune" => taches[d].etat = "active"

StatutDuTravail ==
  \A d \in Documents :
    executions[d].phase \in {"lecture", "ecriture"} =>
      catalogue[d].statut \in {"decouvert", "en_analyse"}

VersionsOrdonnees ==
  \A d \in Documents :
    /\ fichiers[d] <= MaxVersions
    /\ catalogue[d].entites <= fichiers[d]
    /\ executions[d].phase = "ecriture" =>
         /\ executions[d].lu # Nul
         /\ executions[d].lu <= fichiers[d]
         /\ catalogue[d].entites <= executions[d].lu

ClasseEntier ==
  \A d \in Documents :
    catalogue[d].statut = "analyse" =>
      catalogue[d].niveau # Nul /\ catalogue[d].niveau = catalogue[d].entites

(* The inductive invariant.                                                *)
IInv ==
  /\ TypeOK
  /\ HandlerActif
  /\ TacheCataloguee
  /\ StatutDuTravail
  /\ VersionsOrdonnees
  /\ ClasseEntier

-------------------------------------------------------------------------------
(* The operators of Catalogue and FileTaches stay within their types.      *)

LEMMA LignesTypees ==
  ASSUME NEW l \in LigneDocument, NEW v \in Nat, NEW s \in StatutDoc
  PROVE  /\ LigneInscrite(l, v) \in LigneDocument
         /\ LigneMarquee(l, s) \in LigneDocument
         /\ LigneAnalysee(l, v) \in LigneDocument
  <1>. USE PlafondEntier DEF LigneDocument, StatutDoc, Nul
  <1>1. LigneInscrite(l, v) \in LigneDocument
    BY DEF LigneInscrite
  <1>2. LigneMarquee(l, s) \in LigneDocument
    <2>. DEFINE n == IF s = "echec" /\ l.tentatives < PlafondTentatives
                       THEN l.tentatives + 1 ELSE l.tentatives
    <2>1. n \in Nat
      OBVIOUS
    <2>2. LigneMarquee(l, s) = [l EXCEPT !.statut = s, !.tentatives = n]
      BY DEF LigneMarquee
    <2>. QED
      BY <2>1, <2>2
  <1>3. LigneAnalysee(l, v) \in LigneDocument
    BY DEF LigneAnalysee
  <1>. QED  BY <1>1, <1>2, <1>3

LEMMA TachesTypees ==
  ASSUME NEW t \in Tache, NEW n \in Nat
  PROVE  /\ TacheAbsente \in Tache
         /\ TacheAjoutee(t) \in Tache
         /\ TachePrise(t) \in Tache
         /\ TacheRejetee(t, n) \in Tache
         /\ TacheReveillee(t) \in Tache
         /\ TacheDebloquee(t) \in Tache
  <1>. USE DEF Tache
  <1>1. TacheAbsente \in Tache
    BY DEF TacheAbsente
  <1>2. TacheAjoutee(t) \in Tache
    BY DEF TacheAjoutee, TacheAbsente
  <1>3. TachePrise(t) \in Tache /\ TacheReveillee(t) \in Tache
    BY DEF TachePrise, TacheReveillee
  <1>4. TacheRejetee(t, n) \in Tache
    <2>1. [t EXCEPT !.etat = "differee", !.essais = t.essais + 1] \in Tache
      <3>1. t.essais + 1 \in Nat
        OBVIOUS
      <3>. QED  BY <3>1
    <2>2. TacheRejetee(t, n)
            \in {[t EXCEPT !.etat = "differee", !.essais = t.essais + 1],
                 TacheAbsente}
      BY DEF TacheRejetee
    <2>. QED  BY <1>1, <2>1, <2>2
  <1>5. TacheDebloquee(t) \in Tache
    <2>1. [t EXCEPT !.etat = "attente", !.blocages = 1] \in Tache
      <3>1. [t EXCEPT !.etat = "attente"] \in Tache
        OBVIOUS
      <3>2. \A u \in Tache : [u EXCEPT !.blocages = 1] \in Tache
        OBVIOUS
      <3>. QED  BY <3>1, <3>2
    <2>2. TacheDebloquee(t)
            \in {[t EXCEPT !.etat = "attente", !.blocages = 1], TacheAbsente}
      BY DEF TacheDebloquee
    <2>. QED  BY <1>1, <2>1, <2>2
  <1>. QED  BY <1>1, <1>2, <1>3, <1>4, <1>5

LEMMA DateTypee == ProchaineDate \in Nat
  <1>. DEFINE C == {d \in Documents : catalogue[d].statut # "absent"}
  <1>1. IsFiniteSet(C)
    BY FS_Subset, ConstantesOrchestration
  <1>2. Cardinality(C) \in Nat
    BY <1>1, FS_CardinalityType
  <1>. QED  BY <1>2 DEF ProchaineDate

LEMMA InitTypee == Init => TypeOK
  BY DEF Init, TypeOK, LigneDocument, LigneAbsente, Tache, TacheAbsente,
         Execution, AucuneExecution, Phases, Scan, AucunScan, Etapes, Nul

(* PlanifierAnalyses keeps the type of the queue.                          *)
LEMMA PlanificationTypee ==
  ASSUME TypeOK, NEW ids, PlanifierAnalyses(ids)
  PROVE  taches' \in [Documents -> Tache]
  BY TachesTypees DEF TypeOK, PlanifierAnalyses

LEMMA PassageType ==
  ASSUME TypeOK, NEW d \in Documents, NEW p \in Phases, NEW v \in Nat,
         Passer(d, p, v)
  PROVE  executions' \in [Documents -> Execution]
  BY DEF TypeOK, Passer, Execution

(* The steps of the scan, of the users and of the crash keep the types.    *)
LEMMA TypesDuScan ==
  ASSUME TypeOK,
         \/ PlanifierScan \/ EtapeScan \/ PannesScan \/ ArretBrutal
         \/ \E d \in Documents : ModifierFichier(d)
  PROVE  TypeOK'
  <1>. USE ConstantesOrchestration, TachesTypees DEF TypeOK, Nul
  <1>0. AucunScan \in Scan
    BY DEF AucunScan, Scan, Etapes
  <1>1. CASE PlanifierScan
    BY <1>1 DEF PlanifierScan
  <1>2. CASE PrendreScan
    <2>1. DocumentsARelancer \in SUBSET Documents
      BY DEF DocumentsARelancer
    <2>2. scan' \in Scan
      BY <1>0, <1>2, <2>1 DEF PrendreScan, Scan, Etapes
    <2>. QED  BY <1>2, <2>2 DEF PrendreScan
  <1>3. CASE Relancer
    <2>1. scan' \in Scan
      BY <1>0, <1>3 DEF Relancer, Scan, Etapes
    <2>. QED  BY <1>3, <2>1, PlanificationTypee DEF Relancer
  <1>4. ASSUME NEW d \in Documents, LireRessource(d)
        PROVE  TypeOK'
    <2>1. scan' \in Scan
      BY <1>4 DEF LireRessource, Scan, Etapes
    <2>. QED  BY <1>4, <2>1 DEF LireRessource
  <1>5. ASSUME NEW d \in Documents, IgnorerRessource(d)
        PROVE  TypeOK'
    <2>1. scan' \in Scan
      BY <1>5 DEF IgnorerRessource, Scan
    <2>. QED  BY <1>5, <2>1 DEF IgnorerRessource
  <1>60. ASSUME NEW d \in Documents, UpsertDocument(d)
         PROVE  /\ catalogue' \in [Documents -> LigneDocument]
                /\ decouverte' \in [Documents -> Nat]
    <2>1. scan.lu \in Nat
      BY DEF Scan
    <2>2. LigneInscrite(catalogue[d], scan.lu) \in LigneDocument
      BY <2>1, LignesTypees, "decouvert" \in StatutDoc DEF StatutDoc
    <2>. QED
      BY <1>60, <2>2, DateTypee DEF UpsertDocument
  <1>6. ASSUME NEW d \in Documents, InscrireRessource(d)
        PROVE  TypeOK'
    <2>1. catalogue' \in [Documents -> LigneDocument]
      BY <1>6, <1>60 DEF InscrireRessource
    <2>2. decouverte' \in [Documents -> Nat]
      BY <1>6, <1>60 DEF InscrireRessource
    <2>3. scan' \in Scan
      <3>1. ASSUME NEW e \in Etapes, NEW l \in SUBSET Documents
            PROVE  [scan EXCEPT !.etape = e, !.courant = {}, !.lu = Nul,
                                !.lot = l] \in Scan
        BY DEF Scan
      <3>2. CASE MemeEmpreinte(catalogue[d], scan.lu)
        <4>1. [scan EXCEPT !.etape = "parcours", !.courant = {}, !.lu = Nul]
                \in Scan
          BY DEF Scan, Etapes
        <4>. QED
          BY <1>6, <3>2, <4>1 DEF InscrireRessource, UpsertDocument
      <3>3. CASE ~ MemeEmpreinte(catalogue[d], scan.lu)
        <4>. DEFINE e == IF Cardinality(scan.lot \cup {d}) >= TailleLot
                           THEN "lot" ELSE "parcours"
                    l == scan.lot \cup {d}
        <4>1. e \in Etapes
          BY DEF Etapes
        <4>2. l \in SUBSET Documents
          BY DEF Scan
        <4>3. scan' = [scan EXCEPT !.etape = e, !.courant = {}, !.lu = Nul,
                                   !.lot = l]
          BY <1>6, <3>3 DEF InscrireRessource
        <4>. QED
          BY <3>1, <4>1, <4>2, <4>3
      <3>. QED  BY <3>2, <3>3
    <2>. QED  BY <1>6, <2>1, <2>2, <2>3 DEF InscrireRessource
  <1>61. ASSUME NEW d \in Documents, InscriptionSansReponse(d)
         PROVE  TypeOK'
    <2>1. scan' \in Scan
      BY <1>61 DEF InscriptionSansReponse, Scan, Etapes
    <2>. QED  BY <1>60, <1>61, <2>1 DEF InscriptionSansReponse, Incident
  <1>7. CASE InscriptionEchoue
    <2>1. scan' \in Scan
      BY <1>7 DEF InscriptionEchoue, Scan, Etapes
    <2>. QED  BY <1>7, <2>1 DEF InscriptionEchoue, Incident
  <1>8. CASE MettreEnFileLot
    <2>1. scan' \in Scan
      BY <1>8 DEF MettreEnFileLot, Scan, Etapes
    <2>. QED  BY <1>8, <2>1, PlanificationTypee DEF MettreEnFileLot
  <1>9. CASE MettreEnFileLotEchoue
    <2>1. scan' \in Scan
      BY <1>9 DEF MettreEnFileLotEchoue, Scan, Etapes
    <2>. QED  BY <1>9, <2>1 DEF MettreEnFileLotEchoue, Incident
  <1>91. CASE MettreEnFileLotSansReponse
    <2>1. scan' \in Scan
      BY <1>91 DEF MettreEnFileLotSansReponse, Scan, Etapes
    <2>. QED
      BY <1>91, <2>1, PlanificationTypee DEF MettreEnFileLotSansReponse, Incident
  <1>10. CASE FinParcours
    <2>1. scan' \in Scan
      BY <1>10 DEF FinParcours, Scan, Etapes
    <2>. QED  BY <1>10, <2>1 DEF FinParcours
  <1>11. CASE MettreEnFileReste
    <2>1. scan' \in Scan
      BY <1>0, <1>11 DEF MettreEnFileReste, Scan, Etapes
    <2>. QED  BY <1>11, <2>1, PlanificationTypee DEF MettreEnFileReste
  <1>12. CASE CloreScan
    BY <1>0, <1>12 DEF CloreScan
  <1>13. CASE ScanEchoue
    BY <1>0, <1>13, SMTT(30) DEF ScanEchoue, Incident
  <1>14. CASE ArretBrutal
    <2>1. AucuneExecution \in Execution
      BY DEF AucuneExecution, Execution, Phases
    <2>. QED  BY <1>0, <1>14, <2>1 DEF ArretBrutal, Incident
  <1>15. CASE DebloquerScan
    BY <1>15 DEF DebloquerScan
  <1>16. ASSUME NEW d \in Documents, ModifierFichier(d)
         PROVE  TypeOK'
    BY <1>16 DEF ModifierFichier
  <1>. QED
    BY <1>1, <1>2, <1>3, <1>4, <1>5, <1>6, <1>61, <1>7, <1>8, <1>9, <1>91,
       <1>10, <1>11, <1>12, <1>13, <1>14, <1>15, <1>16 DEF EtapeScan, PannesScan

(* The steps of an analysis keep the types.                                *)
LEMMA TypesDeLAnalyse ==
  ASSUME TypeOK, NEW d \in Documents, EtapeAnalyse(d) \/ PannesAnalyse(d)
  PROVE  TypeOK'
  <1>. USE TachesTypees, PassageType DEF TypeOK, Phases, Nul
  <1>1. CASE PrendreAnalyse(d)
    BY <1>1 DEF PrendreAnalyse
  <1>2. CASE MarquerEnAnalyse(d)
    BY <1>2, LignesTypees DEF MarquerEnAnalyse, StatutDoc
  <1>3. CASE LireEtAnalyser(d)
    BY <1>3 DEF LireEtAnalyser
  <1>4. CASE EnregistrerEntites(d) \/ EnregistrementSansReponse(d)
    <2>1. executions[d].lu \in Nat
      BY DEF Execution
    <2>2. LigneAnalysee(catalogue[d], executions[d].lu) \in LigneDocument
      BY <2>1, LignesTypees, "decouvert" \in StatutDoc DEF StatutDoc
    <2>3. CASE EnregistrerEntites(d)
      BY <2>2, <2>3 DEF EnregistrerEntites
    <2>4. CASE EnregistrementSansReponse(d)
      BY <2>2, <2>4 DEF EnregistrementSansReponse, Incident
    <2>. QED  BY <1>4, <2>3, <2>4
  <1>5. CASE MarquerEchec(d)
    BY <1>5, LignesTypees DEF MarquerEchec, StatutDoc
  <1>6. CASE AcquitterTache(d)
    BY <1>6 DEF AcquitterTache
  <1>7. CASE RejeterTache(d)
    BY <1>7, ConstantesOrchestration DEF RejeterTache
  <1>8. CASE ReveillerTache(d)
    BY <1>8 DEF ReveillerTache
  <1>9. CASE DebloquerTache(d)
    BY <1>9 DEF DebloquerTache
  <1>10. CASE MarquageEchoue(d) \/ LectureEchoue(d) \/ EnregistrementEchoue(d)
              \/ MarquageEchecEchoue(d)
    BY <1>10 DEF MarquageEchoue, LectureEchoue, EnregistrementEchoue,
                 MarquageEchecEchoue, Incident
  <1>11. CASE MarquageSansReponse(d)
    BY <1>11, LignesTypees DEF MarquageSansReponse, StatutDoc, Incident
  <1>. QED
    BY <1>1, <1>2, <1>3, <1>4, <1>5, <1>6, <1>7, <1>8, <1>9, <1>10, <1>11
       DEF EtapeAnalyse, PannesAnalyse

LEMMA TypeEtape == TypeOK /\ [Next]_vars => TypeOK'
  <1>. SUFFICES ASSUME TypeOK, [Next]_vars
                PROVE  TypeOK'
    OBVIOUS
  <1>1. CASE UNCHANGED vars
    BY <1>1 DEF vars, TypeOK
  <1>. QED
    BY <1>1, TypesDuScan, TypesDeLAnalyse DEF Next

(* Every column, job and handler stays within its range, in every          *)
(* behaviour of the orchestrator (catalog.service.ts, queue.ts,            *)
(* scan.processor.ts).                                                     *)
THEOREM TypeCorrect == Spec => []TypeOK
  BY InitTypee, TypeEtape, PTL DEF Spec

-------------------------------------------------------------------------------
(* The inductive invariant.                                                *)

(* Everything of IInv but the types.                                       *)
Coherence ==
  HandlerActif /\ TacheCataloguee /\ StatutDuTravail /\ VersionsOrdonnees
    /\ ClasseEntier

LEMMA InitCoherente == Init => Coherence
  BY ConstantesOrchestration
     DEF Init, Coherence, HandlerActif, TacheCataloguee, StatutDuTravail,
         VersionsOrdonnees, ClasseEntier, AucuneExecution, TacheAbsente,
         LigneAbsente, AucunScan, Nul

(* An added job is there afterwards, and one that was active still is.     *)
LEMMA AjoutConserve ==
  ASSUME TypeOK, NEW ids, PlanifierAnalyses(ids), NEW d \in Documents
  PROVE  /\ taches[d].etat = "active" => taches'[d].etat = "active"
         /\ taches'[d].etat # "absente" => taches[d].etat # "absente" \/ d \in ids
  BY DEF TypeOK, PlanifierAnalyses, TacheAjoutee, TacheAbsente, Tache

(* Queueing catalogued documents, with no other table or handler touched,  *)
(* keeps the coherence.                                                    *)
LEMMA PlanificationCoherente ==
  ASSUME TypeOK, Coherence, NEW ids, PlanifierAnalyses(ids),
         \A d \in Documents : d \in ids => catalogue[d].statut # "absent",
         UNCHANGED <<fichiers, catalogue, executions>>,
         scan'.selection = {}, scan'.lot = {}
  PROVE  Coherence'
  <1>1. HandlerActif'
    BY AjoutConserve DEF Coherence, HandlerActif
  <1>2. TacheCataloguee'
    BY AjoutConserve DEF Coherence, TacheCataloguee
  <1>3. StatutDuTravail' /\ VersionsOrdonnees' /\ ClasseEntier'
    BY DEF Coherence, StatutDuTravail, VersionsOrdonnees, ClasseEntier
  <1>. QED
    BY <1>1, <1>2, <1>3 DEF Coherence

(* A step that touches neither the files, the catalogue, the analysis jobs *)
(* nor their handlers, and adds nothing to what is about to be queued.     *)
LEMMA ScanSeulCoherent ==
  ASSUME Coherence, UNCHANGED <<fichiers, catalogue, taches, executions>>,
         \A d \in Documents : d \in scan'.selection \cup scan'.lot =>
                                \/ d \in scan.selection \cup scan.lot
                                \/ catalogue[d].statut # "absent"
  PROVE  Coherence'
  BY DEF Coherence, HandlerActif, TacheCataloguee, StatutDuTravail,
         VersionsOrdonnees, ClasseEntier

LEMMA CoherenceDuScan ==
  ASSUME TypeOK, Coherence,
         \/ PlanifierScan \/ EtapeScan \/ PannesScan \/ ArretBrutal
         \/ \E d \in Documents : ModifierFichier(d)
  PROVE  Coherence'
  <1>0. /\ scan \in Scan
        /\ AucunScan.selection = {} /\ AucunScan.lot = {}
    BY DEF TypeOK, AucunScan
  <1>00. \A d \in Documents : d \in scan.selection \cup scan.lot
                                => catalogue[d].statut # "absent"
    BY DEF Coherence, TacheCataloguee
  <1>1. CASE PlanifierScan
    BY <1>1, ScanSeulCoherent DEF PlanifierScan
  <1>2. CASE PrendreScan
    <2>1. /\ scan'.selection = DocumentsARelancer
          /\ scan'.lot = {}
      BY <1>2 DEF PrendreScan, AucunScan
    <2>2. \A d \in DocumentsARelancer : catalogue[d].statut # "absent"
      BY DEF DocumentsARelancer, EnAttente, StatutDoc
    <2>. QED
      BY <1>2, <2>1, <2>2, ScanSeulCoherent DEF PrendreScan
  <1>3. CASE Relancer
    <2>1. scan'.selection = {} /\ scan'.lot = {}
      BY <1>3 DEF Relancer, AucunScan
    <2>. QED
      BY <1>00, <1>3, <2>1, PlanificationCoherente DEF Relancer
  <1>4. ASSUME NEW d \in Documents, LireRessource(d)
        PROVE  Coherence'
    BY <1>0, <1>4, ScanSeulCoherent DEF LireRessource, Scan
  <1>5. ASSUME NEW d \in Documents, IgnorerRessource(d)
        PROVE  Coherence'
    BY <1>0, <1>5, ScanSeulCoherent DEF IgnorerRessource, Scan
  <1>60. ASSUME NEW d \in Documents, UpsertDocument(d),
                UNCHANGED <<fichiers, taches, executions>>,
                scan'.selection = scan.selection,
                scan'.lot \in {scan.lot, scan.lot \cup {d}}
         PROVE  Coherence'
    <2>1. /\ catalogue'[d].statut = "decouvert"
          /\ catalogue'[d].entites = catalogue[d].entites
          /\ \A e \in Documents : e # d => catalogue'[e] = catalogue[e]
      <3>1. /\ catalogue \in [Documents -> LigneDocument]
            /\ catalogue' = [catalogue EXCEPT
                               ![d] = LigneInscrite(catalogue[d], scan.lu)]
        BY <1>60 DEF UpsertDocument, TypeOK
      <3>2. \A l \in LigneDocument, v \in Nat :
              /\ LigneInscrite(l, v).statut = "decouvert"
              /\ LigneInscrite(l, v).entites = l.entites
        BY DEF LigneInscrite, LigneDocument
      <3>3. scan.lu \in Nat
        BY <1>0 DEF Scan
      <3>. QED
        BY <3>1, <3>2, <3>3
    <2>2. HandlerActif'
      BY <1>60 DEF Coherence, HandlerActif
    <2>3. TacheCataloguee'
      BY <1>60, <2>1 DEF Coherence, TacheCataloguee
    <2>4. StatutDuTravail' /\ ClasseEntier'
      BY <1>60, <2>1 DEF Coherence, StatutDuTravail, ClasseEntier
    <2>5. VersionsOrdonnees'
      BY <1>60, <2>1 DEF Coherence, VersionsOrdonnees
    <2>. QED
      BY <2>2, <2>3, <2>4, <2>5 DEF Coherence
  <1>6. ASSUME NEW d \in Documents, InscrireRessource(d)
        PROVE  Coherence'
    <2>1. CASE MemeEmpreinte(catalogue[d], scan.lu)
      <3>1. scan'.selection = scan.selection /\ scan'.lot = scan.lot
        BY <1>0, <1>6, <2>1 DEF InscrireRessource, UpsertDocument, Scan
      <3>. QED
        BY <1>6, <2>1, <3>1, ScanSeulCoherent
           DEF InscrireRessource, UpsertDocument
    <2>2. CASE UpsertDocument(d)
      <3>1. scan'.selection = scan.selection /\ scan'.lot = scan.lot \cup {d}
        BY <1>0, <1>6, <2>2 DEF InscrireRessource, UpsertDocument, Scan
      <3>2. UNCHANGED <<fichiers, taches, executions>>
        BY <1>6 DEF InscrireRessource
      <3>. QED
        BY <1>60, <2>2, <3>1, <3>2
    <2>. QED  BY <1>6, <2>1, <2>2 DEF InscrireRessource
  <1>61. ASSUME NEW d \in Documents, InscriptionSansReponse(d)
         PROVE  Coherence'
    <2>1. scan'.selection = scan.selection /\ scan'.lot = scan.lot
      BY <1>0, <1>61 DEF InscriptionSansReponse, Scan
    <2>. QED
      BY <1>60, <1>61, <2>1 DEF InscriptionSansReponse
  <1>7. CASE InscriptionEchoue \/ MettreEnFileLotEchoue \/ FinParcours
    BY <1>0, <1>7, ScanSeulCoherent
       DEF InscriptionEchoue, MettreEnFileLotEchoue, FinParcours, Scan
  <1>8. CASE MettreEnFileLot \/ MettreEnFileLotSansReponse
    <2>1. /\ PlanifierAnalyses(scan.lot)
          /\ UNCHANGED <<fichiers, catalogue, executions>>
          /\ scan'.selection = scan.selection /\ scan'.lot \in {{}, scan.lot}
      BY <1>0, <1>8 DEF MettreEnFileLot, MettreEnFileLotSansReponse, Scan
    <2>2. HandlerActif'
      BY <2>1, AjoutConserve DEF Coherence, HandlerActif
    <2>3. TacheCataloguee'
      BY <2>1, AjoutConserve DEF Coherence, TacheCataloguee
    <2>4. StatutDuTravail' /\ VersionsOrdonnees' /\ ClasseEntier'
      BY <2>1 DEF Coherence, StatutDuTravail, VersionsOrdonnees, ClasseEntier
    <2>. QED
      BY <2>2, <2>3, <2>4 DEF Coherence
  <1>9. CASE MettreEnFileReste
    <2>1. scan'.selection = {} /\ scan'.lot = {}
      BY <1>9 DEF MettreEnFileReste, AucunScan
    <2>. QED
      BY <1>00, <1>9, <2>1, PlanificationCoherente DEF MettreEnFileReste
  <1>10. CASE CloreScan \/ ScanEchoue \/ DebloquerScan
    BY <1>0, <1>10, ScanSeulCoherent DEF CloreScan, ScanEchoue, DebloquerScan
  <1>11. CASE ArretBrutal
    BY <1>0, <1>11 DEF ArretBrutal, AucuneExecution, Coherence, HandlerActif,
       TacheCataloguee, StatutDuTravail, VersionsOrdonnees, ClasseEntier
  <1>12. ASSUME NEW d \in Documents, ModifierFichier(d)
         PROVE  Coherence'
    <2>1. /\ UNCHANGED <<catalogue, taches, executions, scan>>
          /\ \A e \in Documents :
               /\ fichiers[e] \in Nat /\ fichiers'[e] \in Nat
               /\ fichiers[e] <= fichiers'[e]
               /\ fichiers[e] <= MaxVersions => fichiers'[e] <= MaxVersions
      BY <1>12, ConstantesOrchestration DEF ModifierFichier, TypeOK
    <2>2. /\ \A e \in Documents : catalogue[e].entites \in Nat
          /\ \A e \in Documents : executions[e].lu \in Nat
      BY DEF TypeOK, LigneDocument, Execution
    <2>3. VersionsOrdonnees'
      <3>. SUFFICES ASSUME NEW e \in Documents
                    PROVE  VersionsOrdonnees!(e)'
        BY DEF VersionsOrdonnees
      <3>1. VersionsOrdonnees!(e)
        BY DEF Coherence, VersionsOrdonnees
      <3>. QED
        BY <2>1, <2>2, <3>1, ConstantesOrchestration
    <2>. QED
      BY <2>1, <2>3 DEF Coherence, HandlerActif, TacheCataloguee,
         StatutDuTravail, ClasseEntier
  <1>. QED
    BY <1>1, <1>2, <1>3, <1>4, <1>5, <1>6, <1>61, <1>7, <1>8, <1>9, <1>10,
       <1>11, <1>12 DEF EtapeScan, PannesScan

(* A step of the handler of document d moves that document, its job and    *)
(* its handler, and nothing else.                                          *)
SeulementDe(d) ==
  /\ UNCHANGED <<fichiers, scan>>
  /\ \A e \in Documents : e # d =>
       /\ catalogue'[e] = catalogue[e]
       /\ taches'[e] = taches[e]
       /\ executions'[e] = executions[e]

LEMMA EtapeLocale ==
  ASSUME TypeOK, NEW d \in Documents, EtapeAnalyse(d) \/ PannesAnalyse(d)
  PROVE  SeulementDe(d)
  <1>. USE DEF TypeOK, SeulementDe, Passer
  <1>1. CASE EtapeAnalyse(d)
    BY <1>1 DEF EtapeAnalyse, PrendreAnalyse, MarquerEnAnalyse, LireEtAnalyser,
                EnregistrerEntites, MarquerEchec, AcquitterTache, RejeterTache,
                ReveillerTache, DebloquerTache
  <1>2. CASE PannesAnalyse(d)
    BY <1>2 DEF PannesAnalyse, MarquageEchoue, MarquageSansReponse,
                LectureEchoue, EnregistrementEchoue, EnregistrementSansReponse,
                MarquageEchecEchoue
  <1>. QED  BY <1>1, <1>2

(* What IInv says of one document: enough to check the document that moved.*)
CoherenceDe(d) ==
  /\ executions[d].phase # "aucune" => taches[d].etat = "active"
  /\ \/ taches[d].etat # "absente"
     \/ executions[d].phase # "aucune"
     \/ d \in scan.selection \cup scan.lot
     => catalogue[d].statut # "absent"
  /\ executions[d].phase \in {"lecture", "ecriture"} =>
       catalogue[d].statut \in {"decouvert", "en_analyse"}
  /\ fichiers[d] <= MaxVersions
  /\ catalogue[d].entites <= fichiers[d]
  /\ executions[d].phase = "ecriture" =>
       /\ executions[d].lu # Nul
       /\ executions[d].lu <= fichiers[d]
       /\ catalogue[d].entites <= executions[d].lu
  /\ catalogue[d].statut = "analyse" =>
       catalogue[d].niveau # Nul /\ catalogue[d].niveau = catalogue[d].entites

LEMMA ParDocument == Coherence <=> \A d \in Documents : CoherenceDe(d)
  BY DEF Coherence, CoherenceDe, HandlerActif, TacheCataloguee,
         StatutDuTravail, VersionsOrdonnees, ClasseEntier

LEMMA ParDocumentPrime == Coherence' <=> \A d \in Documents : CoherenceDe(d)'
  BY DEF Coherence, CoherenceDe, HandlerActif, TacheCataloguee,
         StatutDuTravail, VersionsOrdonnees, ClasseEntier

(* The fields of a row or a job after the statement that rewrote it.       *)
LEMMA ChampsDesLignes ==
  ASSUME NEW l \in LigneDocument, NEW v \in Nat, NEW s \in StatutDoc
  PROVE  /\ LigneMarquee(l, s).statut = s
         /\ LigneMarquee(l, s).entites = l.entites
         /\ LigneMarquee(l, s).niveau = l.niveau
         /\ LigneAnalysee(l, v).statut = "analyse"
         /\ LigneAnalysee(l, v).entites = v
         /\ LigneAnalysee(l, v).niveau = v
  BY DEF LigneDocument, LigneMarquee, LigneAnalysee

LEMMA CoherenceDeLAnalyse ==
  ASSUME TypeOK, Coherence, NEW d \in Documents,
         EtapeAnalyse(d) \/ PannesAnalyse(d)
  PROVE  Coherence'
  <1>1. /\ catalogue \in [Documents -> LigneDocument]
        /\ taches \in [Documents -> Tache]
        /\ executions \in [Documents -> Execution]
        /\ fichiers[d] \in Nat
    BY DEF TypeOK
  <1>2. /\ catalogue[d] \in LigneDocument
        /\ catalogue[d].entites \in Nat
        /\ executions[d].lu \in Nat
    BY <1>1 DEF LigneDocument, Execution
  <1>3. CoherenceDe(d)
    BY ParDocument
  <1>4. SeulementDe(d)
    BY EtapeLocale
  <1>5. ASSUME NEW p, NEW v, Passer(d, p, v)
        PROVE  executions'[d].phase = p /\ executions'[d].lu = v
    BY <1>1, <1>5 DEF Passer
  <1>6. CoherenceDe(d)'
    <2>. USE <1>1, <1>2, <1>3, <1>4, <1>5 DEF CoherenceDe, SeulementDe, Nul
    <2>1. CASE PrendreAnalyse(d)
      <3>1. taches'[d].etat = "active"
        BY <2>1 DEF PrendreAnalyse, TachePrise, Tache
      <3>. QED  BY <2>1, <3>1 DEF PrendreAnalyse
    <2>2. CASE MarquerEnAnalyse(d) \/ MarquageSansReponse(d)
      <3>1. catalogue'[d] = LigneMarquee(catalogue[d], "en_analyse")
        BY <2>2 DEF MarquerEnAnalyse, MarquageSansReponse
      <3>. QED
        BY <2>2, <3>1, ChampsDesLignes
           DEF MarquerEnAnalyse, MarquageSansReponse, StatutDoc
    <2>3. CASE LireEtAnalyser(d)
      BY <2>3 DEF LireEtAnalyser
    <2>4. CASE EnregistrerEntites(d) \/ EnregistrementSansReponse(d)
      <3>1. catalogue'[d] = LigneAnalysee(catalogue[d], executions[d].lu)
        BY <2>4 DEF EnregistrerEntites, EnregistrementSansReponse
      <3>2. "decouvert" \in StatutDoc
        BY DEF StatutDoc
      <3>. QED
        BY <2>4, <3>1, <3>2, ChampsDesLignes
           DEF EnregistrerEntites, EnregistrementSansReponse
    <2>5. CASE MarquerEchec(d)
      <3>1. catalogue'[d] = LigneMarquee(catalogue[d], "echec")
        BY <2>5 DEF MarquerEchec
      <3>. QED
        BY <2>5, <3>1, ChampsDesLignes DEF MarquerEchec, StatutDoc
    <2>6. CASE AcquitterTache(d) \/ RejeterTache(d)
      BY <2>6 DEF AcquitterTache, RejeterTache
    <2>7. CASE ReveillerTache(d)
      <3>1. executions[d].phase = "aucune"
        BY <2>7 DEF ReveillerTache
      <3>. QED
        BY <2>7, <3>1 DEF ReveillerTache
    <2>8. CASE DebloquerTache(d)
      BY <2>8 DEF DebloquerTache
    <2>9. CASE MarquageEchoue(d) \/ LectureEchoue(d) \/ EnregistrementEchoue(d)
               \/ MarquageEchecEchoue(d)
      BY <2>9 DEF MarquageEchoue, LectureEchoue, EnregistrementEchoue,
                  MarquageEchecEchoue
    <2>. QED
      BY <2>1, <2>2, <2>3, <2>4, <2>5, <2>6, <2>7, <2>8, <2>9
         DEF EtapeAnalyse, PannesAnalyse
  <1>7. ASSUME NEW e \in Documents, e # d
        PROVE  CoherenceDe(e)'
    BY <1>4, <1>7, ParDocument DEF CoherenceDe, SeulementDe
  <1>. QED
    BY <1>6, <1>7, ParDocumentPrime

LEMMA IInvInductif == IInv /\ [Next]_vars => IInv'
  <1>. SUFFICES ASSUME IInv, [Next]_vars
                PROVE  IInv'
    OBVIOUS
  <1>1. TypeOK /\ Coherence
    BY DEF IInv, Coherence
  <1>2. TypeOK'
    BY <1>1, TypeEtape
  <1>3. Coherence'
    <2>1. CASE UNCHANGED vars
      BY <1>1, <2>1 DEF vars, Coherence, HandlerActif, TacheCataloguee,
         StatutDuTravail, VersionsOrdonnees, ClasseEntier
    <2>. QED
      BY <1>1, <2>1, CoherenceDuScan, CoherenceDeLAnalyse DEF Next
  <1>. QED
    BY <1>2, <1>3 DEF IInv, Coherence

THEOREM InvariantInductif == Spec => []IInv
  <1>1. Init => IInv
    BY InitTypee, InitCoherente DEF IInv, Coherence
  <1>. QED
    BY <1>1, IInvInductif, PTL DEF Spec

(* Whatever is queued or being analysed is in the catalogue: the early     *)
(* return of traiterAnalyse on an absent document never runs.              *)
THEOREM TacheToujoursCataloguee == Spec => []TacheCataloguee
  <1>1. IInv => TacheCataloguee
    BY DEF IInv
  <1>. QED
    BY <1>1, InvariantInductif, PTL

(* A document offered to restitution has its level and its entities from   *)
(* one analysis of one content, and no other analysis is reading it or     *)
(* about to store a result (scan.processor.ts; catalog.service.ts,         *)
(* enregistrerEntites), even when a COMMIT took effect without an answer.  *)
THEOREM ServiToujoursClasse == Spec => []ServiEstClasse
  <1>1. IInv => ServiEstClasse
    BY DEF IInv, ClasseEntier, StatutDuTravail, ServiEstClasse
  <1>. QED
    BY <1>1, InvariantInductif, PTL

-------------------------------------------------------------------------------
(* Abandoned documents.                                                    *)

LEMMA AbandonParLeScan ==
  ASSUME IInv, NEW d \in Documents, Abandonne(d),
         \/ PlanifierScan \/ EtapeScan \/ PannesScan \/ ArretBrutal
         \/ \E e \in Documents : ModifierFichier(e)
  PROVE  Abandonne(d)' \/ catalogue'[d].empreinte # catalogue[d].empreinte
  <1>0. TypeOK /\ scan \in Scan
    BY DEF IInv, TypeOK
  <1>. USE DEF Abandonne
  <1>1. ASSUME NEW ids, PlanifierAnalyses(ids), d \notin ids
        PROVE  taches'[d] = taches[d]
    BY <1>1 DEF PlanifierAnalyses
  <1>2. CASE PlanifierScan \/ DebloquerScan \/ \E e \in Documents : ModifierFichier(e)
    BY <1>2 DEF PlanifierScan, DebloquerScan, ModifierFichier
  <1>3. CASE PrendreScan
    <2>1. d \notin DocumentsARelancer
      <3>1. catalogue[d] \in LigneDocument
        BY <1>0 DEF TypeOK
      <3>. QED
        BY <3>1, ConstantesOrchestration
           DEF DocumentsARelancer, EnAttente, LigneDocument
    <2>. QED
      BY <1>3, <2>1 DEF PrendreScan, AucunScan
  <1>4. CASE Relancer \/ MettreEnFileReste
    <2>1. taches'[d] = taches[d] /\ catalogue' = catalogue
      BY <1>1, <1>4 DEF Relancer, MettreEnFileReste
    <2>2. scan'.selection = {} /\ scan'.lot = {}
      BY <1>4 DEF Relancer, MettreEnFileReste, AucunScan
    <2>. QED
      BY <2>1, <2>2
  <1>5. CASE MettreEnFileLot \/ MettreEnFileLotSansReponse
    <2>1. taches'[d] = taches[d] /\ catalogue' = catalogue
      BY <1>1, <1>5 DEF MettreEnFileLot, MettreEnFileLotSansReponse
    <2>2. scan'.selection = scan.selection /\ scan'.lot \in {{}, scan.lot}
      BY <1>0, <1>5 DEF MettreEnFileLot, MettreEnFileLotSansReponse, Scan
    <2>. QED
      BY <2>1, <2>2
  <1>6. CASE \E e \in Documents : LireRessource(e) \/ IgnorerRessource(e)
    BY <1>0, <1>6 DEF LireRessource, IgnorerRessource, Scan
  <1>7. CASE InscriptionEchoue \/ MettreEnFileLotEchoue \/ FinParcours
    BY <1>0, <1>7 DEF InscriptionEchoue, MettreEnFileLotEchoue, FinParcours, Scan
  <1>8. CASE CloreScan \/ ScanEchoue \/ ArretBrutal
    BY <1>8 DEF CloreScan, ScanEchoue, ArretBrutal, AucunScan
  <1>9. ASSUME NEW e \in Documents, UpsertDocument(e), taches' = taches,
               scan'.selection = scan.selection,
               scan'.lot \in {scan.lot, scan.lot \cup {e}}
        PROVE  Abandonne(d)' \/ catalogue'[d].empreinte # catalogue[d].empreinte
    <2>1. CASE e = d
      <3>1. catalogue'[d] = LigneInscrite(catalogue[d], scan.lu)
        BY <1>0, <1>9, <2>1 DEF UpsertDocument, TypeOK
      <3>2. catalogue[d] \in LigneDocument
        BY <1>0 DEF TypeOK
      <3>3. catalogue'[d].empreinte = scan.lu
        BY <3>1, <3>2 DEF LigneInscrite, LigneDocument
      <3>. QED
        BY <1>9, <2>1, <3>3 DEF UpsertDocument, MemeEmpreinte
    <2>2. CASE e # d
      <3>1. catalogue'[d] = catalogue[d]
        BY <1>0, <1>9, <2>2 DEF UpsertDocument, TypeOK
      <3>. QED
        BY <1>9, <2>2, <3>1
    <2>. QED  BY <2>1, <2>2
  <1>10. ASSUME NEW e \in Documents, InscrireRessource(e)
         PROVE  Abandonne(d)' \/ catalogue'[d].empreinte # catalogue[d].empreinte
    <2>1. CASE UpsertDocument(e)
      <3>1. /\ taches' = taches
            /\ scan'.selection = scan.selection
            /\ scan'.lot = scan.lot \cup {e}
        BY <1>0, <1>10, <2>1 DEF InscrireRessource, UpsertDocument, Scan
      <3>. QED
        BY <1>9, <2>1, <3>1
    <2>2. CASE MemeEmpreinte(catalogue[e], scan.lu)
      <3>1. scan'.selection = scan.selection /\ scan'.lot = scan.lot
        BY <1>0, <1>10, <2>2 DEF InscrireRessource, UpsertDocument, Scan
      <3>. QED
        BY <1>10, <2>2, <3>1 DEF InscrireRessource, UpsertDocument
    <2>. QED  BY <1>10, <2>1, <2>2 DEF InscrireRessource
  <1>11. ASSUME NEW e \in Documents, InscriptionSansReponse(e)
         PROVE  Abandonne(d)' \/ catalogue'[d].empreinte # catalogue[d].empreinte
    <2>1. scan'.selection = scan.selection /\ scan'.lot = scan.lot
      BY <1>0, <1>11 DEF InscriptionSansReponse, Scan
    <2>. QED
      BY <1>9, <1>11, <2>1 DEF InscriptionSansReponse
  <1>. QED
    BY <1>2, <1>3, <1>4, <1>5, <1>6, <1>7, <1>8, <1>10, <1>11
       DEF EtapeScan, PannesScan

LEMMA AbandonParLAnalyse ==
  ASSUME IInv, NEW d \in Documents, Abandonne(d), NEW e \in Documents,
         EtapeAnalyse(e) \/ PannesAnalyse(e)
  PROVE  Abandonne(d)'
  <1>1. executions[d].phase = "aucune"
    BY DEF IInv, HandlerActif, Abandonne
  <1>2. e # d
    BY <1>1 DEF Abandonne, EtapeAnalyse, PrendreAnalyse, MarquerEnAnalyse,
       LireEtAnalyser, EnregistrerEntites, MarquerEchec, AcquitterTache,
       RejeterTache, ReveillerTache, DebloquerTache, PannesAnalyse,
       MarquageEchoue, MarquageSansReponse, LectureEchoue,
       EnregistrementEchoue, EnregistrementSansReponse, MarquageEchecEchoue
  <1>3. SeulementDe(e)
    BY EtapeLocale DEF IInv
  <1>. QED
    BY <1>2, <1>3 DEF SeulementDe, Abandonne

(* A document whose attempts are spent is left alone until its content     *)
(* changes (replanifierEnAttente, "tentatives < 3").                       *)
THEOREM AbandonToujoursDefinitif == Spec => AbandonDefinitif
  <1>. DEFINE Pas == \A d \in Documents :
                Abandonne(d) => \/ Abandonne(d)'
                                \/ catalogue'[d].empreinte # catalogue[d].empreinte
  <1>1. IInv /\ [Next]_vars => [Pas]_vars
    <2>. SUFFICES ASSUME IInv, Next, NEW d \in Documents, Abandonne(d)
                  PROVE  \/ Abandonne(d)'
                         \/ catalogue'[d].empreinte # catalogue[d].empreinte
      OBVIOUS
    <2>. QED
      BY AbandonParLeScan, AbandonParLAnalyse DEF Next
  <1>. QED
    BY <1>1, InvariantInductif, PTL DEF Spec, AbandonDefinitif

-------------------------------------------------------------------------------
(* Refinement of CycleDeVie.                                               *)

LEMMA CycleInit == Init => Cycle!Init
  BY DEF Init, Cycle!Init, LigneAbsente, Nul

LEMMA CycleStutter ==
  ASSUME UNCHANGED catalogue
  PROVE  UNCHANGED Cycle!cvars
  BY DEF Cycle!cvars

LEMMA CycleScan ==
  ASSUME IInv,
         \/ PlanifierScan \/ EtapeScan \/ PannesScan \/ ArretBrutal
         \/ \E d \in Documents : ModifierFichier(d)
  PROVE  [Cycle!Next]_(Cycle!cvars)
  <1>1. ASSUME NEW d \in Documents, UpsertDocument(d)
        PROVE  Cycle!Next
    <2>1. /\ catalogue \in [Documents -> LigneDocument]
          /\ catalogue' = [catalogue EXCEPT ![d] = LigneInscrite(catalogue[d], scan.lu)]
      BY <1>1 DEF IInv, TypeOK, UpsertDocument
    <2>2. \A l \in LigneDocument :
            /\ LigneInscrite(l, scan.lu).statut = "decouvert"
            /\ LigneInscrite(l, scan.lu).entites = l.entites
      BY DEF LigneInscrite, LigneDocument
    <2>3. Cycle!Decouvrir(d)
      BY <2>1, <2>2 DEF Cycle!Decouvrir
    <2>. QED
      BY <2>3 DEF Cycle!Next
  <1>2. ASSUME ~ \E d \in Documents : UpsertDocument(d)
        PROVE  UNCHANGED catalogue
    BY <1>2 DEF EtapeScan, PannesScan, PlanifierScan, ArretBrutal,
       ModifierFichier, PrendreScan, Relancer, LireRessource, IgnorerRessource,
       InscrireRessource, InscriptionEchoue, InscriptionSansReponse,
       MettreEnFileLot, MettreEnFileLotEchoue, MettreEnFileLotSansReponse,
       FinParcours, MettreEnFileReste, CloreScan, ScanEchoue, DebloquerScan
  <1>. QED
    BY <1>1, <1>2, CycleStutter

LEMMA CycleAnalyse ==
  ASSUME IInv, NEW d \in Documents, EtapeAnalyse(d) \/ PannesAnalyse(d)
  PROVE  [Cycle!Next]_(Cycle!cvars)
  <1>0. /\ TypeOK /\ Coherence
        /\ catalogue \in [Documents -> LigneDocument]
        /\ catalogue[d] \in LigneDocument
        /\ executions[d].lu \in Nat
        /\ fichiers[d] \in Nat
    BY DEF IInv, Coherence, TypeOK, Execution
  <1>00. CoherenceDe(d)
    BY <1>0, ParDocument
  <1>1. CASE MarquerEnAnalyse(d) \/ MarquageSansReponse(d)
    <2>1. catalogue' = [catalogue EXCEPT ![d] = LigneMarquee(catalogue[d], "en_analyse")]
      BY <1>1 DEF MarquerEnAnalyse, MarquageSansReponse
    <2>2. catalogue[d].statut # "absent"
      BY <1>00, <1>1 DEF CoherenceDe, MarquerEnAnalyse, MarquageSansReponse
    <2>3. /\ LigneMarquee(catalogue[d], "en_analyse").statut = "en_analyse"
          /\ LigneMarquee(catalogue[d], "en_analyse").entites = catalogue[d].entites
      BY <1>0 DEF LigneMarquee, LigneDocument
    <2>4. Cycle!Entamer(d)
      BY <1>0, <2>1, <2>2, <2>3 DEF Cycle!Entamer
    <2>. QED
      BY <2>4 DEF Cycle!Next
  <1>2. CASE EnregistrerEntites(d) \/ EnregistrementSansReponse(d)
    <2>1. catalogue' = [catalogue EXCEPT
                          ![d] = LigneAnalysee(catalogue[d], executions[d].lu)]
      BY <1>2 DEF EnregistrerEntites, EnregistrementSansReponse
    <2>2. /\ executions[d].lu \in 0..MaxVersions
          /\ executions[d].lu >= catalogue[d].entites
          /\ catalogue[d].statut \in {"decouvert", "en_analyse"}
      BY <1>0, <1>00, <1>2, ConstantesOrchestration
         DEF CoherenceDe, EnregistrerEntites, EnregistrementSansReponse,
             LigneDocument
    <2>3. /\ LigneAnalysee(catalogue[d], executions[d].lu).statut = "analyse"
          /\ LigneAnalysee(catalogue[d], executions[d].lu).entites = executions[d].lu
      BY <1>0 DEF LigneAnalysee, LigneDocument
    <2>4. Cycle!Classer(d)
      BY <1>0, <2>1, <2>2, <2>3 DEF Cycle!Classer, Cycle!EnCours
    <2>. QED
      BY <2>4 DEF Cycle!Next
  <1>3. CASE MarquerEchec(d)
    <2>1. catalogue' = [catalogue EXCEPT ![d] = LigneMarquee(catalogue[d], "echec")]
      BY <1>3 DEF MarquerEchec
    <2>2. catalogue[d].statut # "absent"
      BY <1>00, <1>3 DEF CoherenceDe, MarquerEchec
    <2>3. /\ LigneMarquee(catalogue[d], "echec").statut = "echec"
          /\ LigneMarquee(catalogue[d], "echec").entites = catalogue[d].entites
      BY <1>0 DEF LigneMarquee, LigneDocument
    <2>4. Cycle!Renoncer(d)
      BY <1>0, <2>1, <2>2, <2>3 DEF Cycle!Renoncer
    <2>. QED
      BY <2>4 DEF Cycle!Next
  <1>4. CASE \/ PrendreAnalyse(d) \/ LireEtAnalyser(d) \/ AcquitterTache(d)
             \/ RejeterTache(d) \/ ReveillerTache(d) \/ DebloquerTache(d)
             \/ MarquageEchoue(d) \/ LectureEchoue(d) \/ EnregistrementEchoue(d)
             \/ MarquageEchecEchoue(d)
    <2>1. UNCHANGED catalogue
      BY <1>4 DEF PrendreAnalyse, LireEtAnalyser, AcquitterTache, RejeterTache,
         ReveillerTache, DebloquerTache, MarquageEchoue, LectureEchoue,
         EnregistrementEchoue, MarquageEchecEchoue
    <2>. QED
      BY <2>1, CycleStutter
  <1>. QED
    BY <1>1, <1>2, <1>3, <1>4 DEF EtapeAnalyse, PannesAnalyse

(* The orchestrator implements the life cycle the restitution point relies *)
(* on, whatever scans, retries and crashes interleave.                     *)
THEOREM Raffinement == Spec => RespecteCycle
  <1>1. IInv /\ [Next]_vars => [Cycle!Next]_(Cycle!cvars)
    <2>1. CASE UNCHANGED vars
      BY <2>1, CycleStutter DEF vars
    <2>. QED
      BY <2>1, CycleScan, CycleAnalyse DEF Next
  <1>. QED
    BY <1>1, CycleInit, InvariantInductif, PTL DEF Spec, RespecteCycle, Cycle!Spec

================================================================================
