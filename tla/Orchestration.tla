----------------------------- MODULE Orchestration -----------------------------
(***************************************************************************)
(* The orchestrator container: incremental scans of one source and the     *)
(* analyses they schedule (gateway/src/scheduler/scan.service.ts,          *)
(* scan.processor.ts, queue.ts), over the catalogue of PostgreSQL and the  *)
(* BullMQ queue of Redis.                                                  *)
(*                                                                         *)
(* Every access to the file store, the database or the queue is an await,  *)
(* so each is a step of its own and the scan, the analyses and the users   *)
(* who rewrite files interleave between them.  The process may die between *)
(* two steps: its local variables are lost, the catalogue and the queue    *)
(* are not.                                                                *)
(*                                                                         *)
(* A call that throws may have had no effect, or all of its effect with    *)
(* only the answer lost; each is an outcome of its own (...Echoue,         *)
(* ...SansReponse).  Where the handler goes on the same way in both, the   *)
(* second outcome is the successful step followed by the next failure: the *)
(* addBulk of Relancer and MettreEnFileReste before ScanEchoue, the        *)
(* marquerStatut of MarquerEchec, which throws again in any case.          *)
(*                                                                         *)
(* Branches of the code with no action here: traiterAnalyse returning on   *)
(* an absent document or source and traiterScan on an absent source.       *)
(* Nothing in the code deletes a row of "document" or "source";            *)
(* TacheCataloguee is the invariant that makes the first branch dead.      *)
(***************************************************************************)
EXTENDS Catalogue, FileTaches, FiniteSets

CONSTANTS
  Documents,      (* the paths of the source                               *)
  MaxTentatives,  (* maxTentatives of replanifierEnAttente: 3              *)
  EssaisTache,    (* attempts of an analysis job: 3                        *)
  TailleLot,      (* TAILLE_LOT: 200                                       *)
  Concurrence,    (* WORKER_CONCURRENCE: 4                                 *)
  MaxVersions,    (* bound: contents a file goes through                   *)
  MaxIncidents    (* bound: crashes and failed database or queue calls     *)

ASSUME ConstantesOrchestration ==
  /\ IsFiniteSet(Documents)
  /\ MaxTentatives \in Nat \ {0}
  /\ EssaisTache \in Nat \ {0}
  /\ TailleLot \in Nat \ {0}
  /\ Concurrence \in Nat \ {0}
  /\ MaxVersions \in Nat
  /\ MaxIncidents \in Nat

VARIABLES
  fichiers,    (* the version of each file, Nul before it exists           *)
  catalogue,   (* the table "document"                                     *)
  decouverte,  (* date_decouverte, as the rank of the insertion            *)
  taches,      (* the job analyse-<document> of each document              *)
  executions,  (* the run of traiterAnalyse for that job, in the worker    *)
  tacheScan,   (* the job scan-<source>                                    *)
  scan,        (* the run of traiterScan, in the worker                    *)
  incidents    (* how many incidents have happened (bounded)               *)

vars == <<fichiers, catalogue, decouverte, taches, executions, tacheScan,
          scan, incidents>>

-------------------------------------------------------------------------------
(* The local state of the two handlers.                                    *)

(* phase: the await traiterAnalyse is about to run; lu: the version of     *)
(* "contenu" and of the engine's answer.                                   *)
Phases == {"aucune", "prise", "lecture", "ecriture", "echec", "acquit", "rejet"}
Execution == [phase : Phases, lu : Nat]
AucuneExecution == [phase |-> "aucune", lu |-> Nul]

(* selection: the ids replanifierEnAttente read; aVoir: what the connector *)
(* has not listed yet; courant, lu: the resource in hand; lot: the ids     *)
(* waiting for the next planifierAnalyses.                                 *)
Etapes == {"repos", "reprise", "parcours", "inscription", "lot", "dernier_lot",
           "cloture"}
Scan == [etape     : Etapes,
         selection : SUBSET Documents,
         aVoir     : SUBSET Documents,
         courant   : SUBSET Documents,
         lu        : Nat,
         lot       : SUBSET Documents]
AucunScan == [etape |-> "repos", selection |-> {}, aVoir |-> {},
              courant |-> {}, lu |-> Nul, lot |-> {}]

Init ==
  /\ fichiers = [d \in Documents |-> Nul]
  /\ catalogue = [d \in Documents |-> LigneAbsente]
  /\ decouverte = [d \in Documents |-> 0]
  /\ taches = [d \in Documents |-> TacheAbsente]
  /\ executions = [d \in Documents |-> AucuneExecution]
  /\ tacheScan = TacheAbsente
  /\ scan = AucunScan
  /\ incidents = 0

(* One of the worker's slots is free.                                      *)
PlaceLibre ==
  Cardinality({d \in Documents : executions[d].phase # "aucune"})
    + (IF scan.etape = "repos" THEN 0 ELSE 1) < Concurrence

(* A call to PostgreSQL or Redis fails, or the process dies.               *)
Incident ==
  /\ incidents < MaxIncidents
  /\ incidents' = incidents + 1

-------------------------------------------------------------------------------
(* The users of the file store and the triggers of a scan.                 *)

(* A file appears or is overwritten.                                       *)
ModifierFichier(d) ==
  /\ fichiers[d] < MaxVersions
  /\ fichiers' = [fichiers EXCEPT ![d] = @ + 1]
  /\ UNCHANGED <<catalogue, decouverte, taches, executions, tacheScan, scan,
                 incidents>>

(* planifierScan, called by the cron task and by POST /sources/:id/scan.   *)
PlanifierScan ==
  /\ tacheScan' = TacheAjoutee(tacheScan)
  /\ UNCHANGED <<fichiers, catalogue, decouverte, taches, executions, scan,
                 incidents>>

-------------------------------------------------------------------------------
(* traiterScan.                                                            *)

(* planifierAnalyses: one addBulk.                                         *)
PlanifierAnalyses(ids) ==
  taches' = [d \in Documents |->
               IF d \in ids THEN TacheAjoutee(taches[d]) ELSE taches[d]]

(* SELECT ... ORDER BY date_decouverte LIMIT TAILLE_LOT.                   *)
DocumentsARelancer ==
  LET enAttente == {d \in Documents : EnAttente(catalogue[d], MaxTentatives)}
  IN  {d \in enAttente :
         Cardinality({e \in enAttente : decouverte[e] < decouverte[d]}) < TailleLot}

(* The worker takes the scan job and reads what has to be queued again.    *)
PrendreScan ==
  /\ tacheScan.etat = "attente"
  /\ PlaceLibre
  /\ tacheScan' = TachePrise(tacheScan)
  /\ scan' = [AucunScan EXCEPT !.etape = "reprise",
                               !.selection = DocumentsARelancer]
  /\ UNCHANGED <<fichiers, catalogue, decouverte, taches, executions, incidents>>

(* replanifierEnAttente queues them; scanner then opens the walk.          *)
Relancer ==
  /\ scan.etape = "reprise"
  /\ PlanifierAnalyses(scan.selection)
  /\ scan' = [AucunScan EXCEPT !.etape = "parcours", !.aVoir = Documents]
  /\ UNCHANGED <<fichiers, catalogue, decouverte, executions, tacheScan,
                 incidents>>

(* The next resource of the listing, and its bytes.                        *)
LireRessource(d) ==
  /\ scan.etape = "parcours"
  /\ d \in scan.aVoir
  /\ fichiers[d] # Nul
  /\ scan' = [scan EXCEPT !.etape = "inscription", !.aVoir = @ \ {d},
                          !.courant = {d}, !.lu = fichiers[d]]
  /\ UNCHANGED <<fichiers, catalogue, decouverte, taches, executions,
                 tacheScan, incidents>>

(* The resource is not listed, or reading it throws: counted, skipped.     *)
IgnorerRessource(d) ==
  /\ scan.etape = "parcours"
  /\ d \in scan.aVoir
  /\ scan' = [scan EXCEPT !.aVoir = @ \ {d}]
  /\ UNCHANGED <<fichiers, catalogue, decouverte, taches, executions,
                 tacheScan, incidents>>

(* DEFAULT now(): later than every date already in the table.              *)
ProchaineDate ==
  1 + Cardinality({d \in Documents : catalogue[d].statut # "absent"})

(* The effect of upsertDocument on the table.                              *)
UpsertDocument(d) ==
  /\ ~ MemeEmpreinte(catalogue[d], scan.lu)
  /\ catalogue' = [catalogue EXCEPT ![d] = LigneInscrite(@, scan.lu)]
  /\ decouverte' = IF catalogue[d].statut = "absent"
                     THEN [decouverte EXCEPT ![d] = ProchaineDate]
                     ELSE decouverte

(* upsertDocument; a full batch is flushed within the same resource.       *)
InscrireRessource(d) ==
  /\ scan.etape = "inscription"
  /\ scan.courant = {d}
  /\ \/ /\ MemeEmpreinte(catalogue[d], scan.lu)
        /\ scan' = [scan EXCEPT !.etape = "parcours", !.courant = {}, !.lu = Nul]
        /\ UNCHANGED <<catalogue, decouverte>>
     \/ /\ UpsertDocument(d)
        /\ scan' = [scan EXCEPT
                      !.etape = IF Cardinality(scan.lot \cup {d}) >= TailleLot
                                  THEN "lot" ELSE "parcours",
                      !.courant = {}, !.lu = Nul, !.lot = @ \cup {d}]
  /\ UNCHANGED <<fichiers, taches, executions, tacheScan, incidents>>

(* Mutant: the resource joins the batch before its row is written.         *)
InscriptionEchoueGardee ==
  /\ scan.etape = "inscription"
  /\ Incident
  /\ scan' = [scan EXCEPT !.etape = "parcours", !.courant = {}, !.lu = Nul,
                          !.lot = @ \cup scan.courant]
  /\ UNCHANGED <<fichiers, catalogue, decouverte, taches, executions, tacheScan>>

(* upsertDocument throws: the resource is counted as a failure.            *)
InscriptionEchoue ==
  /\ scan.etape = "inscription"
  /\ Incident
  /\ scan' = [scan EXCEPT !.etape = "parcours", !.courant = {}, !.lu = Nul]
  /\ UNCHANGED <<fichiers, catalogue, decouverte, taches, executions, tacheScan>>

(* upsertDocument wrote the row and its answer is lost: the resource is    *)
(* counted as a failure too and joins no batch.                            *)
InscriptionSansReponse(d) ==
  /\ scan.etape = "inscription"
  /\ scan.courant = {d}
  /\ Incident
  /\ UpsertDocument(d)
  /\ scan' = [scan EXCEPT !.etape = "parcours", !.courant = {}, !.lu = Nul]
  /\ UNCHANGED <<fichiers, taches, executions, tacheScan>>

(* A full batch is queued, the next one starts empty.                      *)
MettreEnFileLot ==
  /\ scan.etape = "lot"
  /\ PlanifierAnalyses(scan.lot)
  /\ scan' = [scan EXCEPT !.etape = "parcours", !.lot = {}]
  /\ UNCHANGED <<fichiers, catalogue, decouverte, executions, tacheScan,
                 incidents>>

(* The catch of the resource swallows the error: the batch is kept.        *)
MettreEnFileLotEchoue ==
  /\ scan.etape = "lot"
  /\ Incident
  /\ scan' = [scan EXCEPT !.etape = "parcours"]
  /\ UNCHANGED <<fichiers, catalogue, decouverte, taches, executions, tacheScan>>

(* The batch is queued but the answer is lost: it is kept all the same,    *)
(* and queued again with the next one.                                     *)
MettreEnFileLotSansReponse ==
  /\ scan.etape = "lot"
  /\ Incident
  /\ PlanifierAnalyses(scan.lot)
  /\ scan' = [scan EXCEPT !.etape = "parcours"]
  /\ UNCHANGED <<fichiers, catalogue, decouverte, executions, tacheScan>>

(* The listing is exhausted.                                               *)
FinParcours ==
  /\ scan.etape = "parcours"
  /\ scan.aVoir = {}
  /\ scan' = [scan EXCEPT !.etape = "dernier_lot"]
  /\ UNCHANGED <<fichiers, catalogue, decouverte, taches, executions,
                 tacheScan, incidents>>

(* What is left is queued.                                                 *)
MettreEnFileReste ==
  /\ scan.etape = "dernier_lot"
  /\ PlanifierAnalyses(scan.lot)
  /\ scan' = [AucunScan EXCEPT !.etape = "cloture"]
  /\ UNCHANGED <<fichiers, catalogue, decouverte, executions, tacheScan,
                 incidents>>

(* marquerScan, fermerExecution, the SCAN entry; the job is removed.       *)
CloreScan ==
  /\ scan.etape = "cloture"
  /\ tacheScan' = TacheAbsente
  /\ scan' = AucunScan
  /\ UNCHANGED <<fichiers, catalogue, decouverte, taches, executions, incidents>>

(* The queue, the database or the listing throws outside the catch of a    *)
(* resource: traiterScan throws, a scan job has one attempt.               *)
ScanEchoue ==
  /\ scan.etape \in {"reprise", "parcours", "dernier_lot", "cloture"}
  /\ Incident
  /\ tacheScan' = TacheRejetee(tacheScan, 1)
  /\ scan' = AucunScan
  /\ UNCHANGED <<fichiers, catalogue, decouverte, taches, executions>>

-------------------------------------------------------------------------------
(* traiterAnalyse.                                                         *)

Passer(d, phase, lu) ==
  executions' = [executions EXCEPT ![d] = [phase |-> phase, lu |-> lu]]

(* The worker takes the job; document() and source() find their rows.      *)
PrendreAnalyse(d) ==
  /\ taches[d].etat = "attente"
  /\ PlaceLibre
  /\ taches' = [taches EXCEPT ![d] = TachePrise(@)]
  /\ Passer(d, "prise", Nul)
  /\ UNCHANGED <<fichiers, catalogue, decouverte, tacheScan, scan, incidents>>

(* Mutant: a document already analysed is not withdrawn first.             *)
MarquerEnAnalyseSansRetrait(d) ==
  /\ executions[d].phase = "prise"
  /\ catalogue' = IF catalogue[d].statut = "analyse" THEN catalogue
                  ELSE [catalogue EXCEPT ![d] = LigneMarquee(@, "en_analyse")]
  /\ Passer(d, "lecture", Nul)
  /\ UNCHANGED <<fichiers, decouverte, taches, tacheScan, scan, incidents>>

(* marquerStatut('en_analyse').                                            *)
MarquerEnAnalyse(d) ==
  /\ executions[d].phase = "prise"
  /\ catalogue' = [catalogue EXCEPT ![d] = LigneMarquee(@, "en_analyse")]
  /\ Passer(d, "lecture", Nul)
  /\ UNCHANGED <<fichiers, decouverte, taches, tacheScan, scan, incidents>>

(* One of the calls before the try throws: no failure is recorded.         *)
MarquageEchoue(d) ==
  /\ executions[d].phase = "prise"
  /\ Incident
  /\ Passer(d, "rejet", Nul)
  /\ UNCHANGED <<fichiers, catalogue, decouverte, taches, tacheScan, scan>>

(* marquerStatut('en_analyse') took effect, its answer is lost.            *)
MarquageSansReponse(d) ==
  /\ executions[d].phase = "prise"
  /\ Incident
  /\ catalogue' = [catalogue EXCEPT ![d] = LigneMarquee(@, "en_analyse")]
  /\ Passer(d, "rejet", Nul)
  /\ UNCHANGED <<fichiers, decouverte, taches, tacheScan, scan>>

(* Mutant: the bytes may come from a cache of older contents.              *)
LireEtAnalyserEnCache(d) ==
  /\ executions[d].phase = "lecture"
  /\ \E v \in 1..fichiers[d] : Passer(d, "ecriture", v)
  /\ UNCHANGED <<fichiers, catalogue, decouverte, taches, tacheScan, scan,
                 incidents>>

(* lire, then ia.analyser: the result is that of the bytes read now.       *)
LireEtAnalyser(d) ==
  /\ executions[d].phase = "lecture"
  /\ fichiers[d] # Nul
  /\ Passer(d, "ecriture", fichiers[d])
  /\ UNCHANGED <<fichiers, catalogue, decouverte, taches, tacheScan, scan,
                 incidents>>

(* The file cannot be read, the engine refuses it or does not answer.      *)
LectureEchoue(d) ==
  /\ executions[d].phase = "lecture"
  /\ Passer(d, "echec", Nul)
  /\ UNCHANGED <<fichiers, catalogue, decouverte, taches, tacheScan, scan,
                 incidents>>

(* enregistrerEntites commits.                                             *)
EnregistrerEntites(d) ==
  /\ executions[d].phase = "ecriture"
  /\ catalogue' = [catalogue EXCEPT ![d] = LigneAnalysee(@, executions[d].lu)]
  /\ Passer(d, "acquit", Nul)
  /\ UNCHANGED <<fichiers, decouverte, taches, tacheScan, scan, incidents>>

(* enregistrerEntites rolls back.                                          *)
EnregistrementEchoue(d) ==
  /\ executions[d].phase = "ecriture"
  /\ Incident
  /\ Passer(d, "echec", Nul)
  /\ UNCHANGED <<fichiers, catalogue, decouverte, taches, tacheScan, scan>>

(* enregistrerEntites: the COMMIT took effect and its answer is lost.  The *)
(* handler goes to its catch with the row already 'analyse'.               *)
EnregistrementSansReponse(d) ==
  /\ executions[d].phase = "ecriture"
  /\ Incident
  /\ catalogue' = [catalogue EXCEPT ![d] = LigneAnalysee(@, executions[d].lu)]
  /\ Passer(d, "echec", Nul)
  /\ UNCHANGED <<fichiers, decouverte, taches, tacheScan, scan>>

(* The catch: marquerStatut('echec'), whatever the row has become, then    *)
(* the error is thrown again.                                              *)
MarquerEchec(d) ==
  /\ executions[d].phase = "echec"
  /\ catalogue' = [catalogue EXCEPT ![d] = LigneMarquee(@, "echec")]
  /\ Passer(d, "rejet", Nul)
  /\ UNCHANGED <<fichiers, decouverte, taches, tacheScan, scan, incidents>>

(* marquerStatut throws inside the catch: the failure is not recorded.     *)
MarquageEchecEchoue(d) ==
  /\ executions[d].phase = "echec"
  /\ Incident
  /\ Passer(d, "rejet", Nul)
  /\ UNCHANGED <<fichiers, catalogue, decouverte, taches, tacheScan, scan>>

(* The handler returned: BullMQ completes and removes the job.             *)
AcquitterTache(d) ==
  /\ executions[d].phase = "acquit"
  /\ taches' = [taches EXCEPT ![d] = TacheAbsente]
  /\ Passer(d, "aucune", Nul)
  /\ UNCHANGED <<fichiers, catalogue, decouverte, tacheScan, scan, incidents>>

(* The handler threw: BullMQ delays the job or removes it.                 *)
RejeterTache(d) ==
  /\ executions[d].phase = "rejet"
  /\ taches' = [taches EXCEPT ![d] = TacheRejetee(@, EssaisTache)]
  /\ Passer(d, "aucune", Nul)
  /\ UNCHANGED <<fichiers, catalogue, decouverte, tacheScan, scan, incidents>>

ReveillerTache(d) ==
  /\ taches[d].etat = "differee"
  /\ taches' = [taches EXCEPT ![d] = TacheReveillee(@)]
  /\ UNCHANGED <<fichiers, catalogue, decouverte, executions, tacheScan, scan,
                 incidents>>

-------------------------------------------------------------------------------
(* The death of the orchestrator and what follows its restart.             *)

ArretBrutal ==
  /\ scan.etape # "repos" \/ \E d \in Documents : executions[d].phase # "aucune"
  /\ Incident
  /\ executions' = [d \in Documents |-> AucuneExecution]
  /\ scan' = AucunScan
  /\ UNCHANGED <<fichiers, catalogue, decouverte, taches, tacheScan>>

DebloquerTache(d) ==
  /\ taches[d].etat = "active"
  /\ executions[d].phase = "aucune"
  /\ taches' = [taches EXCEPT ![d] = TacheDebloquee(@)]
  /\ UNCHANGED <<fichiers, catalogue, decouverte, executions, tacheScan, scan,
                 incidents>>

DebloquerScan ==
  /\ tacheScan.etat = "active"
  /\ scan.etape = "repos"
  /\ tacheScan' = TacheDebloquee(tacheScan)
  /\ UNCHANGED <<fichiers, catalogue, decouverte, taches, executions, scan,
                 incidents>>

-------------------------------------------------------------------------------

EtapeScan ==
  \/ PrendreScan \/ Relancer \/ FinParcours \/ MettreEnFileLot
  \/ MettreEnFileReste \/ CloreScan \/ DebloquerScan
  \/ \E d \in Documents : LireRessource(d) \/ InscrireRessource(d)

PannesScan ==
  \/ InscriptionEchoue \/ MettreEnFileLotEchoue \/ MettreEnFileLotSansReponse
  \/ ScanEchoue
  \/ \E d \in Documents : IgnorerRessource(d) \/ InscriptionSansReponse(d)

EtapeAnalyse(d) ==
  \/ PrendreAnalyse(d) \/ MarquerEnAnalyse(d) \/ LireEtAnalyser(d)
  \/ EnregistrerEntites(d) \/ MarquerEchec(d) \/ AcquitterTache(d)
  \/ RejeterTache(d) \/ ReveillerTache(d) \/ DebloquerTache(d)

PannesAnalyse(d) ==
  \/ MarquageEchoue(d) \/ MarquageSansReponse(d) \/ LectureEchoue(d)
  \/ EnregistrementEchoue(d) \/ EnregistrementSansReponse(d)
  \/ MarquageEchecEchoue(d)

Next ==
  \/ PlanifierScan \/ EtapeScan \/ PannesScan \/ ArretBrutal
  \/ \E d \in Documents :
       ModifierFichier(d) \/ EtapeAnalyse(d) \/ PannesAnalyse(d)

Spec == Init /\ [][Next]_vars

(* The cron task fires again and again and Node's event loop runs every    *)
(* continuation; a waiting job reaches the head of BullMQ's FIFO list,     *)
(* hence strong fairness where the job competes for a slot.  Nothing says  *)
(* that a read or an analysis succeeds, nor that a file is ever modified.  *)
Equite ==
  /\ WF_vars(PlanifierScan)
  /\ SF_vars(PrendreScan)
  /\ WF_vars(EtapeScan \/ \E d \in Documents : IgnorerRessource(d))
  /\ \A d \in Documents :
       /\ WF_vars(EtapeAnalyse(d) \/ LectureEchoue(d))
       /\ SF_vars(PrendreAnalyse(d))

SpecEquitable == Spec /\ Equite

-------------------------------------------------------------------------------
(* Properties.                                                             *)

(* Types: every column, job and handler stays within its range.            *)
TypeOK ==
  /\ fichiers \in [Documents -> Nat]
  /\ catalogue \in [Documents -> LigneDocument]
  /\ decouverte \in [Documents -> Nat]
  /\ taches \in [Documents -> Tache]
  /\ executions \in [Documents -> Execution]
  /\ tacheScan \in Tache
  /\ scan \in Scan
  /\ incidents \in Nat

(* Whatever is queued, about to be queued or being analysed has a row in   *)
(* the catalogue: traiterAnalyse never meets an absent document.           *)
TacheCataloguee ==
  \A d \in Documents :
    \/ taches[d].etat # "absente"
    \/ executions[d].phase # "aucune"
    \/ d \in scan.selection \cup scan.lot
    => catalogue[d].statut # "absent"

(* The restitution point serves a document whose statut is 'analyse' at    *)
(* its niveau_max.  That level (NULL when nothing was detected) and the    *)
(* stored entities are the results of one analysis of one content, and no  *)
(* other analysis is reading or about to store its result: a new one first *)
(* takes the document out of restitution.  A handler may be in its catch:  *)
(* its COMMIT took effect without an answer, the level and the entities    *)
(* are complete, and the document is about to be withdrawn as a failure.   *)
ServiEstClasse ==
  \A d \in Documents :
    catalogue[d].statut = "analyse" =>
      /\ catalogue[d].niveau # Nul
      /\ catalogue[d].niveau = catalogue[d].entites
      /\ executions[d].phase \notin {"lecture", "ecriture"}

(* A document abandoned after its attempts, with no job left and none      *)
(* about to be queued, is touched again only when its content changes: a   *)
(* document nothing can read does not come back at every scan.             *)
Abandonne(d) ==
  /\ catalogue[d].statut = "echec"
  /\ catalogue[d].tentatives >= MaxTentatives
  /\ taches[d].etat = "absente"
  /\ d \notin scan.selection \cup scan.lot

AbandonDefinitif ==
  [][\A d \in Documents :
       Abandonne(d) => \/ Abandonne(d)'
                       \/ catalogue'[d].empreinte # catalogue[d].empreinte]_vars

(* Every catalogued document is in the end analysed, or in failure with    *)
(* its attempts spent (scan.service.ts, replanifierEnAttente: "tout        *)
(* document finit analyse, ou marque en echec"), whatever crashes, lost    *)
(* batches and failed analyses happen on the way.                          *)
Regle(d) ==
  \/ catalogue[d].statut = "analyse"
  \/ catalogue[d].statut = "echec" /\ catalogue[d].tentatives >= MaxTentatives

Convergence ==
  \A d \in Documents : catalogue[d].statut # "absent" ~> Regle(d)

(* queue.ts says why a finished job must leave no trace: kept, it would    *)
(* prevent any new analysis of a modified file, which "resterait fige sur  *)
(* son ancienne classification".  So no document is left 'analyse' on an   *)
(* older content than the one its fingerprint names when the file has that *)
(* fingerprint (later scans skip it) and nothing is queued or about to be. *)
Fige(d) ==
  /\ catalogue[d].statut = "analyse"
  /\ catalogue[d].niveau # catalogue[d].empreinte
  /\ catalogue[d].empreinte = fichiers[d]
  /\ taches[d].etat = "absente"
  /\ d \notin scan.selection \cup scan.lot

AucuneClassificationFigee == \A d \in Documents : ~ Fige(d)

(* The contract of the catalogue, step by step.                            *)
Cycle == INSTANCE CycleDeVie WITH
           Versions <- 0..MaxVersions,
           statut   <- [d \in Documents |-> catalogue[d].statut],
           resultat <- [d \in Documents |-> catalogue[d].entites]

(* The orchestrator keeps the contract of CycleDeVie: no interleaving of   *)
(* scans, analyses, retries and crashes takes a document from one status   *)
(* to another in a way the contract does not list.                         *)
RespecteCycle == Cycle!Spec

================================================================================
