------------------------------ MODULE Restitution ------------------------------
(***************************************************************************)
(* The policy enforcement point (gateway/src/documents): concurrent        *)
(* GET /documents/:id/contenu and GET /documents/:id/metadonnees over one  *)
(* document, while its file is rewritten, the orchestrator analyses it     *)
(* again and the policy matrix is being loaded.                            *)
(*                                                                         *)
(* Every call to the database, the file store, the engine and the journal  *)
(* is an await, so it is a step of its own.  The orchestrator is reduced   *)
(* to what CycleDeVie allows it, AuditService.append to its outcome: an    *)
(* entry, or an error.                                                     *)
(*                                                                         *)
(* Branch of the code with no action here: lireOctets answering 502 on an  *)
(* absent source (document.source_id references it and nothing deletes     *)
(* it).                                                                    *)
(***************************************************************************)
EXTENDS Politique, Catalogue, Sequences

CONSTANTS
  Requetes,     (* requests being served at the same time                    *)
  NiveauxDe,    (* NiveauxDe[v]: the levels of the entities of version v     *)
  Rang          (* ORDRE_NIVEAU                                              *)

MaxVersions == Len(NiveauxDe)   (* bound: contents the file goes through     *)

ASSUME ConstantesRestitution ==
  /\ NiveauxDe \in Seq(SUBSET Niveaux)
  /\ Rang \in [Niveaux -> Nat]
  /\ \A m, n \in Niveaux : Rang[m] = Rang[n] => m = n
  /\ IsFiniteSet(Niveaux)

(* What the one threshold sent to the engine relies on (proteger of        *)
(* documents.service.ts: "tout ce qui atteint ce niveau est protégé, le    *)
(* reste demeure lisible"), and 002_seed_roles.sql satisfies: a role that  *)
(* may read a level in any form reads the levels below in full.            *)
ASSUME UnSeulSeuil ==
  \A c \in DOMAIN Matrice : \A n \in Niveaux :
    Matrice[c] # "refus" /\ Rang[n] < Rang[c[2]] =>
      <<c[1], n>> \in DOMAIN Matrice /\ Matrice[<<c[1], n>>] = "complet"

VARIABLES
  fichier,     (* the version in the file store, Nul before the file exists  *)
  ligne,       (* the row of "document"                                      *)
  requetes,    (* the handler of each request                                *)
  traces       (* history: the entries each request left in the journal      *)

varsPEP == <<fichier, ligne, requetes, traces>>
vars == <<varsPolitique, varsPEP>>

-------------------------------------------------------------------------------

(* niveau_maximum (sensitivity.py); "aucun" stands for None and NULL.      *)
NiveauMax(v) ==
  IF v = Nul \/ NiveauxDe[v] = {} THEN "aucun"
  ELSE CHOOSE n \in NiveauxDe[v] : \A m \in NiveauxDe[v] : Rang[m] <= Rang[n]

(* etape: the await the handler is about to run; lue: the row it loaded;   *)
(* octets: the version it read; clair: the levels left readable; code: the *)
(* answer, or the one that follows the refusal to be written.              *)
Etapes == {"libre", "chargement", "decision", "refus", "source", "moteur",
           "pseudonymes", "journal", "finie"}
Codes == {0, 200, 401, 403, 404, 423, 500, 502}
Requete ==
  [etape : Etapes, role : Roles \cup {"aucun"}, portee : {"contenu", "metadonnees"},
   lue : LigneDocument, action : Actions \cup {"aucune"},
   octets : Nat, clair : SUBSET Niveaux, code : Codes]

RequeteVide ==
  [etape |-> "libre", role |-> "aucun", portee |-> "contenu", lue |-> LigneAbsente,
   action |-> "aucune", octets |-> Nul, clair |-> {}, code |-> 0]

Trace == [action : {"LECTURE", "REFUS"}, politique : Actions \cup {"aucune"}]

Init ==
  /\ InitPolitique
  /\ fichier = Nul
  /\ ligne = LigneAbsente
  /\ requetes = [r \in Requetes |-> RequeteVide]
  /\ traces = [r \in Requetes |-> <<>>]

-------------------------------------------------------------------------------
(* The file store and the orchestrator.                                    *)

ModifierFichier ==
  /\ fichier < MaxVersions
  /\ fichier' = fichier + 1
  /\ UNCHANGED <<varsPolitique, ligne, requetes, traces>>

Ecrire(l) ==
  /\ ligne' = l
  /\ UNCHANGED <<varsPolitique, fichier, requetes, traces>>

Inscrire ==
  /\ fichier # Nul
  /\ ~ MemeEmpreinte(ligne, fichier)
  /\ Ecrire(LigneInscrite(ligne, fichier))

Entamer == ligne.statut # "absent" /\ Ecrire(LigneMarquee(ligne, "en_analyse"))

Classer ==
  /\ ligne.statut \in {"decouvert", "en_analyse"}
  /\ \E v \in 1..fichier : v >= ligne.entites /\ Ecrire(LigneAnalysee(ligne, v))

Renoncer ==
  /\ ligne.statut \in {"decouvert", "en_analyse"}
  /\ Ecrire(LigneMarquee(ligne, "echec"))

Orchestrateur == Inscrire \/ Entamer \/ Classer \/ Renoncer

-------------------------------------------------------------------------------
(* The handlers.                                                           *)

Passer(r, q) ==
  /\ requetes' = [requetes EXCEPT ![r] = q]
  /\ UNCHANGED <<varsPolitique, fichier, ligne>>

Repondre(r, code) ==
  /\ Passer(r, [requetes[r] EXCEPT !.etape = "finie", !.code = code])
  /\ UNCHANGED traces

Tracer(r, action, politique) ==
  traces' = [traces EXCEPT ![r] =
               Append(@, [action |-> action, politique |-> politique])]

(* The refusal is written, then the code is answered.                      *)
Refuser(r, code) ==
  /\ Passer(r, [requetes[r] EXCEPT !.etape = "refus", !.code = code])
  /\ UNCHANGED traces

Disponible(r) == demarree /\ requetes[r].etape \in {"libre", "finie"}

(* A request whose token the global guard accepts.                         *)
Arriver(r) ==
  /\ Disponible(r)
  /\ \E role \in Roles, portee \in {"contenu", "metadonnees"} :
       Passer(r, [RequeteVide EXCEPT !.etape = "chargement", !.role = role,
                                     !.portee = portee])
  /\ traces' = [traces EXCEPT ![r] = <<>>]

(* JwtAuthGuard refuses the request before any handler.                    *)
RefuserJeton(r) ==
  /\ Disponible(r)
  /\ Passer(r, [RequeteVide EXCEPT !.etape = "finie", !.code = 401])
  /\ traces' = [traces EXCEPT ![r] = <<>>]

(* catalogue.document; metadonnees goes on to the journal or answers 404.  *)
ChargerDocument(r) ==
  LET q == requetes[r] IN
  /\ q.etape = "chargement"
  /\ \/ q.portee = "contenu" /\ ligne.statut = "absent" /\ Refuser(r, 404)
     \/ q.portee = "metadonnees" /\ ligne.statut = "absent" /\ Repondre(r, 404)
     \/ /\ ligne.statut # "absent"
        /\ Passer(r, [q EXCEPT !.lue = ligne,
                               !.etape = IF q.portee = "contenu" THEN "decision"
                                                                 ELSE "journal"])
        /\ UNCHANGED traces

NiveauLu(r) == NiveauMax(requetes[r].lue.niveau)

(* decider, with the matrix of that moment.                                *)
Decider(r) ==
  /\ requetes[r].etape = "decision"
  /\ \/ /\ requetes[r].lue.statut # "analyse" \/ NiveauLu(r) = "aucun"
        /\ Refuser(r, 423)
     \/ /\ requetes[r].lue.statut = "analyse"
        /\ NiveauLu(r) # "aucun"
        /\ LET action == Decide(requetes[r].role, NiveauLu(r))
           IN  IF action = "refus"
                 THEN Refuser(r, 403)
                 ELSE /\ Passer(r, [requetes[r] EXCEPT !.etape = "source",
                                                       !.action = action])
                      /\ UNCHANGED traces

(* The REFUS entry, then the exception.                                    *)
JournaliserRefus(r) ==
  /\ requetes[r].etape = "refus"
  /\ Passer(r, [requetes[r] EXCEPT !.etape = "finie"])
  /\ Tracer(r, "REFUS", "refus")

(* lireOctets: the bytes the file has now; "complet" leaves them as read.  *)
LireOctets(r) ==
  LET q == requetes[r] IN
  /\ q.etape = "source"
  /\ fichier # Nul
  /\ IF q.action = "complet"
       THEN Passer(r, [q EXCEPT !.octets = fichier, !.etape = "journal",
                                !.clair = NiveauxDe[fichier]])
       ELSE Passer(r, [q EXCEPT !.octets = fichier, !.etape = "moteur"])
  /\ UNCHANGED traces

(* Reading throws: refused and written, 404 or 502.                        *)
LectureEchoue(r) ==
  /\ requetes[r].etape = "source"
  /\ \E code \in {404, 502} : Refuser(r, code)

(* Mutant: the threshold itself is left readable.                          *)
ResteEnClairAuSeuil(v, seuil) == {n \in NiveauxDe[v] : Rang[n] <= Rang[seuil]}

(* /proteger: filtrer_par_seuil keeps what is at or above the threshold.   *)
ResteEnClair(v, seuil) == {n \in NiveauxDe[v] : Rang[n] < Rang[seuil]}

(* ia.proteger answers; only a pseudonymisation has correspondances.       *)
Proteger(r) ==
  LET q == requetes[r] IN
  /\ q.etape = "moteur"
  /\ Passer(r, [q EXCEPT !.clair = ResteEnClair(q.octets, NiveauLu(r)),
                         !.etape = IF q.action = "pseudonymise" THEN "pseudonymes"
                                                                ELSE "journal"])
  /\ UNCHANGED traces

(* The engine fails or does not answer in time: 502, nothing written.      *)
MoteurIndisponible(r) == requetes[r].etape = "moteur" /\ Repondre(r, 502)

(* enregistrerPseudonyme, for each correspondance.                         *)
EnregistrerPseudonymes(r) ==
  /\ requetes[r].etape = "pseudonymes"
  /\ Passer(r, [requetes[r] EXCEPT !.etape = "journal"])
  /\ UNCHANGED traces

(* The LECTURE entry, before the answer.                                   *)
JournaliserLecture(r) ==
  /\ requetes[r].etape = "journal"
  /\ Passer(r, [requetes[r] EXCEPT !.etape = "finie", !.code = 200])
  /\ Tracer(r, "LECTURE", requetes[r].action)

(* Mutant: a journal that cannot be written does not stop the answer.      *)
PanneIgnoree(r) ==
  /\ requetes[r].etape \in {"chargement", "refus", "source", "pseudonymes", "journal"}
  /\ Repondre(r, IF requetes[r].etape = "journal" THEN 200 ELSE 500)

(* The database or the journal throws: 500.                                *)
Panne(r) ==
  /\ requetes[r].etape \in {"chargement", "refus", "source", "pseudonymes", "journal"}
  /\ Repondre(r, 500)

-------------------------------------------------------------------------------

Servir(r) ==
  \/ Arriver(r) \/ RefuserJeton(r) \/ ChargerDocument(r) \/ Decider(r)
  \/ JournaliserRefus(r) \/ LireOctets(r) \/ LectureEchoue(r) \/ Proteger(r)
  \/ MoteurIndisponible(r) \/ EnregistrerPseudonymes(r) \/ JournaliserLecture(r)
  \/ Panne(r)

Next ==
  \/ NextPolitique /\ UNCHANGED varsPEP
  \/ ModifierFichier \/ Orchestrateur
  \/ \E r \in Requetes : Servir(r)

Spec == Init /\ [][Next]_vars

SpecEquitable == Spec /\ EquitePolitique

-------------------------------------------------------------------------------
(* Properties.                                                             *)

(* Types; an action taken by a request is one the matrix can hold.         *)
TypeOK ==
  /\ TypeOKPolitique
  /\ fichier \in 0..MaxVersions
  /\ ligne \in LigneDocument
  /\ requetes \in [Requetes -> Requete]
  /\ traces \in [Requetes -> Seq(Trace)]

Repondu(r, codes) == requetes[r].etape = "finie" /\ requetes[r].code \in codes

(* T-03: a request that was served, refused by policy, refused for want of *)
(* an analysis or refused on an unknown document has left exactly one      *)
(* entry, and it says what was done.                                       *)
UneTraceParReponse ==
  \A r \in Requetes :
    /\ Repondu(r, {200}) =>
         traces[r] = <<[action |-> "LECTURE", politique |-> requetes[r].action]>>
    /\ Repondu(r, {403, 423}) =>
         traces[r] = <<[action |-> "REFUS", politique |-> "refus"]>>
    /\ Repondu(r, {404}) /\ requetes[r].portee = "contenu" =>
         traces[r] = <<[action |-> "REFUS", politique |-> "refus"]>>

ContenuServi(r) == Repondu(r, {200}) /\ requetes[r].portee = "contenu"

(* Nothing is readable in an answer that the rows of the matrix do not     *)
(* give the role in full: the threshold of the engine, the level of the    *)
(* row and the default of the decision together, for a content that is the *)
(* one the level was computed from.                                        *)
ClairAutorise ==
  \A r \in Requetes :
    ContenuServi(r) /\ requetes[r].octets = requetes[r].lue.niveau =>
      \A n \in requetes[r].clair :
        /\ base = "amorcee"
        /\ <<requetes[r].role, n>> \in DOMAIN Matrice
        /\ Matrice[<<requetes[r].role, n>>] = "complet"

================================================================================
