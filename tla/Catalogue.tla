------------------------------- MODULE Catalogue -------------------------------
(***************************************************************************)
(* A row of the table "document", and what each statement of              *)
(* CatalogService does to it (gateway/src/catalog/catalog.service.ts).    *)
(*                                                                         *)
(* The content of a file is a version number: two versions have different *)
(* SHA-256 fingerprints, and everything the AI engine computes from a      *)
(* content (its entities and its highest level) is named by the version it *)
(* was computed from.  Nul stands for SQL's NULL and for "no version".     *)
(***************************************************************************)
EXTENDS Naturals

CONSTANT PlafondTentatives  (* bound: where the counter of failures saturates;
                               the code only compares it with 3             *)

ASSUME PlafondEntier == PlafondTentatives \in Nat

Nul == 0

(* The enumeration statut_doc, and "absent" when the table has no row.     *)
StatutDoc == {"decouvert", "en_analyse", "analyse", "echec"}

(* empreinte: the version whose hash is in empreinte_sha256;               *)
(* niveau:    the version niveau_max was computed from, Nul when an upsert *)
(*            cleared it (its value is not modelled: it may be NULL after   *)
(*            the analysis of a document where nothing is detected);        *)
(* entites:   the version the rows of entite_detectee were computed from.  *)
LigneDocument ==
  [statut     : StatutDoc \cup {"absent"},
   empreinte  : Nat,
   niveau     : Nat,
   entites    : Nat,
   tentatives : Nat]

LigneAbsente ==
  [statut |-> "absent", empreinte |-> Nul, niveau |-> Nul,
   entites |-> Nul, tentatives |-> 0]

(* upsertDocument returns null: the WHERE of ON CONFLICT keeps the row.    *)
MemeEmpreinte(ligne, version) == ligne.empreinte = version

(* upsertDocument inserts the row or rewrites it.  The entities of the old *)
(* content stay in entite_detectee until the next analysis replaces them.  *)
LigneInscrite(ligne, version) ==
  [ligne EXCEPT !.statut = "decouvert", !.empreinte = version,
                !.niveau = Nul, !.tentatives = 0]

(* Mutant: a failure that is marked but not counted.                       *)
LigneMarqueeSansCompter(ligne, statut) == [ligne EXCEPT !.statut = statut]

(* marquerStatut: an unconditional UPDATE; only 'echec' counts an attempt. *)
LigneMarquee(ligne, statut) ==
  [ligne EXCEPT !.statut = statut,
                !.tentatives = IF statut = "echec" /\ @ < PlafondTentatives
                                  THEN @ + 1 ELSE @]

(* enregistrerEntites: entities and level replaced in one transaction,     *)
(* whatever fingerprint the row holds by then; niveau names the version    *)
(* the new niveau_max, NULL or not, was computed from.                     *)
LigneAnalysee(ligne, version) ==
  [ligne EXCEPT !.statut = "analyse", !.niveau = version, !.entites = version]

(* Mutant: the attempts are not compared with their maximum.               *)
EnAttenteSansLimite(ligne, maxTentatives) ==
  /\ ligne.statut \in StatutDoc
  /\ ligne.statut # "analyse"

(* Mutant: only the failures are queued again.                             *)
EnAttenteEchecsSeuls(ligne, maxTentatives) ==
  /\ ligne.statut = "echec"
  /\ ligne.tentatives < maxTentatives

(* The WHERE clause of replanifierEnAttente.                               *)
EnAttente(ligne, maxTentatives) ==
  /\ ligne.statut \in StatutDoc
  /\ ligne.statut # "analyse"
  /\ ligne.statut # "echec" \/ ligne.tentatives < maxTentatives

================================================================================
