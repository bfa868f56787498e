------------------------------- MODULE Politique -------------------------------
(***************************************************************************)
(* The policy decision point (gateway/src/policy/policy.service.ts): the   *)
(* matrix read from the database at start-up, read again every 15 s while  *)
(* that failed, and the decision taken from the copy in memory.            *)
(*                                                                         *)
(* The database becomes usable in two transactions of "make seed"          *)
(* (gateway/src/db/migrate.ts): 001 creates politique_acces, 002 fills it. *)
(* The gateway may start before, between or after them.                    *)
(***************************************************************************)
EXTENDS Naturals, FiniteSets

CONSTANTS
  Roles,      (* the codes of the table "role"                               *)
  Niveaux,    (* the enumeration niveau_sens                                 *)
  Matrice     (* the rows migration 002 inserts: <<role, niveau>> -> action  *)

Actions == {"complet", "masque", "pseudonymise", "refus"}

ASSUME ConstantesPolitique ==
  /\ DOMAIN Matrice \subseteq Roles \X Niveaux
  /\ \A c \in DOMAIN Matrice : Matrice[c] \in Actions

VARIABLES
  base,       (* what "make seed" has committed                              *)
  matrice,    (* this.matrice                                                *)
  demarree,   (* onModuleInit has returned                                   *)
  reprise,    (* this.reprise: the interval is set                           *)
  reponses    (* answers of chargerMatrice not yet handled by recharger      *)

varsPolitique == <<base, matrice, demarree, reprise, reponses>>

Bases == {"non_migree", "migree", "amorcee"}

(* The rows the query returns.                                             *)
Lignes(b) == IF b = "amorcee" THEN Matrice ELSE <<>>

InitPolitique ==
  /\ base \in Bases
  /\ matrice = <<>>
  /\ demarree = FALSE
  /\ reprise = FALSE
  /\ reponses = {}

-------------------------------------------------------------------------------

(* 001_init.sql commits.                                                   *)
Migrer ==
  /\ base = "non_migree"
  /\ base' = "migree"
  /\ UNCHANGED <<matrice, demarree, reprise, reponses>>

(* 002_seed_roles.sql commits.                                             *)
Amorcer ==
  /\ base = "migree"
  /\ base' = "amorcee"
  /\ UNCHANGED <<matrice, demarree, reprise, reponses>>

(* onModuleInit: the query answers.                                        *)
ChargerAuDemarrage ==
  /\ ~ demarree
  /\ base # "non_migree"
  /\ matrice' = Lignes(base)
  /\ demarree' = TRUE
  /\ UNCHANGED <<base, reprise, reponses>>

(* Mutant: a failed first read is only logged.                             *)
DemarrerSansReprise ==
  /\ ~ demarree
  /\ demarree' = TRUE
  /\ UNCHANGED <<base, matrice, reprise, reponses>>

(* onModuleInit: the table does not exist or the database is not there.    *)
DemarrerSansMatrice ==
  /\ ~ demarree
  /\ reprise' = TRUE
  /\ demarree' = TRUE
  /\ UNCHANGED <<base, matrice, reponses>>

(* A tick of the interval: the query answers.  (A query that fails is      *)
(* ignored, and changes nothing.)  Nothing keeps two ticks from            *)
(* overlapping.                                                            *)
InterrogerBase ==
  /\ reprise
  /\ base # "non_migree"
  /\ reponses' = reponses \cup {base}
  /\ UNCHANGED <<base, matrice, demarree, reprise>>

(* recharger swaps the matrix, then the interval is cleared.               *)
AppliquerReponse(b) ==
  /\ b \in reponses
  /\ matrice' = Lignes(b)
  /\ reprise' = FALSE
  /\ reponses' = reponses \ {b}
  /\ UNCHANGED <<base, demarree>>

(* Mutant: a missing cell is not a refusal.                                *)
DecideSansDefaut(role, niveau) ==
  IF <<role, niveau>> \in DOMAIN matrice THEN matrice[<<role, niveau>>]
                                         ELSE "indefinie"

(* decide, for a level that is known.                                      *)
Decide(role, niveau) ==
  IF <<role, niveau>> \in DOMAIN matrice THEN matrice[<<role, niveau>>]
                                         ELSE "refus"

NextPolitique ==
  \/ Migrer \/ Amorcer
  \/ ChargerAuDemarrage \/ DemarrerSansMatrice
  \/ InterrogerBase \/ \E b \in reponses : AppliquerReponse(b)

(* The interval keeps firing, the database answers in the end, and every   *)
(* answer is handled.                                                      *)
EquitePolitique ==
  /\ WF_varsPolitique(ChargerAuDemarrage \/ DemarrerSansMatrice)
  /\ WF_varsPolitique(InterrogerBase)
  /\ WF_varsPolitique(\E b \in reponses : AppliquerReponse(b))

-------------------------------------------------------------------------------
(* Properties.                                                             *)

TypeOKPolitique ==
  /\ base \in Bases
  /\ matrice \in {<<>>, Matrice}
  /\ demarree \in BOOLEAN
  /\ reprise \in BOOLEAN
  /\ reponses \subseteq {"migree", "amorcee"}

(* Over a database that is ready when the gateway starts, the matrix is    *)
(* loaded in the end however the first queries fail (policy.service.ts,    *)
(* programmerReprise).                                                     *)
ChargementFinal ==
  base = "amorcee" /\ ~ demarree ~> matrice = Matrice

================================================================================
