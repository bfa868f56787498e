------------------------------ MODULE JournalAudit -----------------------------
(***************************************************************************)
(* The audit journal (gateway/src/audit/audit.service.ts, table            *)
(* journal_audit of db/migrations/001_init.sql): concurrent append calls,  *)
(* each a SERIALIZABLE transaction replayed on a serialization failure,    *)
(* and verifyChain, which replays the chain in batches of rows while       *)
(* other entries are being appended.                                       *)
(*                                                                         *)
(* SHA-256 is taken to be free of collisions, so a fingerprint is modelled *)
(* by what it was computed from: the sequence of the hashed contents from  *)
(* the first entry on.  << >> is the anchor, and the NULL that the first   *)
(* entry has for empreinte_precedente (calculerEmpreinte reads one as the  *)
(* other).                                                                 *)
(*                                                                         *)
(* PostgreSQL is not part of the repository.  What is used of it: a        *)
(* SERIALIZABLE transaction sees the rows committed before its first query *)
(* and cannot commit when an append it did not see has committed since     *)
(* (each of the two read the predicate the other wrote); a sequence value  *)
(* is never given back.                                                    *)
(***************************************************************************)
EXTENDS Naturals, Sequences, FiniteSets

CONSTANTS
  Appelants,        (* the requests that write to the journal                *)
  EssaisAppend,     (* MAX_TENTATIVES of append: 5                           *)
  LotVerification,  (* TAILLE_LOT of verifyChain: 1000                       *)
  MaxAppels,        (* bound: calls of append by one request                 *)
  MaxAlterations    (* bound: alterations made by the owner of the table     *)

ASSUME ConstantesJournal ==
  /\ EssaisAppend \in Nat \ {0}
  /\ LotVerification \in Nat \ {0}
  /\ MaxAppels \in Nat
  /\ MaxAlterations \in Nat

VARIABLES
  journal,      (* the table: a function from the ids present to their rows  *)
  sequence,     (* last value given by journal_audit_id_seq                  *)
  ecritures,    (* the call of append each request is running                *)
  acquittes,    (* history: the contents whose append returned an id         *)
  origines,     (* history: per id, what its author wrote, the row it was
                   chained to, the fingerprint it was given, and whether the
                   table was unaltered then                                  *)
  verif,        (* the run of verifyChain                                    *)
  alterations   (* how many alterations have happened (bounded)              *)

vars == <<journal, sequence, ecritures, acquittes, origines, verif, alterations>>

-------------------------------------------------------------------------------

(* What the fingerprint covers: user, role, document, action, policy and   *)
(* timestamp.  The n-th call of a request stands for one such tuple.       *)
Contenus == Appelants \X (1..MaxAppels)

(* annexe: the columns the fingerprint does not cover (niveau_en_cause,    *)
(* adresse_ip, details), named by the content they were written with.      *)
Ligne == [contenu : Contenus, annexe : Contenus,
          precedente : Seq(Contenus), empreinte : Seq(Contenus)]

(* calculerEmpreinte.                                                      *)
Empreinte(precedente, contenu) == Append(precedente, contenu)

Ids == DOMAIN journal

(* The fingerprint of a row, and of "no row" (id 0).                       *)
EmpreinteDe(i) == IF i = 0 THEN <<>> ELSE journal[i].empreinte

(* i is the greatest element of S below j.                                 *)
Precede(i, j, S) == i \in S /\ i < j /\ \A k \in S : k < j => k <= i

(* phase: the query append is about to run; vu: the rows of its snapshot.  *)
Ecriture ==
  [phase : {"repos", "lecture", "insertion", "validation"},
   appel : 0..MaxAppels, essai : 0..EssaisAppend,
   vu : SUBSET Nat, base : Nat, precedente : Seq(Contenus), id : Nat]

Repos(n) == [phase |-> "repos", appel |-> n, essai |-> 0, vu |-> {},
             base |-> 0, precedente |-> <<>>, id |-> 0]

Essai(n, k) == [Repos(n) EXCEPT !.phase = "lecture", !.essai = k]

(* dernier, precedente: the locals dernierId and empreintePrecedente;      *)
(* debut: the number of alterations when it began.                         *)
Verification ==
  [etat : {"repos", "cours", "intact", "rompu"}, dernier : Nat,
   precedente : Seq(Contenus), debut : Nat]

Init ==
  /\ journal = <<>>
  /\ sequence = 0
  /\ ecritures = [a \in Appelants |-> Repos(0)]
  /\ acquittes = {}
  /\ origines = <<>>
  /\ verif = [etat |-> "repos", dernier |-> 0, precedente |-> <<>>, debut |-> 0]
  /\ alterations = 0

-------------------------------------------------------------------------------
(* append.                                                                 *)

EnTransaction(a) == ecritures[a].phase \in {"insertion", "validation"}

Contenu(a) == <<a, ecritures[a].appel>>

(* Mutant: READ COMMITTED, nothing refuses a commit.                       *)
ConflitIgnore(a) == FALSE

(* An append that this transaction did not see has committed.              *)
Conflit(a) == \E i \in Ids : i \notin ecritures[a].vu

Appeler(a) ==
  /\ ecritures[a].phase = "repos"
  /\ ecritures[a].appel < MaxAppels
  /\ ecritures' = [ecritures EXCEPT ![a] = Essai(@.appel + 1, 1)]
  /\ UNCHANGED <<journal, sequence, acquittes, origines, verif, alterations>>

(* BEGIN; SELECT empreinte ... ORDER BY id DESC LIMIT 1: the snapshot.     *)
LireDerniere(a) ==
  /\ ecritures[a].phase = "lecture"
  /\ \E i \in Ids \cup {0} :
       /\ \A j \in Ids : j <= i
       /\ ecritures' = [ecritures EXCEPT ![a] =
                          [@ EXCEPT !.phase = "insertion", !.vu = Ids, !.base = i,
                                    !.precedente = EmpreinteDe(i)]]
  /\ UNCHANGED <<journal, sequence, acquittes, origines, verif, alterations>>

(* INSERT: the id is taken from the sequence, the row is not visible yet.  *)
Inserer(a) ==
  /\ ecritures[a].phase = "insertion"
  /\ sequence' = sequence + 1
  /\ ecritures' = [ecritures EXCEPT ![a] =
                     [@ EXCEPT !.phase = "validation", !.id = sequence + 1]]
  /\ UNCHANGED <<journal, acquittes, origines, verif, alterations>>

LigneDe(a) ==
  [contenu    |-> Contenu(a),
   annexe     |-> Contenu(a),
   precedente |-> ecritures[a].precedente,
   empreinte  |-> Empreinte(ecritures[a].precedente, Contenu(a))]

Origine(a) ==
  [contenu   |-> Contenu(a),
   base      |-> ecritures[a].base,
   empreinte |-> LigneDe(a).empreinte,
   sain      |-> alterations = 0]

Ajout(f, i, v) == [j \in DOMAIN f \cup {i} |-> IF j = i THEN v ELSE f[j]]

(* The COMMIT takes effect.                                                *)
Valider(a) ==
  /\ ecritures[a].phase = "validation"
  /\ ~ Conflit(a)
  /\ journal' = Ajout(journal, ecritures[a].id, LigneDe(a))
  /\ origines' = Ajout(origines, ecritures[a].id, Origine(a))
  /\ ecritures' = [ecritures EXCEPT ![a] = Repos(@.appel)]

(* ... and append returns the id.                                          *)
ValiderEtRendre(a) ==
  /\ Valider(a)
  /\ acquittes' = acquittes \cup {Contenu(a)}
  /\ UNCHANGED <<sequence, verif, alterations>>

(* Mutant: the lost answer of a COMMIT is replayed like a 40001.           *)
ValiderPuisRejouer(a) ==
  /\ ecritures[a].phase = "validation"
  /\ ~ Conflit(a)
  /\ journal' = Ajout(journal, ecritures[a].id, LigneDe(a))
  /\ origines' = Ajout(origines, ecritures[a].id, Origine(a))
  /\ ecritures' = [ecritures EXCEPT ![a] =
                     IF @.essai < EssaisAppend THEN Essai(@.appel, @.essai + 1)
                                               ELSE Repos(@.appel)]
  /\ UNCHANGED <<sequence, acquittes, verif, alterations>>

(* ... but the connection is lost before its answer: append throws.        *)
ValiderSansReponse(a) ==
  /\ Valider(a)
  /\ UNCHANGED <<sequence, acquittes, verif, alterations>>

(* Mutant: replayed for as long as it conflicts.                           *)
RejouerSansFin(a) ==
  /\ EnTransaction(a)
  /\ Conflit(a) \/ \E b \in Appelants \ {a} : EnTransaction(b)
  /\ ecritures' = [ecritures EXCEPT ![a] = Essai(@.appel, @.essai + 1)]
  /\ UNCHANGED <<journal, sequence, acquittes, origines, verif, alterations>>

(* A serialization failure (40001) at the INSERT or the COMMIT, possible   *)
(* when another append has overlapped this one: replayed, or thrown by the *)
(* last attempt.                                                           *)
Rejouer(a) ==
  /\ EnTransaction(a)
  /\ Conflit(a) \/ \E b \in Appelants \ {a} : EnTransaction(b)
  /\ ecritures' = [ecritures EXCEPT ![a] =
                     IF @.essai < EssaisAppend THEN Essai(@.appel, @.essai + 1)
                                               ELSE Repos(@.appel)]
  /\ UNCHANGED <<journal, sequence, acquittes, origines, verif, alterations>>

(* Any other error, or the death of the process: rolled back, not replayed.*)
Abandonner(a) ==
  /\ ecritures[a].phase # "repos"
  /\ ecritures' = [ecritures EXCEPT ![a] = Repos(@.appel)]
  /\ UNCHANGED <<journal, sequence, acquittes, origines, verif, alterations>>

-------------------------------------------------------------------------------
(* verifyChain.                                                            *)

LancerVerification ==
  /\ verif.etat # "cours"
  /\ verif' = [etat |-> "cours", dernier |-> 0, precedente |-> <<>>,
               debut |-> alterations]
  /\ UNCHANGED <<journal, sequence, ecritures, acquittes, origines, alterations>>

(* WHERE id > dernierId ORDER BY id ASC LIMIT TAILLE_LOT.                  *)
Lot ==
  LET suite == {i \in Ids : i > verif.dernier}
  IN  {i \in suite : Cardinality({j \in suite : j < i}) < LotVerification}

(* Mutant: the fingerprint is not computed again.                          *)
MaillonValideSansRecalcul(j) ==
  \E i \in Lot \cup {verif.dernier} :
    /\ Precede(i, j, Lot \cup {verif.dernier})
    /\ journal[j].precedente =
         IF i = verif.dernier THEN verif.precedente ELSE EmpreinteDe(i)

(* Row j, replayed after the row the loop handled just before it.          *)
MaillonValide(j) ==
  \E i \in Lot \cup {verif.dernier} :
    /\ Precede(i, j, Lot \cup {verif.dernier})
    /\ LET p == IF i = verif.dernier THEN verif.precedente ELSE EmpreinteDe(i)
       IN  /\ journal[j].precedente = p
           /\ journal[j].empreinte = Empreinte(p, journal[j].contenu)

(* Mutant: each batch starts from the anchor again.                        *)
LotSuivantSansReport ==
  /\ verif.etat = "cours"
  /\ \A j \in Lot : MaillonValide(j)
  /\ \E m \in Lot :
       /\ \A j \in Lot : j <= m
       /\ verif' = [verif EXCEPT !.dernier = m]
  /\ UNCHANGED <<journal, sequence, ecritures, acquittes, origines, alterations>>

LotSuivant ==
  /\ verif.etat = "cours"
  /\ \A j \in Lot : MaillonValide(j)
  /\ \E m \in Lot :
       /\ \A j \in Lot : j <= m
       /\ verif' = [verif EXCEPT !.dernier = m, !.precedente = EmpreinteDe(m)]
  /\ UNCHANGED <<journal, sequence, ecritures, acquittes, origines, alterations>>

SignalerRupture ==
  /\ verif.etat = "cours"
  /\ \E j \in Lot : ~ MaillonValide(j)
  /\ verif' = [verif EXCEPT !.etat = "rompu"]
  /\ UNCHANGED <<journal, sequence, ecritures, acquittes, origines, alterations>>

ConclureIntact ==
  /\ verif.etat = "cours"
  /\ Lot = {}
  /\ verif' = [verif EXCEPT !.etat = "intact"]
  /\ UNCHANGED <<journal, sequence, ecritures, acquittes, origines, alterations>>

-------------------------------------------------------------------------------
(* The owner of the table, whom neither the rules of migration 001 nor the *)
(* privileges of migration 003 stop.  Fingerprints are not recomputed.     *)

Alteration ==
  /\ alterations < MaxAlterations
  /\ alterations' = alterations + 1
  /\ UNCHANGED <<sequence, ecritures, acquittes, origines, verif>>

ModifierContenu(i, c) ==
  /\ c # journal[i].contenu
  /\ journal' = [journal EXCEPT ![i].contenu = c]
  /\ Alteration

ModifierAnnexe(i, c) ==
  /\ c # journal[i].annexe
  /\ journal' = [journal EXCEPT ![i].annexe = c]
  /\ Alteration

(* The fingerprint of another row is copied over this one's.               *)
RecopierEmpreinte(i, j) ==
  /\ journal' = [journal EXCEPT ![i].empreinte = EmpreinteDe(j)]
  /\ Alteration

SupprimerLigne(i) ==
  /\ journal' = [j \in Ids \ {i} |-> journal[j]]
  /\ Alteration

(* TRUNCATE.                                                               *)
Tronquer ==
  /\ Ids # {}
  /\ journal' = <<>>
  /\ Alteration

-------------------------------------------------------------------------------

Ecrire(a) ==
  \/ Appeler(a) \/ LireDerniere(a) \/ Inserer(a) \/ ValiderEtRendre(a)
  \/ ValiderSansReponse(a) \/ Rejouer(a) \/ Abandonner(a)

Verifier ==
  LancerVerification \/ LotSuivant \/ SignalerRupture \/ ConclureIntact

Alterer ==
  \/ Tronquer
  \/ \E i \in Ids :
       \/ SupprimerLigne(i)
       \/ \E c \in Contenus : ModifierContenu(i, c) \/ ModifierAnnexe(i, c)
       \/ \E j \in Ids \ {i} : RecopierEmpreinte(i, j)

Next == Verifier \/ Alterer \/ \E a \in Appelants : Ecrire(a)

Spec == Init /\ [][Next]_vars

-------------------------------------------------------------------------------
(* Properties.                                                             *)

(* Types, and no call of append goes beyond its attempts.                  *)
TypeOK ==
  /\ Ids \subseteq 1..sequence
  /\ \A i \in Ids : journal[i] \in Ligne
  /\ sequence \in Nat
  /\ ecritures \in [Appelants -> Ecriture]
  /\ acquittes \subseteq Contenus
  /\ DOMAIN origines \subseteq 1..sequence
  /\ \A i \in DOMAIN origines :
       origines[i] \in [contenu : Contenus, base : Nat, empreinte : Seq(Contenus), sain : BOOLEAN]
  /\ verif \in Verification
  /\ alterations \in Nat

(* Piege no 7 of append: concurrent requests never produce two sibling     *)
(* links.  As long as nobody alters the table, every row is chained to the *)
(* row just before it in the order of ids, the order verifyChain reads in. *)
ChaineUnique ==
  alterations = 0 =>
    \A j \in Ids :
      \E i \in Ids \cup {0} :
        /\ Precede(i, j, Ids \cup {0})
        /\ journal[j].precedente = EmpreinteDe(i)
        /\ journal[j].empreinte = Empreinte(EmpreinteDe(i), journal[j].contenu)

(* verifyChain, whose batches are separate queries, never reports a break  *)
(* in a journal nobody altered, however many entries are appended meanwhile.*)
SansFausseAlerte == alterations = 0 => verif.etat # "rompu"

(* A call of append leaves at most one entry, even when it was replayed or *)
(* its commit got no answer; one that returned an id has left exactly one. *)
UneEntreeParAppel ==
  alterations = 0 =>
    /\ \A i, j \in Ids : journal[i].contenu = journal[j].contenu => i = j
    /\ \A c \in acquittes : \E i \in Ids : journal[i].contenu = c

(* Entries become visible in the order of their ids, so the cursor of      *)
(* verifyChain and the pages of rechercher never have an entry appear      *)
(* behind them.                                                            *)
OrdreDesIds ==
  [][\A j \in DOMAIN journal' \ DOMAIN journal : \A i \in DOMAIN journal : i < j]_vars

(* The verdict is about the journal as the owner has left it.              *)
VerdictIntact == verif.etat = "intact" /\ verif.debut = alterations

(* A row appended before the first alteration that still bears the         *)
(* fingerprint its author computed: a fingerprint known from outside, say. *)
Temoin(j) ==
  origines[j].sain /\ journal[j].empreinte = origines[j].empreinte

(* What "intact" proves: one such row vouches for all the rows before it.  *)
(* Each still says what its author wrote and still follows the very entry  *)
(* its author chained it to, so nothing was rewritten, added or removed up *)
(* to that row.  (Without one, fingerprints copied from row to row may     *)
(* vouch for each other; an entry appended after an alteration is chained  *)
(* to what it found.)                                                      *)
VerdictFiable ==
  VerdictIntact =>
    \A j \in Ids : j <= verif.dernier /\ Temoin(j) =>
      \A i \in Ids : i <= j =>
        /\ journal[i].contenu = origines[i].contenu
        /\ Precede(origines[i].base, i, Ids \cup {0})

================================================================================
