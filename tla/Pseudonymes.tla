----------------------------- MODULE Pseudonymes ------------------------------
(***************************************************************************)
(* The tokens that replace values (ai-engine/app/protection/               *)
(* pseudonymize.py), the key that makes them reversible (crypt.py), and    *)
(* the table where the gateway keeps them (pseudonyme).                    *)
(***************************************************************************)
EXTENDS Sequences, SequencesExt, FiniteSets

\* The suffix of a token: the first LONGUEUR_SUFFIXE hexadecimal digits of the salted
\* hash of the canonical form.  Two forms may have the same one.
CONSTANT Suffixe(_)

PREFIXES ==
  [NOM_PERSONNE |-> "PERS", PRENOM |-> "PERS", EMAIL |-> "MAIL", TELEPHONE |-> "TEL",
   ADRESSE_POSTALE |-> "ADR", LOCALITE |-> "LIEU", ORGANISATION |-> "ORG", IBAN |-> "IBAN",
   CARTE_BANCAIRE |-> "CB", NUM_PIECE_IDENTITE |-> "PIECE", DATE_NAISSANCE |-> "DATE",
   NUM_CLIENT |-> "CLI", PLAQUE_IMMAT |-> "PLAQ"]
PREFIXE_DEFAUT == "DCP"

\* Without accents, runs of blanks reduced to one and none at the ends.
normaliser_valeur(v) ==
  LET lettres == SelectSeq([i \in DOMAIN v |-> IF v[i] = "a^" THEN "a" ELSE v[i]],
                           LAMBDA c : c # "^")
      blanc(i) == i \in DOMAIN lettres /\ lettres[i] \in {" ", "lf", "cr"}
      gardes == SelectSeq([i \in DOMAIN lettres |-> i],
                  LAMBDA i : ~blanc(i) \/ (i > 1 /\ ~blanc(i - 1)
                               /\ \E j \in i..Len(lettres) : ~blanc(j)))
  IN [k \in DOMAIN gardes |-> IF blanc(gardes[k]) THEN " " ELSE lettres[gardes[k]]]

\* SHA-256 is injective: the fingerprint is the canonical form.
empreinte(v) == normaliser_valeur(v)

jeton(v, type) ==
  <<IF type \in DOMAIN PREFIXES THEN PREFIXES[type] ELSE PREFIXE_DEFAUT,
    Suffixe(normaliser_valeur(v))>>

\* AES_KEY: a key of 16, 24 or 32 bytes; one of another length counts as absent.
Cles == {"absente", "valide"}

chiffrement_disponible(cle) == cle = "valide"

\* What the engine returns for a value; chiffree says that valeurChiffreeBase64 is there.
correspondance(v, type, cle) ==
  [empreinte |-> empreinte(v), jeton |-> jeton(v, type),
   chiffree |-> chiffrement_disponible(cle)]

-----------------------------------------------------------------------------
(* The table: a row [empreinte, jeton], each column UNIQUE.                *)
(* INSERT ... ON CONFLICT (empreinte_valeur) DO NOTHING looks for the      *)
(* fingerprint first, then inserts.  Only the index of the fingerprints    *)
(* arbitrates.                                                             *)

\* Mutant: a plain INSERT, which looks for nothing.
ConnueJamais(table, lien) == FALSE

Connue(table, lien) == \E r \in table : r.empreinte = lien.empreinte

\* What the insertion may end in: the index of the tokens raises on a token it has, whoever
\* it is from, unless the index of the fingerprints has sent the statement back to its
\* search before.
Issues(table, lien) ==
  LET prise == \E r \in table : r.jeton = lien.jeton
  IN {i \in {"inseree", "connue", "doublon"} :
       \/ i = "inseree" /\ ~prise /\ ~Connue(table, lien)
       \/ i = "connue" /\ Connue(table, lien)
       \/ i = "doublon" /\ prise}

Rangee(lien) == [empreinte |-> lien.empreinte, jeton |-> lien.jeton]
=============================================================================
