-------------------------- MODULE JournalAudit_proofs --------------------------
(***************************************************************************)
(* What AuditService guarantees for any number of writers, of attempts and *)
(* of calls, and for any batch size of verifyChain.                        *)
(*                                                                         *)
(* The argument.  The id of an append is greater than every id of its      *)
(* snapshot (IdReserve), and a commit is accepted only if the snapshot is  *)
(* still the whole table: so rows appear in the order of their ids, each   *)
(* after the row it was chained to (BaseLue), which was the last.  The     *)
(* table grows at its end only, hence the row verifyChain stopped at stays *)
(* what it was, and what follows it in the table is what the next batch    *)
(* begins with (CurseurExact).                                             *)
(***************************************************************************)
EXTENDS JournalAudit, FiniteSetTheorems, SequenceTheorems, TLAPS

\* A set of natural numbers has a least element.
LEMMA NatMinimal ==
  ASSUME NEW T \in SUBSET Nat, T # {}
  PROVE  \E t \in T : \A y \in T : t <= y
  <1>1. PICK t \in T : \A y \in T : ~ (<<y, t>> \in OpToRel(<, Nat))
    BY NatLessThanWellFounded, WFMin
  <1>2. ASSUME NEW y \in T, ~ (t <= y) PROVE FALSE
    <2>1. y < t /\ <<y, t>> \in Nat \X Nat
      BY <1>2
    <2>2. <<y, t>> \in OpToRel(<, Nat)
      BY <2>1 DEF OpToRel
    <2>. QED
      BY <1>1, <2>2
  <1>. QED
    BY <1>2

\* One that is bounded has a greatest element.
LEMMA NatMaximal ==
  ASSUME NEW n \in Nat, NEW T \in SUBSET (0..n), T # {}
  PROVE  \E t \in T : \A y \in T : y <= t
  <1>. DEFINE U == {n - y : y \in T}
  <1>1. \A y \in T : y \in Nat /\ n - y \in Nat
    OBVIOUS
  <1>2. U \in SUBSET Nat /\ U # {}
    BY <1>1
  <1>3. PICK u \in U : \A v \in U : u <= v
    <2>. HIDE DEF U
    <2>. QED
      BY <1>2, NatMinimal
  <1>4. PICK t \in T : u = n - t
    OBVIOUS
  <1>5. ASSUME NEW y \in T PROVE y <= t
    <2>1. n - t <= n - y
      BY <1>3, <1>4
    <2>. QED
      BY <1>1, <2>1
  <1>. QED
    BY <1>5

(* A call under way is one of the numbered calls.                          *)
AppelEnCours ==
  \A a \in Appelants :
    ecritures[a].phase # "repos" => ecritures[a].appel \in 1..MaxAppels

(* The id of a row not yet committed is nobody else's, and it is greater   *)
(* than every id of the snapshot.                                          *)
IdReserve ==
  \A a \in Appelants :
    /\ ecritures[a].vu \subseteq 1..sequence
    /\ ecritures[a].phase = "validation" =>
         /\ ecritures[a].id \in 1..sequence
         /\ ecritures[a].id \notin Ids
         /\ \A i \in ecritures[a].vu : i < ecritures[a].id
         /\ \A b \in Appelants \ {a} :
              ecritures[b].phase = "validation" =>
                ecritures[b].id # ecritures[a].id

(* The types, and what they need.                                          *)
TInv == TypeOK /\ AppelEnCours /\ IdReserve

-------------------------------------------------------------------------------
(* Operators.                                                              *)

LEMMA ContenuTypee ==
  ASSUME TInv, NEW a \in Appelants, ecritures[a].phase # "repos"
  PROVE  Contenu(a) \in Contenus
  BY DEF TInv, AppelEnCours, Contenu, Contenus

LEMMA EmpreinteTypee ==
  ASSUME TypeOK, NEW i \in Ids \cup {0}
  PROVE  EmpreinteDe(i) \in Seq(Contenus)
  <1>1. <<>> \in Seq(Contenus)
    OBVIOUS
  <1>2. CASE i \in Ids /\ i # 0
    <2>1. journal[i] \in Ligne
      BY <1>2 DEF TypeOK
    <2>. QED  BY <1>2, <2>1 DEF EmpreinteDe, Ligne
  <1>. QED  BY <1>1, <1>2 DEF EmpreinteDe

LEMMA LigneTypee ==
  ASSUME TInv, NEW a \in Appelants, ecritures[a].phase # "repos"
  PROVE  LigneDe(a) \in Ligne
  <1>1. Contenu(a) \in Contenus
    BY ContenuTypee
  <1>2. ecritures[a].precedente \in Seq(Contenus)
    BY DEF TInv, TypeOK, Ecriture
  <1>3. Empreinte(ecritures[a].precedente, Contenu(a)) \in Seq(Contenus)
    BY <1>1, <1>2, AppendProperties DEF Empreinte
  <1>. QED  BY <1>1, <1>2, <1>3 DEF LigneDe, Ligne

LEMMA ReposTypee ==
  ASSUME NEW n \in 0..MaxAppels
  PROVE  /\ Repos(n) \in Ecriture
         /\ Repos(n).phase = "repos" /\ Repos(n).appel = n /\ Repos(n).vu = {}
         /\ \A k \in 0..EssaisAppend :
              /\ Essai(n, k) \in Ecriture
              /\ Essai(n, k).phase = "lecture"
              /\ Essai(n, k).appel = n
              /\ Essai(n, k).vu = {}
  <1>. USE ConstantesJournal
  <1>1. <<>> \in Seq(Contenus)
    OBVIOUS
  <1>2. Repos(n) \in Ecriture
    BY <1>1 DEF Repos, Ecriture
  <1>3. Repos(n).phase = "repos" /\ Repos(n).appel = n /\ Repos(n).vu = {}
    BY DEF Repos
  <1>4. ASSUME NEW k \in 0..EssaisAppend
        PROVE  /\ Essai(n, k) \in Ecriture
               /\ Essai(n, k).phase = "lecture"
               /\ Essai(n, k).appel = n
               /\ Essai(n, k).vu = {}
    BY <1>2, <1>3 DEF Essai, Ecriture
  <1>. QED  BY <1>2, <1>3, <1>4

-------------------------------------------------------------------------------
(* The types.                                                              *)

LEMMA InitTInv == Init => TInv
  <1>. SUFFICES ASSUME Init PROVE TInv
    OBVIOUS
  <1>. USE ConstantesJournal DEF Init
  <1>1. Ids = {}
    BY DEF Ids
  <1>2. \A a \in Appelants : ecritures[a] = Repos(0)
    OBVIOUS
  <1>3. TypeOK
    <2>1. <<>> \in Seq(Contenus)
      OBVIOUS
    <2>2. verif \in Verification
      BY <2>1 DEF Verification
    <2>3. ecritures \in [Appelants -> Ecriture]
      BY ReposTypee
    <2>4. DOMAIN origines = {}
      OBVIOUS
    <2>. QED  BY <1>1, <2>2, <2>3, <2>4 DEF TypeOK
  <1>4. AppelEnCours /\ IdReserve
    BY <1>2 DEF AppelEnCours, IdReserve, Repos
  <1>. QED  BY <1>3, <1>4 DEF TInv

(* A writer that only moves within its call: nobody else changes.          *)
LEMMA EcritureRemplacee ==
  ASSUME TypeOK, NEW a \in Appelants, NEW e \in Ecriture,
         ecritures' = [ecritures EXCEPT ![a] = e]
  PROVE  /\ ecritures' \in [Appelants -> Ecriture]
         /\ ecritures'[a] = e
         /\ \A b \in Appelants \ {a} : ecritures'[b] = ecritures[b]
  BY DEF TypeOK

(* The call goes back to its first query, or ends.                         *)
LEMMA ReprisePreserve ==
  ASSUME TInv, NEW a \in Appelants, NEW e \in Ecriture,
         e.phase \in {"repos", "lecture"},
         e.phase # "repos" => e.appel \in 1..MaxAppels,
         e.vu = {},
         ecritures' = [ecritures EXCEPT ![a] = e],
         UNCHANGED <<journal, sequence, acquittes, origines, verif, alterations>>
  PROVE  TInv'
  <1>1. /\ ecritures' \in [Appelants -> Ecriture]
        /\ ecritures'[a] = e
        /\ \A b \in Appelants \ {a} : ecritures'[b] = ecritures[b]
    BY EcritureRemplacee DEF TInv
  <1>2. TypeOK'
    BY <1>1 DEF TInv, TypeOK, Ids
  <1>3. AppelEnCours'
    BY <1>1 DEF TInv, AppelEnCours
  <1>4. IdReserve'
    BY <1>1 DEF TInv, IdReserve, Ids
  <1>. QED  BY <1>2, <1>3, <1>4 DEF TInv

LEMMA AppelerTInv ==
  ASSUME TInv, NEW a \in Appelants, Appeler(a)
  PROVE  TInv'
  <1>. DEFINE n == ecritures[a].appel + 1
              e == Essai(n, 1)
  <1>1. n \in 1..MaxAppels /\ n \in 0..MaxAppels
    BY ConstantesJournal DEF TInv, TypeOK, Ecriture, Appeler
  <1>2. 1 \in 0..EssaisAppend
    BY ConstantesJournal
  <1>3. e \in Ecriture /\ e.phase = "lecture" /\ e.appel = n /\ e.vu = {}
    BY <1>1, <1>2, ReposTypee
  <1>4. /\ ecritures' = [ecritures EXCEPT ![a] = e]
        /\ UNCHANGED <<journal, sequence, acquittes, origines, verif, alterations>>
    BY DEF Appeler
  <1>. HIDE DEF e
  <1>. QED
    BY <1>1, <1>3, <1>4, ReprisePreserve

LEMMA ReprendreTInv ==
  ASSUME TInv, NEW a \in Appelants, Rejouer(a) \/ Abandonner(a)
  PROVE  TInv'
  <1>. DEFINE n == ecritures[a].appel
              k == ecritures[a].essai
  <1>1. n \in 1..MaxAppels /\ n \in 0..MaxAppels
    BY DEF TInv, TypeOK, Ecriture, AppelEnCours, Rejouer, Abandonner, EnTransaction
  <1>2. k \in 0..EssaisAppend
    BY DEF TInv, TypeOK, Ecriture
  <1>3. PICK e \in {Repos(n)} \cup {Essai(n, j) : j \in 0..EssaisAppend} :
          ecritures' = [ecritures EXCEPT ![a] = e]
    <2>1. CASE k < EssaisAppend /\ ecritures' = [ecritures EXCEPT ![a] = Essai(n, k + 1)]
      <3>1. k + 1 \in 0..EssaisAppend
        BY <1>2, <2>1, ConstantesJournal
      <3>. QED
        BY <2>1, <3>1
    <2>2. CASE ecritures' = [ecritures EXCEPT ![a] = Repos(n)]
      BY <2>2
    <2>. QED
      BY <2>1, <2>2 DEF Rejouer, Abandonner
  <1>4. /\ e \in Ecriture
        /\ e.phase \in {"repos", "lecture"}
        /\ e.appel = n
        /\ e.vu = {}
    BY <1>1, ReposTypee
  <1>5. UNCHANGED <<journal, sequence, acquittes, origines, verif, alterations>>
    BY DEF Rejouer, Abandonner
  <1>. QED
    BY <1>1, <1>3, <1>4, <1>5, ReprisePreserve

LEMMA LireDerniereTInv ==
  ASSUME TInv, NEW a \in Appelants, LireDerniere(a)
  PROVE  TInv'
  <1>1. PICK i \in Ids \cup {0} :
          ecritures' = [ecritures EXCEPT ![a] =
                          [ecritures[a] EXCEPT !.phase = "insertion", !.vu = Ids,
                                !.base = i, !.precedente = EmpreinteDe(i)]]
    BY DEF LireDerniere
  <1>. DEFINE e == [ecritures[a] EXCEPT !.phase = "insertion", !.vu = Ids,
                                        !.base = i, !.precedente = EmpreinteDe(i)]
  <1>2. /\ Ids \subseteq 1..sequence
        /\ sequence \in Nat
        /\ ecritures[a] \in Ecriture
    BY DEF TInv, TypeOK
  <1>3. /\ Ids \in SUBSET Nat
        /\ i \in Nat
    BY <1>2
  <1>4. EmpreinteDe(i) \in Seq(Contenus)
    BY EmpreinteTypee DEF TInv
  <1>5. e \in Ecriture
    BY <1>2, <1>3, <1>4 DEF Ecriture
  <1>6. e.phase = "insertion" /\ e.vu = Ids /\ e.appel = ecritures[a].appel
    BY <1>2 DEF Ecriture
  <1>7. /\ ecritures' \in [Appelants -> Ecriture]
        /\ ecritures'[a] = e
        /\ \A b \in Appelants \ {a} : ecritures'[b] = ecritures[b]
    BY <1>1, <1>5, EcritureRemplacee DEF TInv
  <1>8. TypeOK'
    BY <1>7 DEF TInv, TypeOK, Ids, LireDerniere
  <1>9. AppelEnCours'
    <2>1. ecritures[a].phase = "lecture"
      BY DEF LireDerniere
    <2>. QED
      BY <1>6, <1>7, <2>1 DEF TInv, AppelEnCours
  <1>10. IdReserve'
    <2>1. Ids' = Ids /\ sequence' = sequence
      BY DEF LireDerniere, Ids
    <2>. QED
      BY <1>2, <1>6, <1>7, <2>1 DEF TInv, IdReserve
  <1>. QED  BY <1>8, <1>9, <1>10 DEF TInv

LEMMA InsererTInv ==
  ASSUME TInv, NEW a \in Appelants, Inserer(a)
  PROVE  TInv'
  <1>. DEFINE e == [ecritures[a] EXCEPT !.phase = "validation", !.id = sequence + 1]
  <1>1. ecritures' = [ecritures EXCEPT ![a] = e]
    BY DEF Inserer
  <1>2. /\ Ids \subseteq 1..sequence
        /\ DOMAIN origines \subseteq 1..sequence
        /\ sequence \in Nat
        /\ ecritures \in [Appelants -> Ecriture]
        /\ ecritures[a] \in Ecriture
        /\ ecritures[a].phase = "insertion"
        /\ sequence' = sequence + 1
        /\ Ids' = Ids
    BY DEF TInv, TypeOK, Inserer, Ids
  <1>3. /\ e \in Ecriture
        /\ e.phase = "validation"
        /\ e.id = sequence + 1
        /\ e.vu = ecritures[a].vu
        /\ e.appel = ecritures[a].appel
    <2>1. sequence + 1 \in Nat
      BY <1>2
    <2>. QED  BY <1>2, <2>1 DEF Ecriture
  <1>4. /\ ecritures' \in [Appelants -> Ecriture]
        /\ ecritures'[a] = e
        /\ \A b \in Appelants \ {a} : ecritures'[b] = ecritures[b]
    BY <1>1, <1>3, EcritureRemplacee DEF TInv
  <1>5. TypeOK'
    <2>1. Ids' \subseteq 1..sequence' /\ (DOMAIN origines)' \subseteq 1..sequence'
      BY <1>2 DEF Inserer
    <2>. QED
      BY <1>2, <1>4, <2>1 DEF TInv, TypeOK, Inserer
  <1>6. AppelEnCours'
    BY <1>2, <1>3, <1>4 DEF TInv, AppelEnCours
  <1>7. IdReserve'
    <2>1. \A b \in Appelants : ecritures'[b].vu = ecritures[b].vu
      BY <1>3, <1>4
    <2>2. \A b \in Appelants : ecritures'[b].vu \subseteq 1..sequence'
      BY <1>2, <2>1 DEF TInv, IdReserve
    <2>3. \A b \in Appelants \ {a} :
            ecritures[b].phase = "validation" => ecritures[b].id \in 1..sequence
      BY DEF TInv, IdReserve
    <2>4. \A i \in ecritures[a].vu : i < sequence + 1
      BY <1>2 DEF TInv, IdReserve
    <2>5. sequence + 1 \in 1..sequence' /\ sequence + 1 \notin 1..sequence
      BY <1>2
    <2>6. \A n \in 1..sequence : n \in 1..sequence' /\ n # sequence + 1
      BY <1>2
    <2>7. ASSUME NEW b \in Appelants, ecritures'[b].phase = "validation"
          PROVE  /\ ecritures'[b].id \in 1..sequence'
                 /\ ecritures'[b].id \notin Ids'
                 /\ \A i \in ecritures'[b].vu : i < ecritures'[b].id
                 /\ \A c \in Appelants \ {b} :
                      ecritures'[c].phase = "validation" =>
                        ecritures'[c].id # ecritures'[b].id
      <3>1. CASE b = a
        BY <1>2, <1>3, <1>4, <2>3, <2>4, <2>5, <2>6, <3>1
      <3>2. CASE b # a
        <4>1. /\ ecritures[b].id \in 1..sequence
              /\ ecritures[b].id \notin Ids
              /\ \A i \in ecritures[b].vu : i < ecritures[b].id
              /\ \A c \in Appelants \ {b} :
                   ecritures[c].phase = "validation" =>
                     ecritures[c].id # ecritures[b].id
          BY <1>4, <2>7, <3>2 DEF TInv, IdReserve
        <4>. QED
          BY <1>2, <1>3, <1>4, <2>6, <3>2, <4>1
      <3>. QED  BY <3>1, <3>2
    <2>. QED
      BY <2>2, <2>7 DEF IdReserve
  <1>. QED  BY <1>5, <1>6, <1>7 DEF TInv

(* A commit adds one row, after all the others.                            *)
LEMMA ValiderAjoute ==
  ASSUME TInv, NEW a \in Appelants, Valider(a)
  PROVE  /\ ecritures[a].id \in 1..sequence
         /\ ecritures[a].id \notin Ids
         /\ \A i \in Ids : i \in ecritures[a].vu /\ i < ecritures[a].id
         /\ Ids' = Ids \cup {ecritures[a].id}
         /\ journal'[ecritures[a].id] = LigneDe(a)
         /\ \A i \in Ids : journal'[i] = journal[i]
         /\ ecritures' \in [Appelants -> Ecriture]
         /\ ecritures'[a] = Repos(ecritures[a].appel)
         /\ \A b \in Appelants \ {a} : ecritures'[b] = ecritures[b]
  <1>. DEFINE id == ecritures[a].id
  <1>1. ecritures[a].phase = "validation"
    BY DEF Valider
  <1>2. /\ id \in 1..sequence
        /\ id \notin Ids
        /\ \A i \in ecritures[a].vu : i < id
    BY <1>1 DEF TInv, IdReserve
  <1>3. \A i \in Ids : i \in ecritures[a].vu
    BY DEF Valider, Conflit
  <1>4. journal' = [j \in Ids \cup {id} |-> IF j = id THEN LigneDe(a) ELSE journal[j]]
    BY DEF Valider, Ajout, Ids
  <1>5. /\ Ids' = Ids \cup {id}
        /\ journal'[id] = LigneDe(a)
        /\ \A i \in Ids : journal'[i] = journal[i]
    BY <1>2, <1>4 DEF Ids
  <1>6. ecritures[a].appel \in 0..MaxAppels
    BY DEF TInv, TypeOK, Ecriture
  <1>7. /\ ecritures' \in [Appelants -> Ecriture]
        /\ ecritures'[a] = Repos(ecritures[a].appel)
        /\ \A b \in Appelants \ {a} : ecritures'[b] = ecritures[b]
    BY <1>6, ReposTypee, EcritureRemplacee DEF Valider, TInv
  <1>. QED  BY <1>2, <1>3, <1>5, <1>7

LEMMA ValiderTInv ==
  ASSUME TInv, NEW a \in Appelants, ValiderEtRendre(a) \/ ValiderSansReponse(a)
  PROVE  TInv'
  <1>. DEFINE id == ecritures[a].id
  <1>1. Valider(a) /\ UNCHANGED <<sequence, verif, alterations>>
    BY DEF ValiderEtRendre, ValiderSansReponse
  <1>2. ecritures[a].phase = "validation" /\ ecritures[a].phase # "repos"
    BY <1>1 DEF Valider
  <1>3. Contenu(a) \in Contenus /\ LigneDe(a) \in Ligne
    BY <1>2, ContenuTypee, LigneTypee
  <1>4. /\ id \in 1..sequence
        /\ id \notin Ids
        /\ Ids' = Ids \cup {id}
        /\ journal'[id] = LigneDe(a)
        /\ \A i \in Ids : journal'[i] = journal[i]
        /\ ecritures' \in [Appelants -> Ecriture]
        /\ ecritures'[a] = Repos(ecritures[a].appel)
        /\ \A b \in Appelants \ {a} : ecritures'[b] = ecritures[b]
    BY <1>1, ValiderAjoute
  <1>5. /\ ecritures'[a].phase = "repos"
        /\ ecritures'[a].vu = {}
    BY <1>4 DEF Repos
  <1>6. TypeOK'
    <2>1. Ids' \subseteq 1..sequence' /\ \A i \in Ids' : journal'[i] \in Ligne
      BY <1>1, <1>3, <1>4 DEF TInv, TypeOK
    <2>2. acquittes' \subseteq Contenus
      BY <1>3 DEF TInv, TypeOK, ValiderEtRendre, ValiderSansReponse
    <2>3. /\ (DOMAIN origines)' \subseteq 1..sequence'
          /\ \A i \in (DOMAIN origines)' :
               origines'[i] \in [contenu : Contenus, base : Nat,
                                  empreinte : Seq(Contenus), sain : BOOLEAN]
      <3>. DEFINE o == Origine(a)
      <3>1. o \in [contenu : Contenus, base : Nat, empreinte : Seq(Contenus), sain : BOOLEAN]
        <4>1. ecritures[a].base \in Nat /\ LigneDe(a).empreinte \in Seq(Contenus)
          BY <1>3 DEF TInv, TypeOK, Ecriture, Ligne
        <4>. QED  BY <1>3, <4>1 DEF Origine
      <3>2. origines' = [j \in DOMAIN origines \cup {id} |->
                           IF j = id THEN o ELSE origines[j]]
        BY <1>1 DEF Valider, Ajout
      <3>. HIDE DEF o
      <3>3. /\ (DOMAIN origines)' = DOMAIN origines \cup {id}
            /\ \A i \in (DOMAIN origines)' : origines'[i] = o \/ origines'[i] = origines[i]
            /\ \A i \in (DOMAIN origines)' : i \notin DOMAIN origines => origines'[i] = o
        BY <3>2
      <3>. QED
        BY <1>1, <1>4, <3>1, <3>3 DEF TInv, TypeOK
    <2>. QED
      BY <1>1, <1>4, <2>1, <2>2, <2>3 DEF TInv, TypeOK
  <1>7. AppelEnCours'
    BY <1>4, <1>5 DEF TInv, AppelEnCours
  <1>8. IdReserve'
    <2>1. \A b \in Appelants \ {a} :
            ecritures[b].phase = "validation" => ecritures[b].id # id
      BY <1>2 DEF TInv, IdReserve
    <2>. QED
      BY <1>1, <1>4, <1>5, <2>1 DEF TInv, IdReserve
  <1>. QED  BY <1>6, <1>7, <1>8 DEF TInv

(* verifyChain writes nothing.                                             *)
LEMMA VerifierTInv ==
  ASSUME TInv, Verifier
  PROVE  TInv'
  <1>1. UNCHANGED <<journal, sequence, ecritures, acquittes, origines, alterations>>
    BY DEF Verifier, LancerVerification, LotSuivant, SignalerRupture, ConclureIntact
  <1>2. verif' \in Verification
    <2>1. verif \in Verification /\ alterations \in Nat /\ <<>> \in Seq(Contenus)
      BY DEF TInv, TypeOK
    <2>2. CASE LancerVerification
      BY <2>1, <2>2 DEF LancerVerification, Verification
    <2>3. CASE LotSuivant
      <3>1. PICK m \in Lot :
              verif' = [verif EXCEPT !.dernier = m, !.precedente = EmpreinteDe(m)]
        BY <2>3 DEF LotSuivant
      <3>2. m \in Ids /\ m \in Nat
        BY DEF Lot, TInv, TypeOK
      <3>3. EmpreinteDe(m) \in Seq(Contenus)
        BY <3>2, EmpreinteTypee DEF TInv
      <3>. QED
        BY <2>1, <3>1, <3>2, <3>3 DEF Verification
    <2>4. CASE SignalerRupture \/ ConclureIntact
      BY <2>1, <2>4 DEF SignalerRupture, ConclureIntact, Verification
    <2>. QED
      BY <2>2, <2>3, <2>4 DEF Verifier
  <1>3. TypeOK'
    BY <1>1, <1>2 DEF TInv, TypeOK, Ids
  <1>4. AppelEnCours' /\ IdReserve'
    BY <1>1 DEF TInv, AppelEnCours, IdReserve, Ids
  <1>. QED  BY <1>3, <1>4 DEF TInv

(* The owner of the table adds no row, and keeps the columns' types.       *)
LEMMA AltererTInv ==
  ASSUME TInv, Alterer
  PROVE  TInv' /\ alterations' = alterations + 1 /\ Ids' \subseteq Ids
  <1>1. /\ alterations' = alterations + 1
        /\ UNCHANGED <<sequence, ecritures, acquittes, origines, verif>>
    BY DEF Alterer, Tronquer, SupprimerLigne, ModifierContenu, ModifierAnnexe,
           RecopierEmpreinte, Alteration
  <1>2. Ids' \subseteq Ids /\ \A i \in Ids' : journal'[i] \in Ligne
    <2>0. \A i \in Ids : journal[i] \in Ligne
      BY DEF TInv, TypeOK
    <2>1. CASE Tronquer
      <3>1. Ids' = {}
        BY <2>1 DEF Tronquer, Ids
      <3>. QED  BY <3>1
    <2>2. ASSUME NEW i \in Ids, SupprimerLigne(i)
          PROVE  Ids' \subseteq Ids /\ \A k \in Ids' : journal'[k] \in Ligne
      BY <2>0, <2>2 DEF SupprimerLigne, Ids
    <2>3. ASSUME NEW i \in Ids, NEW l \in Ligne, journal' = [journal EXCEPT ![i] = l]
          PROVE  Ids' \subseteq Ids /\ \A k \in Ids' : journal'[k] \in Ligne
      BY <2>0, <2>3 DEF Ids
    <2>4. ASSUME NEW i \in Ids, NEW c \in Contenus, ModifierContenu(i, c)
          PROVE  Ids' \subseteq Ids /\ \A k \in Ids' : journal'[k] \in Ligne
      <3>1. [journal[i] EXCEPT !.contenu = c] \in Ligne
        BY <2>0 DEF Ligne
      <3>2. journal' = [journal EXCEPT ![i] = [journal[i] EXCEPT !.contenu = c]]
        BY <2>4 DEF ModifierContenu
      <3>. QED  BY <2>3, <3>1, <3>2
    <2>5. ASSUME NEW i \in Ids, NEW c \in Contenus, ModifierAnnexe(i, c)
          PROVE  Ids' \subseteq Ids /\ \A k \in Ids' : journal'[k] \in Ligne
      <3>1. [journal[i] EXCEPT !.annexe = c] \in Ligne
        BY <2>0 DEF Ligne
      <3>2. journal' = [journal EXCEPT ![i] = [journal[i] EXCEPT !.annexe = c]]
        BY <2>5 DEF ModifierAnnexe
      <3>. QED  BY <2>3, <3>1, <3>2
    <2>6. ASSUME NEW i \in Ids, NEW j \in Ids, RecopierEmpreinte(i, j)
          PROVE  Ids' \subseteq Ids /\ \A k \in Ids' : journal'[k] \in Ligne
      <3>1. EmpreinteDe(j) \in Seq(Contenus)
        BY EmpreinteTypee DEF TInv
      <3>2. [journal[i] EXCEPT !.empreinte = EmpreinteDe(j)] \in Ligne
        BY <2>0, <3>1 DEF Ligne
      <3>3. journal' = [journal EXCEPT
                          ![i] = [journal[i] EXCEPT !.empreinte = EmpreinteDe(j)]]
        BY <2>6 DEF RecopierEmpreinte
      <3>. QED  BY <2>3, <3>2, <3>3
    <2>. QED
      BY <2>1, <2>2, <2>4, <2>5, <2>6 DEF Alterer
  <1>3. TypeOK'
    BY <1>1, <1>2 DEF TInv, TypeOK
  <1>4. AppelEnCours' /\ IdReserve'
    BY <1>1, <1>2 DEF TInv, AppelEnCours, IdReserve
  <1>. QED  BY <1>1, <1>2, <1>3, <1>4 DEF TInv

LEMMA EtapeTInv == TInv /\ [Next]_vars => TInv'
  <1>. SUFFICES ASSUME TInv, [Next]_vars
                PROVE  TInv'
    OBVIOUS
  <1>1. CASE UNCHANGED vars
    BY <1>1 DEF vars, TInv, TypeOK, AppelEnCours, IdReserve, Ids
  <1>2. ASSUME NEW a \in Appelants, Ecrire(a)
        PROVE  TInv'
    BY <1>2, AppelerTInv, LireDerniereTInv, InsererTInv, ValiderTInv, ReprendreTInv
       DEF Ecrire
  <1>. QED
    BY <1>1, <1>2, VerifierTInv, AltererTInv DEF Next

(* Every row, transaction and verification keeps its type, and no append   *)
(* makes more attempts than MAX_TENTATIVES (audit.service.ts, append).     *)
THEOREM TypeCorrect == Spec => []TypeOK
  <1>1. Spec => []TInv
    BY InitTInv, EtapeTInv, PTL DEF Spec
  <1>. QED
    BY <1>1, PTL DEF TInv

-------------------------------------------------------------------------------
(* The order of ids.                                                       *)

(* Only a commit adds a row, and it comes after all the others.            *)
LEMMA EtapeOrdreDesIds ==
  ASSUME TInv, [Next]_vars
  PROVE  \A j \in DOMAIN journal' \ DOMAIN journal : \A i \in DOMAIN journal : i < j
  <1>1. CASE UNCHANGED vars
    BY <1>1 DEF vars
  <1>2. ASSUME NEW a \in Appelants, Valider(a)
        PROVE  \A j \in DOMAIN journal' \ DOMAIN journal : \A i \in DOMAIN journal : i < j
    BY <1>2, ValiderAjoute DEF Ids
  <1>3. ASSUME NEW a \in Appelants,
               \/ Appeler(a) \/ LireDerniere(a) \/ Inserer(a) \/ Rejouer(a)
               \/ Abandonner(a)
        PROVE  journal' = journal
    BY <1>3 DEF Appeler, LireDerniere, Inserer, Rejouer, Abandonner
  <1>4. CASE Verifier
    BY <1>4 DEF Verifier, LancerVerification, LotSuivant, SignalerRupture,
                ConclureIntact
  <1>5. CASE Alterer
    BY <1>5, AltererTInv DEF Ids
  <1>. QED
    BY <1>1, <1>2, <1>3, <1>4, <1>5
       DEF Next, Ecrire, ValiderEtRendre, ValiderSansReponse

(* Entries appear in the order of their ids, whoever writes or alters:     *)
(* nothing is ever committed behind the cursor of verifyChain, although    *)
(* ids are drawn before the commit (audit.service.ts, inserer).            *)
THEOREM OrdreDesIdsGaranti == Spec => OrdreDesIds
  <1>1. Spec => []TInv
    BY InitTInv, EtapeTInv, PTL DEF Spec
  <1>2. TInv /\ [Next]_vars =>
          [\A j \in DOMAIN journal' \ DOMAIN journal :
             \A i \in DOMAIN journal : i < j]_vars
    BY EtapeOrdreDesIds
  <1>. QED
    BY <1>1, <1>2, PTL DEF Spec, OrdreDesIds

-------------------------------------------------------------------------------
(* The integrity of a table nobody has altered.                            *)

(* A transaction chains its row to the greatest row of its snapshot.       *)
BaseLue ==
  \A a \in Appelants :
    EnTransaction(a) =>
      /\ ecritures[a].vu \subseteq Ids
      /\ ecritures[a].base \in ecritures[a].vu \cup {0}
      /\ \A i \in ecritures[a].vu : i <= ecritures[a].base
      /\ ecritures[a].precedente = EmpreinteDe(ecritures[a].base)

(* A request has written nothing of its current call, nor of the next ones.*)
ContenuNouveau ==
  \A a \in Appelants, i \in Ids, n \in 1..MaxAppels :
    journal[i].contenu = <<a, n>> =>
      /\ n <= ecritures[a].appel
      /\ ecritures[a].phase # "repos" => n < ecritures[a].appel

(* verifyChain stands on a row of the table, and carries its fingerprint.  *)
CurseurExact ==
  /\ verif.etat # "rompu"
  /\ verif.etat = "cours" =>
       /\ verif.dernier \in Ids \cup {0}
       /\ verif.precedente = EmpreinteDe(verif.dernier)

(* What holds of a table nobody has altered.                               *)
Integrite ==
  alterations = 0 => BaseLue /\ ContenuNouveau /\ CurseurExact

(* The inductive invariant.                                                *)
IInv == TInv /\ Integrite /\ ChaineUnique /\ UneEntreeParAppel

LEMMA InitIInv == Init => IInv
  <1>. SUFFICES ASSUME Init PROVE IInv
    OBVIOUS
  <1>1. Ids = {} /\ acquittes = {} /\ verif.etat = "repos"
    BY DEF Init, Ids
  <1>2. \A a \in Appelants : ecritures[a].phase = "repos"
    BY DEF Init, Repos
  <1>3. Integrite
    BY <1>1, <1>2 DEF Integrite, BaseLue, ContenuNouveau, CurseurExact, EnTransaction
  <1>4. ChaineUnique /\ UneEntreeParAppel
    BY <1>1 DEF ChaineUnique, UneEntreeParAppel
  <1>. QED  BY <1>3, <1>4, InitTInv DEF IInv

(* The call goes back to its first query, or ends, or begins.              *)
LEMMA RepriseIntegre ==
  ASSUME IInv, NEW a \in Appelants,
         Appeler(a) \/ Rejouer(a) \/ Abandonner(a)
  PROVE  Integrite'
  <1>. SUFFICES ASSUME alterations' = 0
                PROVE  BaseLue' /\ ContenuNouveau' /\ CurseurExact'
    BY DEF Integrite
  <1>1. UNCHANGED <<journal, verif, alterations>> /\ Ids' = Ids
    BY DEF Appeler, Rejouer, Abandonner, Ids
  <1>2. BaseLue /\ ContenuNouveau /\ CurseurExact
    BY <1>1 DEF IInv, Integrite
  <1>3. PICK e \in Ecriture :
          /\ ecritures' = [ecritures EXCEPT ![a] = e]
          /\ e.phase \in {"repos", "lecture"}
          /\ e.appel >= ecritures[a].appel
          /\ e.phase # "repos" => \/ e.appel > ecritures[a].appel
                                  \/ /\ ecritures[a].phase # "repos"
                                     /\ e.appel = ecritures[a].appel
    <2>. DEFINE n == ecritures[a].appel
                k == ecritures[a].essai
    <2>1. n \in 0..MaxAppels /\ k \in 0..EssaisAppend
      BY DEF IInv, TInv, TypeOK, Ecriture
    <2>2. CASE Appeler(a)
      <3>1. n + 1 \in 0..MaxAppels /\ 1 \in 0..EssaisAppend
        BY <2>1, <2>2, ConstantesJournal DEF Appeler
      <3>2. ecritures' = [ecritures EXCEPT ![a] = Essai(n + 1, 1)]
        BY <2>2 DEF Appeler
      <3>3. /\ Essai(n + 1, 1) \in Ecriture
            /\ Essai(n + 1, 1).phase = "lecture"
            /\ Essai(n + 1, 1).appel = n + 1
        BY <3>1, ReposTypee
      <3>4. n + 1 >= n /\ n + 1 > n
        BY <2>1
      <3>. QED  BY <3>2, <3>3, <3>4
    <2>3. CASE ecritures' = [ecritures EXCEPT ![a] = Repos(n)]
      <3>1. /\ Repos(n) \in Ecriture
            /\ Repos(n).phase = "repos"
            /\ Repos(n).appel = n
        BY <2>1, ReposTypee
      <3>2. n >= n
        BY <2>1
      <3>. QED  BY <2>3, <3>1, <3>2
    <2>4. CASE /\ ecritures[a].phase # "repos"
               /\ k < EssaisAppend
               /\ ecritures' = [ecritures EXCEPT ![a] = Essai(n, k + 1)]
      <3>1. k + 1 \in 0..EssaisAppend
        BY <2>1, <2>4, ConstantesJournal
      <3>2. /\ Essai(n, k + 1) \in Ecriture
            /\ Essai(n, k + 1).phase = "lecture"
            /\ Essai(n, k + 1).appel = n
        BY <2>1, <3>1, ReposTypee
      <3>3. n >= n
        BY <2>1
      <3>. QED  BY <2>4, <3>2, <3>3
    <2>. QED
      BY <2>2, <2>3, <2>4 DEF Rejouer, Abandonner, EnTransaction
  <1>4. /\ ecritures'[a] = e
        /\ \A b \in Appelants \ {a} : ecritures'[b] = ecritures[b]
    BY <1>3, EcritureRemplacee DEF IInv, TInv
  <1>5. BaseLue'
    BY <1>1, <1>2, <1>3, <1>4 DEF BaseLue, EnTransaction, EmpreinteDe
  <1>6. ContenuNouveau'
    <2>1. ASSUME NEW i \in Ids, NEW n \in 1..MaxAppels, journal[i].contenu = <<a, n>>
          PROVE  n <= e.appel /\ (e.phase # "repos" => n < e.appel)
      <3>1. /\ n <= ecritures[a].appel
            /\ ecritures[a].phase # "repos" => n < ecritures[a].appel
        BY <1>2, <2>1 DEF ContenuNouveau
      <3>2. n \in Nat /\ e.appel \in Nat /\ ecritures[a].appel \in Nat
        BY ConstantesJournal DEF IInv, TInv, TypeOK, Ecriture
      <3>. QED  BY <1>3, <3>1, <3>2
    <2>. QED
      BY <1>1, <1>2, <1>4, <2>1 DEF ContenuNouveau
  <1>7. CurseurExact'
    BY <1>1, <1>2 DEF CurseurExact, EmpreinteDe
  <1>. QED  BY <1>5, <1>6, <1>7

LEMMA TransactionIntegre ==
  ASSUME IInv, NEW a \in Appelants, LireDerniere(a) \/ Inserer(a)
  PROVE  Integrite'
  <1>. SUFFICES ASSUME alterations' = 0
                PROVE  BaseLue' /\ ContenuNouveau' /\ CurseurExact'
    BY DEF Integrite
  <1>1. UNCHANGED <<journal, verif, alterations>> /\ Ids' = Ids
    BY DEF LireDerniere, Inserer, Ids
  <1>2. BaseLue /\ ContenuNouveau /\ CurseurExact
    BY <1>1 DEF IInv, Integrite
  <1>3. ecritures \in [Appelants -> Ecriture] /\ ecritures[a] \in Ecriture
    BY DEF IInv, TInv, TypeOK
  <1>4. /\ ecritures[a].phase # "repos"
        /\ ecritures'[a].appel = ecritures[a].appel
        /\ \A b \in Appelants \ {a} : ecritures'[b] = ecritures[b]
    <2>1. CASE LireDerniere(a)
      <3>1. PICK i \in Ids \cup {0} :
              ecritures' = [ecritures EXCEPT ![a] =
                 [ecritures[a] EXCEPT !.phase = "insertion", !.vu = Ids,
                                      !.base = i, !.precedente = EmpreinteDe(i)]]
        BY <2>1 DEF LireDerniere
      <3>2. ecritures[a].phase # "repos"
        BY <2>1 DEF LireDerniere
      <3>. QED  BY <1>3, <3>1, <3>2 DEF Ecriture
    <2>2. CASE Inserer(a)
      BY <1>3, <2>2 DEF Inserer, Ecriture
    <2>. QED  BY <2>1, <2>2
  <1>5. BaseLue'
    <2>1. CASE LireDerniere(a)
      <3>1. PICK i \in Ids \cup {0} :
              /\ \A j \in Ids : j <= i
              /\ ecritures'[a] =
                   [ecritures[a] EXCEPT !.phase = "insertion", !.vu = Ids,
                                        !.base = i, !.precedente = EmpreinteDe(i)]
        BY <1>3, <2>1 DEF LireDerniere
      <3>2. /\ ecritures'[a].vu = Ids
            /\ ecritures'[a].base = i
            /\ ecritures'[a].precedente = EmpreinteDe(i)
        BY <1>3, <3>1 DEF Ecriture
      <3>3. ASSUME NEW b \in Appelants, EnTransaction(b)'
            PROVE  /\ ecritures'[b].vu \subseteq Ids'
                   /\ ecritures'[b].base \in ecritures'[b].vu \cup {0}
                   /\ \A k \in ecritures'[b].vu : k <= ecritures'[b].base
                   /\ ecritures'[b].precedente = EmpreinteDe(ecritures[b].base)'
        <4>1. CASE b = a
          <5>1. ecritures'[b].precedente = EmpreinteDe(ecritures[b].base)'
            BY <1>1, <3>2, <4>1 DEF EmpreinteDe
          <5>. QED  BY <1>1, <3>1, <3>2, <4>1, <5>1
        <4>2. CASE b # a
          BY <1>1, <1>2, <1>4, <3>3, <4>2 DEF BaseLue, EnTransaction, EmpreinteDe
        <4>. QED  BY <4>1, <4>2
      <3>. QED
        BY <3>3 DEF BaseLue
    <2>2. CASE Inserer(a)
      <3>1. /\ EnTransaction(a)
            /\ ecritures'[a].vu = ecritures[a].vu
            /\ ecritures'[a].base = ecritures[a].base
            /\ ecritures'[a].precedente = ecritures[a].precedente
        BY <1>3, <2>2 DEF Inserer, Ecriture, EnTransaction
      <3>. QED
        BY <1>1, <1>2, <1>4, <3>1 DEF BaseLue, EnTransaction, EmpreinteDe
    <2>. QED  BY <2>1, <2>2
  <1>6. ContenuNouveau'
    BY <1>1, <1>2, <1>4 DEF ContenuNouveau
  <1>7. CurseurExact'
    BY <1>1, <1>2 DEF CurseurExact, EmpreinteDe
  <1>. QED  BY <1>5, <1>6, <1>7

(* What depends on the table alone.                                        *)
LEMMA TableInchangee ==
  ASSUME ChaineUnique, UneEntreeParAppel, UNCHANGED <<journal, acquittes, alterations>>
  PROVE  ChaineUnique' /\ UneEntreeParAppel'
  BY DEF ChaineUnique, UneEntreeParAppel, Precede, EmpreinteDe, Ids

LEMMA ValiderIntegre ==
  ASSUME IInv, NEW a \in Appelants, ValiderEtRendre(a) \/ ValiderSansReponse(a),
         alterations = 0
  PROVE  Integrite' /\ ChaineUnique' /\ UneEntreeParAppel'
  <1>. DEFINE id == ecritures[a].id
              base == ecritures[a].base
  <1>1. Valider(a) /\ UNCHANGED <<sequence, verif, alterations>>
    BY DEF ValiderEtRendre, ValiderSansReponse
  <1>2. /\ BaseLue /\ ContenuNouveau /\ CurseurExact
        /\ TInv /\ ChaineUnique /\ UneEntreeParAppel
    BY DEF IInv, Integrite
  <1>3. Ids \subseteq Nat /\ sequence \in Nat
    BY <1>2 DEF TInv, TypeOK
  <1>4. /\ id \in Nat /\ id # 0
        /\ id \notin Ids
        /\ \A i \in Ids : i \in ecritures[a].vu /\ i < id
        /\ Ids' = Ids \cup {id}
        /\ journal'[id] = LigneDe(a)
        /\ \A i \in Ids : journal'[i] = journal[i]
        /\ \A b \in Appelants \ {a} : ecritures'[b] = ecritures[b]
    BY <1>1, <1>2, <1>3, ValiderAjoute
  <1>5. /\ ecritures'[a].phase = "repos"
        /\ ecritures'[a].appel = ecritures[a].appel
    <2>1. ecritures'[a] = Repos(ecritures[a].appel)
      BY <1>1, <1>2, ValiderAjoute
    <2>. QED  BY <2>1 DEF Repos
  <1>6. ecritures[a].phase = "validation" /\ ecritures[a].appel \in 1..MaxAppels
    BY <1>1, <1>2 DEF Valider, TInv, AppelEnCours
  <1>7. /\ journal'[id].contenu = Contenu(a)
        /\ journal'[id].precedente = ecritures[a].precedente
        /\ journal'[id].empreinte = Empreinte(ecritures[a].precedente, Contenu(a))
    BY <1>4 DEF LigneDe
  <1>8. /\ base \in Ids \cup {0}
        /\ \A i \in Ids : i <= base
        /\ ecritures[a].precedente = EmpreinteDe(base)
    BY <1>2, <1>4, <1>6 DEF BaseLue, EnTransaction
  <1>9. \A i \in Ids \cup {0} : EmpreinteDe(i)' = EmpreinteDe(i)
    BY <1>3, <1>4 DEF EmpreinteDe
  <1>10. \A i \in Ids : journal[i].contenu # Contenu(a)
    <2>1. SUFFICES ASSUME NEW i \in Ids, journal[i].contenu = Contenu(a)
                   PROVE  FALSE
      OBVIOUS
    <2>2. ecritures[a].appel < ecritures[a].appel
      BY <1>2, <1>6, <2>1 DEF ContenuNouveau, Contenu
    <2>. QED  BY <1>6, <2>2
  <1>11. BaseLue'
    <2>1. SUFFICES ASSUME NEW b \in Appelants, EnTransaction(b)'
                   PROVE  /\ ecritures'[b].vu \subseteq Ids'
                          /\ ecritures'[b].base \in ecritures'[b].vu \cup {0}
                          /\ \A k \in ecritures'[b].vu : k <= ecritures'[b].base
                          /\ ecritures'[b].precedente = EmpreinteDe(ecritures[b].base)'
      BY DEF BaseLue
    <2>2. b # a
      BY <1>5, <2>1 DEF EnTransaction
    <2>3. ecritures'[b] = ecritures[b] /\ EnTransaction(b)
      BY <1>4, <2>1, <2>2 DEF EnTransaction
    <2>4. /\ ecritures[b].vu \subseteq Ids
          /\ ecritures[b].base \in ecritures[b].vu \cup {0}
          /\ \A k \in ecritures[b].vu : k <= ecritures[b].base
          /\ ecritures[b].precedente = EmpreinteDe(ecritures[b].base)
      BY <1>2, <2>3 DEF BaseLue
    <2>5. EmpreinteDe(ecritures[b].base)' = EmpreinteDe(ecritures[b].base)
      <3>1. ecritures[b].base = 0 \/ journal'[ecritures[b].base] = journal[ecritures[b].base]
        BY <1>4, <2>4
      <3>. QED  BY <2>3, <3>1 DEF EmpreinteDe
    <2>. QED  BY <1>4, <2>3, <2>4, <2>5
  <1>12. ContenuNouveau'
    <2>1. SUFFICES ASSUME NEW b \in Appelants, NEW i \in Ids', NEW n \in 1..MaxAppels,
                          journal'[i].contenu = <<b, n>>
                   PROVE  /\ n <= ecritures'[b].appel
                          /\ ecritures'[b].phase # "repos" => n < ecritures'[b].appel
      BY DEF ContenuNouveau
    <2>2. CASE i = id
      <3>1. b = a /\ n = ecritures[a].appel
        BY <1>7, <2>1, <2>2 DEF Contenu
      <3>. QED  BY <1>5, <1>6, <3>1
    <2>3. CASE i \in Ids
      <3>1. /\ n <= ecritures[b].appel
            /\ ecritures[b].phase # "repos" => n < ecritures[b].appel
        BY <1>2, <1>4, <2>1, <2>3 DEF ContenuNouveau
      <3>. QED  BY <1>4, <1>5, <3>1
    <2>. QED  BY <1>4, <2>2, <2>3
  <1>13. CurseurExact'
    <2>1. CASE verif.etat = "cours"
      <3>1. /\ verif.dernier \in Ids \cup {0}
            /\ verif.precedente = EmpreinteDe(verif.dernier)
        BY <1>2, <2>1 DEF CurseurExact
      <3>2. EmpreinteDe(verif.dernier)' = EmpreinteDe(verif.dernier)
        <4>1. verif.dernier = 0 \/ journal'[verif.dernier] = journal[verif.dernier]
          BY <1>4, <3>1
        <4>. QED  BY <1>1, <4>1 DEF EmpreinteDe
      <3>. QED  BY <1>1, <1>2, <1>4, <3>1, <3>2 DEF CurseurExact
    <2>2. CASE verif.etat # "cours"
      BY <1>1, <1>2, <2>2 DEF CurseurExact
    <2>. QED  BY <2>1, <2>2
  <1>14. ChaineUnique'
    <2>1. SUFFICES ASSUME NEW j \in Ids'
                   PROVE  \E i \in Ids' \cup {0} :
                            /\ Precede(i, j, Ids' \cup {0})
                            /\ journal'[j].precedente = EmpreinteDe(i)'
                            /\ journal'[j].empreinte =
                                 Empreinte(EmpreinteDe(i)', journal'[j].contenu)
      BY DEF ChaineUnique, Precede, Empreinte
    <2>2. CASE j = id
      <3>1. Precede(base, id, Ids' \cup {0})
        <4>1. base \in Ids' \cup {0} /\ base \in Nat /\ base < id
          <5>1. id > 0
            BY <1>4
          <5>2. CASE base = 0
            BY <5>1, <5>2
          <5>3. CASE base \in Ids
            BY <1>3, <1>4, <5>3
          <5>. QED  BY <1>8, <5>2, <5>3
        <4>2. ASSUME NEW k \in Ids' \cup {0}, k < id
              PROVE  k <= base
          <5>1. k \in Ids \/ k = 0
            BY <1>4, <4>2
          <5>. QED  BY <1>8, <4>1, <5>1
        <4>. QED  BY <4>1, <4>2 DEF Precede
      <3>. QED  BY <1>4, <1>7, <1>8, <1>9, <2>2, <3>1
    <2>3. CASE j \in Ids
      <3>1. PICK i \in Ids \cup {0} :
              /\ Precede(i, j, Ids \cup {0})
              /\ journal[j].precedente = EmpreinteDe(i)
              /\ journal[j].empreinte = Empreinte(EmpreinteDe(i), journal[j].contenu)
        BY <1>2, <2>3 DEF ChaineUnique
      <3>2. Precede(i, j, Ids' \cup {0})
        <4>1. /\ i \in Ids' \cup {0} /\ i < j
              /\ \A k \in Ids \cup {0} : k < j => k <= i
          BY <1>4, <3>1 DEF Precede
        <4>2. j < id /\ j \in Nat
          BY <1>3, <1>4, <2>3
        <4>3. ASSUME NEW k \in Ids' \cup {0}, k < j
              PROVE  k <= i
          <5>1. k # id
            BY <1>4, <4>2, <4>3
          <5>. QED  BY <1>4, <4>1, <4>3, <5>1
        <4>. QED  BY <4>1, <4>3 DEF Precede
      <3>. QED  BY <1>4, <1>9, <2>3, <3>1, <3>2
    <2>. QED  BY <1>4, <2>2, <2>3
  <1>15. UneEntreeParAppel'
    <2>1. \A i, j \in Ids : journal[i].contenu = journal[j].contenu => i = j
      BY <1>2 DEF UneEntreeParAppel
    <2>2. \A i, j \in Ids' : journal'[i].contenu = journal'[j].contenu => i = j
      BY <1>4, <1>7, <1>10, <2>1
    <2>3. \A c \in acquittes : \E i \in Ids : journal[i].contenu = c
      BY <1>2 DEF UneEntreeParAppel
    <2>4. \A c \in acquittes' : c \in acquittes \/ c = Contenu(a)
      BY DEF ValiderEtRendre, ValiderSansReponse
    <2>5. \A c \in acquittes' : \E i \in Ids' : journal'[i].contenu = c
      BY <1>4, <1>7, <2>3, <2>4
    <2>. QED  BY <2>2, <2>5 DEF UneEntreeParAppel
  <1>. QED  BY <1>11, <1>12, <1>13, <1>14, <1>15 DEF Integrite

(* A batch has no gap: what lies between the cursor and one of its rows is *)
(* in it.                                                                  *)
LEMMA LotSansTrou ==
  ASSUME TypeOK, NEW j \in Lot, NEW i \in Ids, i > verif.dernier, i < j
  PROVE  i \in Lot
  <1>. DEFINE suite == {k \in Ids : k > verif.dernier}
              A == {k \in suite : k < i}
              B == {k \in suite : k < j}
  <1>1. Ids \subseteq 1..sequence /\ sequence \in Nat /\ Ids \subseteq Nat
    BY DEF TypeOK
  <1>2. j \in suite /\ Cardinality(B) < LotVerification
    BY DEF Lot
  <1>3. IsFiniteSet(B)
    <2>1. IsFiniteSet(1..sequence)
      BY <1>1, FS_Interval
    <2>2. B \in SUBSET (1..sequence)
      BY <1>1
    <2>. QED  BY <2>1, <2>2, FS_Subset
  <1>4. A \in SUBSET B
    <2>1. i \in Nat /\ j \in Nat
      BY <1>1, <1>2
    <2>2. ASSUME NEW k \in A
          PROVE  k \in B
      <3>1. k \in suite /\ k \in Nat /\ k < i
        BY <1>1
      <3>2. k < j
        BY <2>1, <3>1
      <3>. QED  BY <3>1, <3>2
    <2>. QED  BY <2>2
  <1>5. /\ IsFiniteSet(A)
        /\ Cardinality(A) <= Cardinality(B)
    BY <1>3, <1>4, FS_Subset
  <1>6. Cardinality(A) \in Nat /\ Cardinality(B) \in Nat
    BY <1>3, <1>5, FS_CardinalityType
  <1>7. Cardinality(A) < LotVerification
    BY <1>2, <1>5, <1>6, ConstantesJournal
  <1>. QED  BY <1>7 DEF Lot

(* In an unaltered table every row of a batch passes.                      *)
LEMMA LotValide ==
  ASSUME IInv, alterations = 0, verif.etat = "cours", NEW j \in Lot
  PROVE  MaillonValide(j)
  <1>1. /\ TypeOK /\ ChaineUnique /\ CurseurExact
        /\ Ids \subseteq Nat /\ verif.dernier \in Nat
    BY DEF IInv, Integrite, TInv, TypeOK, Verification
  <1>2. j \in Ids /\ j \in Nat /\ verif.dernier < j /\ Lot \subseteq Ids
    BY <1>1 DEF Lot
  <1>3. /\ verif.dernier \in Ids \cup {0}
        /\ verif.precedente = EmpreinteDe(verif.dernier)
    BY <1>1 DEF CurseurExact
  <1>4. PICK i \in Ids \cup {0} :
          /\ Precede(i, j, Ids \cup {0})
          /\ journal[j].precedente = EmpreinteDe(i)
          /\ journal[j].empreinte = Empreinte(EmpreinteDe(i), journal[j].contenu)
    BY <1>1, <1>2 DEF ChaineUnique
  <1>5. /\ i \in Nat /\ i < j
        /\ \A k \in Ids \cup {0} : k < j => k <= i
    BY <1>1, <1>4 DEF Precede
  <1>6. verif.dernier <= i
    BY <1>2, <1>3, <1>5
  <1>7. i \in Lot \cup {verif.dernier}
    <2>1. CASE i > verif.dernier
      <3>1. i \in Ids
        BY <1>1, <1>4, <2>1
      <3>. QED  BY <1>1, <1>5, <2>1, <3>1, LotSansTrou
    <2>2. CASE i = verif.dernier
      BY <2>2
    <2>. QED  BY <1>1, <1>5, <1>6, <2>1, <2>2
  <1>8. Precede(i, j, Lot \cup {verif.dernier})
    BY <1>2, <1>3, <1>5, <1>7 DEF Precede
  <1>9. (IF i = verif.dernier THEN verif.precedente ELSE EmpreinteDe(i)) = EmpreinteDe(i)
    BY <1>3
  <1>. QED  BY <1>4, <1>7, <1>8, <1>9 DEF MaillonValide

LEMMA VerifierIntegre ==
  ASSUME IInv, Verifier
  PROVE  Integrite'
  <1>. SUFFICES ASSUME alterations' = 0
                PROVE  BaseLue' /\ ContenuNouveau' /\ CurseurExact'
    BY DEF Integrite
  <1>1. UNCHANGED <<journal, ecritures, alterations>>
    BY DEF Verifier, LancerVerification, LotSuivant, SignalerRupture, ConclureIntact
  <1>2. alterations = 0 /\ BaseLue /\ ContenuNouveau /\ CurseurExact
    BY <1>1 DEF IInv, Integrite
  <1>3. BaseLue' /\ ContenuNouveau'
    BY <1>1, <1>2 DEF BaseLue, ContenuNouveau, EnTransaction, EmpreinteDe, Ids
  <1>4. CurseurExact'
    <2>0. verif \in Verification
      BY DEF IInv, TInv, TypeOK
    <2>1. CASE LancerVerification
      <3>1. verif'.etat = "cours" /\ verif'.dernier = 0 /\ verif'.precedente = <<>>
        BY <2>1 DEF LancerVerification
      <3>. QED  BY <3>1 DEF CurseurExact, EmpreinteDe
    <2>2. CASE LotSuivant
      <3>1. PICK m \in Lot :
              verif' = [verif EXCEPT !.dernier = m, !.precedente = EmpreinteDe(m)]
        BY <2>2 DEF LotSuivant
      <3>2. /\ verif'.etat = verif.etat
            /\ verif'.dernier = m
            /\ verif'.precedente = EmpreinteDe(m)
        BY <2>0, <3>1 DEF Verification
      <3>3. m \in Ids
        BY DEF Lot
      <3>. QED  BY <1>1, <1>2, <3>2, <3>3 DEF CurseurExact, EmpreinteDe, Ids
    <2>3. CASE SignalerRupture
      BY <1>2, <2>3, LotValide DEF SignalerRupture
    <2>4. CASE ConclureIntact
      <3>1. verif'.etat = "intact"
        BY <2>0, <2>4 DEF ConclureIntact, Verification
      <3>. QED  BY <3>1 DEF CurseurExact
    <2>. QED
      BY <2>1, <2>2, <2>3, <2>4 DEF Verifier
  <1>. QED  BY <1>3, <1>4

LEMMA EtapeIInv == IInv /\ [Next]_vars => IInv'
  <1>. SUFFICES ASSUME IInv, [Next]_vars
                PROVE  IInv'
    OBVIOUS
  <1>0. TInv' /\ alterations \in Nat
    BY EtapeTInv DEF IInv, TInv, TypeOK
  <1>1. CASE UNCHANGED vars
    <2>1. ChaineUnique' /\ UneEntreeParAppel'
      BY <1>1, TableInchangee DEF IInv, vars
    <2>2. Integrite'
      BY <1>1 DEF IInv, Integrite, BaseLue, ContenuNouveau, CurseurExact,
                  EnTransaction, EmpreinteDe, Ids, vars
    <2>. QED  BY <1>0, <2>1, <2>2 DEF IInv
  <1>2. ASSUME NEW a \in Appelants, Appeler(a) \/ Rejouer(a) \/ Abandonner(a)
        PROVE  IInv'
    <2>1. UNCHANGED <<journal, acquittes, alterations>>
      BY <1>2 DEF Appeler, Rejouer, Abandonner
    <2>. QED
      BY <1>0, <1>2, <2>1, RepriseIntegre, TableInchangee DEF IInv
  <1>3. ASSUME NEW a \in Appelants, LireDerniere(a) \/ Inserer(a)
        PROVE  IInv'
    <2>1. UNCHANGED <<journal, acquittes, alterations>>
      BY <1>3 DEF LireDerniere, Inserer
    <2>. QED
      BY <1>0, <1>3, <2>1, TransactionIntegre, TableInchangee DEF IInv
  <1>4. ASSUME NEW a \in Appelants, ValiderEtRendre(a) \/ ValiderSansReponse(a)
        PROVE  IInv'
    <2>1. alterations' = alterations
      BY <1>4 DEF ValiderEtRendre, ValiderSansReponse
    <2>2. CASE alterations = 0
      BY <1>0, <1>4, <2>2, ValiderIntegre DEF IInv
    <2>3. CASE alterations # 0
      BY <1>0, <2>1, <2>3 DEF IInv, Integrite, ChaineUnique, UneEntreeParAppel
    <2>. QED  BY <2>2, <2>3
  <1>5. CASE Verifier
    <2>1. UNCHANGED <<journal, acquittes, alterations>>
      BY <1>5 DEF Verifier, LancerVerification, LotSuivant, SignalerRupture,
                  ConclureIntact
    <2>. QED
      BY <1>0, <1>5, <2>1, VerifierIntegre, TableInchangee DEF IInv
  <1>6. CASE Alterer
    <2>1. alterations' # 0
      BY <1>0, <1>6, AltererTInv DEF IInv
    <2>. QED
      BY <1>0, <2>1 DEF IInv, Integrite, ChaineUnique, UneEntreeParAppel
  <1>. QED
    BY <1>1, <1>2, <1>3, <1>4, <1>5, <1>6 DEF Next, Ecrire

(* The inductive invariant holds in every behaviour of the journal.        *)
THEOREM InvariantInductif == Spec => []IInv
  BY InitIInv, EtapeIInv, PTL DEF Spec

(* Concurrent appends never produce two sibling links (audit.service.ts,   *)
(* append): in an unaltered table each row is chained to the row before it.*)
THEOREM ChaineToujoursUnique == Spec => []ChaineUnique
  <1>1. IInv => ChaineUnique
    BY DEF IInv
  <1>. QED  BY <1>1, InvariantInductif, PTL

(* verifyChain, in batches of any size and with appends between them,      *)
(* reports no break in a journal nobody altered.                           *)
THEOREM JamaisDeFausseAlerte == Spec => []SansFausseAlerte
  <1>1. IInv => SansFausseAlerte
    BY DEF IInv, Integrite, CurseurExact, SansFausseAlerte
  <1>. QED  BY <1>1, InvariantInductif, PTL

(* Replays and lost answers leave at most one entry per call of append,    *)
(* and a call that returned an id has left its entry.                      *)
THEOREM AppelJamaisDouble == Spec => []UneEntreeParAppel
  <1>1. IInv => UneEntreeParAppel
    BY DEF IInv
  <1>. QED  BY <1>1, InvariantInductif, PTL

-------------------------------------------------------------------------------
(* What a verdict proves, whatever the owner of the table does.            *)

(* The rows written before the first alteration, and their fingerprints as *)
(* their authors computed them.                                            *)
Sains == {x \in DOMAIN origines : origines[x].sain}

EmpreinteOrigine(x) == IF x = 0 THEN <<>> ELSE origines[x].empreinte

(* They are one chain, of contents written once.                           *)
ChaineDOrigine ==
  /\ \A x \in Sains :
       /\ Precede(origines[x].base, x, Sains \cup {0})
       /\ origines[x].empreinte =
            Empreinte(EmpreinteOrigine(origines[x].base), origines[x].contenu)
  /\ \A x, y \in Sains : origines[x].contenu = origines[y].contenu => x = y

(* The table keeps their links, puts nothing between them, and has nothing *)
(* else as long as it is unaltered.                                        *)
TableEtOrigine ==
  /\ Ids \subseteq DOMAIN origines
  /\ \A i, j \in Ids : i < j /\ j \in Sains => i \in Sains
  /\ \A i \in Ids : i \in Sains => journal[i].precedente = EmpreinteOrigine(origines[i].base)
  /\ alterations = 0 =>
       /\ DOMAIN origines = Ids /\ Sains = Ids
       /\ \A i \in Ids : /\ journal[i].contenu = origines[i].contenu
                        /\ journal[i].empreinte = origines[i].empreinte

(* An id not yet committed has never been committed.                       *)
IdNeuf ==
  \A a \in Appelants :
    ecritures[a].phase = "validation" => ecritures[a].id \notin DOMAIN origines

(* Row i follows the row before it, and its fingerprint says so.           *)
MaillonLu(i) ==
  \E h \in Ids \cup {0} :
    /\ Precede(h, i, Ids \cup {0})
    /\ journal[i].precedente = EmpreinteDe(h)
    /\ journal[i].empreinte = Empreinte(EmpreinteDe(h), journal[i].contenu)

(* What verifyChain has read, unless it was altered under it.              *)
Parcouru ==
  /\ verif.debut <= alterations
  /\ verif.etat \in {"cours", "intact"} /\ verif.debut = alterations =>
       /\ verif.dernier \in Ids \cup {0}
       /\ verif.precedente = EmpreinteDe(verif.dernier)
       /\ \A i \in Ids : i <= verif.dernier => MaillonLu(i)

VInv == IInv /\ ChaineDOrigine /\ TableEtOrigine /\ IdNeuf /\ Parcouru

LEMMA InitVInv == Init => VInv
  <1>. SUFFICES ASSUME Init PROVE VInv
    OBVIOUS
  <1>1. /\ Ids = {} /\ DOMAIN origines = {} /\ Sains = {}
        /\ verif.etat = "repos" /\ verif.debut = 0 /\ alterations = 0
    BY DEF Init, Ids, Sains
  <1>2. \A a \in Appelants : ecritures[a].phase = "repos"
    BY DEF Init, Repos
  <1>3. ChaineDOrigine /\ TableEtOrigine
    BY <1>1 DEF ChaineDOrigine, TableEtOrigine
  <1>4. IdNeuf /\ Parcouru
    BY <1>1, <1>2 DEF IdNeuf, Parcouru
  <1>. QED
    BY <1>3, <1>4, InitIInv DEF VInv

(* A step that changes neither the table nor the verification.             *)
LEMMA OrigineInchangee ==
  ASSUME VInv, UNCHANGED <<journal, origines, alterations>>
  PROVE  ChaineDOrigine' /\ TableEtOrigine' /\ (UNCHANGED verif => Parcouru')
  <1>1. Ids' = Ids /\ Sains' = Sains
    BY DEF Ids, Sains
  <1>2. ChaineDOrigine'
    BY <1>1 DEF VInv, ChaineDOrigine, EmpreinteOrigine
  <1>3. TableEtOrigine'
    BY <1>1 DEF VInv, TableEtOrigine, EmpreinteOrigine
  <1>4. UNCHANGED verif => Parcouru'
    BY <1>1 DEF VInv, Parcouru, MaillonLu, EmpreinteDe
  <1>. QED
    BY <1>2, <1>3, <1>4

(* A writer that moves within its call.                                    *)
LEMMA EcrireVInv ==
  ASSUME VInv, IInv', NEW a \in Appelants,
         \/ Appeler(a) \/ LireDerniere(a) \/ Inserer(a) \/ Rejouer(a) \/ Abandonner(a)
  PROVE  VInv'
  <1>1. UNCHANGED <<journal, origines, alterations, verif>>
    BY DEF Appeler, LireDerniere, Inserer, Rejouer, Abandonner
  <1>2. /\ TypeOK /\ ecritures \in [Appelants -> Ecriture]
        /\ DOMAIN origines \subseteq 1..sequence /\ sequence \in Nat
    BY DEF VInv, IInv, TInv, TypeOK
  <1>3. /\ \A b \in Appelants \ {a} : ecritures'[b] = ecritures[b]
        /\ ecritures'[a].phase = "validation" => ecritures'[a].id = sequence + 1
    <2>1. CASE Appeler(a) \/ Rejouer(a) \/ Abandonner(a)
      <3>1. PICK n \in 0..MaxAppels, k \in 0..EssaisAppend :
              ecritures' = [ecritures EXCEPT ![a] = Repos(n)]
              \/ ecritures' = [ecritures EXCEPT ![a] = Essai(n, k)]
        <4>1. /\ ecritures[a].appel \in 0..MaxAppels
              /\ ecritures[a].essai \in 0..EssaisAppend
              /\ 0 \in 0..EssaisAppend /\ 1 \in 0..EssaisAppend
          BY <1>2, ConstantesJournal DEF Ecriture
        <4>2. CASE Appeler(a)
          <5>1. ecritures[a].appel + 1 \in 0..MaxAppels
            BY <4>1, <4>2, ConstantesJournal DEF Appeler
          <5>. QED
            BY <4>1, <4>2, <5>1 DEF Appeler
        <4>3. CASE Rejouer(a)
          <5>1. ecritures[a].essai < EssaisAppend => ecritures[a].essai + 1 \in 0..EssaisAppend
            BY <4>1, ConstantesJournal
          <5>. QED
            BY <4>1, <4>3, <5>1 DEF Rejouer
        <4>4. CASE Abandonner(a)
          BY <4>1, <4>4 DEF Abandonner
        <4>. QED
          BY <2>1, <4>2, <4>3, <4>4
      <3>2. Repos(n).phase = "repos" /\ Essai(n, k).phase = "lecture"
        BY ReposTypee
      <3>. QED
        BY <1>2, <3>1, <3>2
    <2>2. CASE LireDerniere(a)
      BY <1>2, <2>2 DEF LireDerniere, Ecriture
    <2>3. CASE Inserer(a)
      BY <1>2, <2>3 DEF Inserer, Ecriture
    <2>. QED
      BY <2>1, <2>2, <2>3
  <1>4. IdNeuf'
    <2>1. sequence + 1 \notin 1..sequence
      BY <1>2
    <2>. QED
      BY <1>1, <1>2, <1>3, <2>1 DEF VInv, IdNeuf
  <1>. QED
    BY <1>1, <1>4, OrigineInchangee DEF VInv

(* A commit.  In an unaltered table the row follows the last one, as its   *)
(* author read it; afterwards it is no part of the chain of origin.        *)
LEMMA ValiderVInv ==
  ASSUME VInv, IInv', NEW a \in Appelants, ValiderEtRendre(a) \/ ValiderSansReponse(a)
  PROVE  VInv'
  <1>. DEFINE id == ecritures[a].id
              base == ecritures[a].base
  <1>0. TInv /\ TypeOK /\ Valider(a) /\ UNCHANGED <<sequence, verif, alterations>>
    BY DEF VInv, IInv, TInv, ValiderEtRendre, ValiderSansReponse
  <1>1. /\ id \in 1..sequence /\ id \notin Ids
        /\ \A i \in Ids : i \in ecritures[a].vu /\ i < id
        /\ Ids' = Ids \cup {id}
        /\ journal'[id] = LigneDe(a)
        /\ \A i \in Ids : journal'[i] = journal[i]
        /\ ecritures'[a] = Repos(ecritures[a].appel)
        /\ \A b \in Appelants \ {a} : ecritures'[b] = ecritures[b]
    BY <1>0, ValiderAjoute
  <1>2. ecritures[a].phase = "validation" /\ id \notin DOMAIN origines /\ id # 0
    BY <1>0, <1>1 DEF Valider, VInv, IdNeuf
  <1>3. /\ (DOMAIN origines)' = DOMAIN origines \cup {id}
        /\ origines'[id] = Origine(a)
        /\ \A x \in DOMAIN origines : origines'[x] = origines[x]
    <2>1. origines' = [x \in DOMAIN origines \cup {id} |->
                         IF x = id THEN Origine(a) ELSE origines[x]]
      BY <1>0 DEF Valider, Ajout
    <2>. QED
      BY <1>2, <2>1
  <1>4. /\ Origine(a).contenu = Contenu(a) /\ Origine(a).base = base
        /\ Origine(a).empreinte = Empreinte(ecritures[a].precedente, Contenu(a))
        /\ Origine(a).sain = (alterations = 0)
        /\ LigneDe(a).contenu = Contenu(a) /\ LigneDe(a).precedente = ecritures[a].precedente
        /\ LigneDe(a).empreinte = Empreinte(ecritures[a].precedente, Contenu(a))
    BY DEF Origine, LigneDe
  <1>5. /\ Sains' = IF alterations = 0 THEN Sains \cup {id} ELSE Sains
        /\ Sains \subseteq DOMAIN origines /\ id \notin Sains
    BY <1>2, <1>3, <1>4 DEF Sains
  <1>6. IdNeuf'
    <2>1. ecritures'[a].phase = "repos"
      BY <1>1 DEF Repos
    <2>2. \A b \in Appelants \ {a} : ecritures[b].phase = "validation" => ecritures[b].id # id
      BY <1>0, <1>2 DEF TInv, IdReserve
    <2>. QED
      BY <1>1, <1>3, <2>1, <2>2 DEF VInv, IdNeuf
  <1>. HIDE DEF id, base
  <1>7. /\ Ids \subseteq Nat /\ id \in Nat
        /\ \A i \in Ids \cup {0} : i \in Nat /\ i < id
    <2>1. Ids \subseteq 1..sequence /\ sequence \in Nat
      BY <1>0 DEF TypeOK
    <2>2. id \in 1..sequence /\ \A i \in Ids : i < id
      BY <1>1
    <2>. HIDE DEF Ids
    <2>. QED
      BY <2>1, <2>2
  <1>8. \A x \in DOMAIN origines \cup {0} : EmpreinteOrigine(x)' = EmpreinteOrigine(x)
    BY <1>3 DEF EmpreinteOrigine
  <1>9. Parcouru'
    <2>1. SUFFICES ASSUME verif.etat \in {"cours", "intact"}, verif.debut = alterations
                   PROVE  /\ verif.dernier \in Ids' \cup {0}
                          /\ verif.precedente = EmpreinteDe(verif.dernier)'
                          /\ \A i \in Ids' : i <= verif.dernier => MaillonLu(i)'
      BY <1>0 DEF VInv, Parcouru
    <2>2. /\ verif.dernier \in Ids \cup {0}
          /\ verif.precedente = EmpreinteDe(verif.dernier)
          /\ \A i \in Ids : i <= verif.dernier => MaillonLu(i)
      BY <2>1 DEF VInv, Parcouru
    <2>3. \A h \in Ids \cup {0} : EmpreinteDe(h)' = EmpreinteDe(h)
      BY <1>1 DEF EmpreinteDe
    <2>4. ASSUME NEW i \in Ids', i <= verif.dernier PROVE MaillonLu(i)'
      <3>1. i \in Ids /\ i < id
        <4>1. verif.dernier \in Nat /\ verif.dernier < id
          BY <1>7, <2>2
        <4>2. i # id
          BY <1>7, <2>4, <4>1
        <4>. QED
          BY <1>1, <1>7, <4>2
      <3>2. PICK h \in Ids \cup {0} :
              /\ Precede(h, i, Ids \cup {0})
              /\ journal[i].precedente = EmpreinteDe(h)
              /\ journal[i].empreinte = Empreinte(EmpreinteDe(h), journal[i].contenu)
        BY <2>2, <2>4, <3>1 DEF MaillonLu
      <3>3. Precede(h, i, Ids' \cup {0})
        BY <1>1, <1>7, <3>1, <3>2 DEF Precede
      <3>. QED
        BY <1>1, <2>3, <3>1, <3>2, <3>3 DEF MaillonLu
    <2>5. EmpreinteDe(verif.dernier)' = EmpreinteDe(verif.dernier)
      BY <1>0, <2>2, <2>3 DEF EmpreinteDe
    <2>. QED
      BY <1>1, <2>2, <2>4, <2>5
  <1>10. CASE alterations # 0
    <2>1. Sains' = Sains
      BY <1>5, <1>10
    <2>2. ChaineDOrigine'
      <3>1. \A x \in Sains : origines[x].base \in DOMAIN origines \cup {0} /\ origines'[x] = origines[x]
        BY <1>3, <1>5 DEF VInv, ChaineDOrigine, Precede
      <3>. QED
        BY <1>8, <2>1, <3>1, <1>5 DEF VInv, ChaineDOrigine
    <2>3. TableEtOrigine'
      <3>1. \A x \in Sains : origines[x].base \in DOMAIN origines \cup {0} /\ origines'[x] = origines[x]
        BY <1>3, <1>5 DEF VInv, ChaineDOrigine, Precede
      <3>2. \A i \in Ids' : i \in Sains => i \in Ids /\ journal'[i] = journal[i]
        BY <1>1, <1>5
      <3>3. ASSUME NEW i \in Ids', NEW j \in Ids', i < j, j \in Sains PROVE i \in Sains
        <4>1. j \in Ids /\ j < id
          BY <1>1, <1>5, <1>7, <3>3
        <4>2. i # id
          <5>1. i < j /\ j < id /\ j \in Nat
            BY <1>7, <3>3, <4>1
          <5>. QED
            BY <1>7, <5>1
        <4>. QED
          BY <1>1, <3>3, <4>1, <4>2 DEF VInv, TableEtOrigine
      <3>. QED
        BY <1>0, <1>1, <1>3, <1>8, <1>10, <2>1, <3>1, <3>2, <3>3 DEF VInv, TableEtOrigine
    <2>. QED
      BY <1>6, <1>9, <2>2, <2>3 DEF VInv
  <1>11. CASE alterations = 0
    <2>1. /\ Sains = Ids /\ DOMAIN origines = Ids /\ Sains' = Ids'
          /\ \A i \in Ids : /\ journal[i].contenu = origines[i].contenu
                           /\ journal[i].empreinte = origines[i].empreinte
      BY <1>1, <1>5, <1>11 DEF VInv, TableEtOrigine
    <2>2. /\ base \in Ids \cup {0} /\ \A i \in Ids : i <= base
          /\ ecritures[a].precedente = EmpreinteDe(base)
      <3>1. EnTransaction(a) /\ BaseLue
        BY <1>2, <1>11 DEF EnTransaction, VInv, IInv, Integrite
      <3>. QED
        BY <1>1, <3>1 DEF BaseLue, base
    <2>3. ecritures[a].precedente = EmpreinteOrigine(base)
      BY <2>1, <2>2 DEF EmpreinteDe, EmpreinteOrigine
    <2>4. Precede(base, id, Ids' \cup {0})
      <3>1. ASSUME NEW k \in Ids' \cup {0}, k < id PROVE k <= base
        <4>1. k # id
          BY <1>7, <3>1
        <4>2. k \in Ids \/ k = 0
          BY <1>1, <4>1
        <4>3. base \in Nat
          BY <1>7, <2>2
        <4>4. CASE k = 0
          BY <4>3, <4>4
        <4>. QED
          BY <2>2, <4>2, <4>4
      <3>. QED
        BY <1>1, <1>7, <2>2, <3>1 DEF Precede
    <2>5. ASSUME NEW x \in Ids
          PROVE  /\ Precede(origines[x].base, x, Ids' \cup {0})
                 /\ origines[x].base \in Ids \cup {0}
                 /\ origines[x].empreinte =
                      Empreinte(EmpreinteOrigine(origines[x].base), origines[x].contenu)
                 /\ origines[x].contenu # Contenu(a)
      <3>1. /\ Precede(origines[x].base, x, Ids \cup {0})
            /\ origines[x].empreinte =
                 Empreinte(EmpreinteOrigine(origines[x].base), origines[x].contenu)
        BY <2>1 DEF VInv, ChaineDOrigine
      <3>2. Precede(origines[x].base, x, Ids' \cup {0})
        BY <1>1, <1>7, <3>1 DEF Precede
      <3>3. journal[x].contenu # Contenu(a)
        <4>1. /\ ecritures[a].appel \in 1..MaxAppels /\ ecritures[a].phase # "repos"
              /\ ContenuNouveau
          BY <1>0, <1>2, <1>11 DEF TInv, AppelEnCours, VInv, IInv, Integrite
        <4>2. ~ (ecritures[a].appel < ecritures[a].appel)
          BY <4>1
        <4>. QED
          BY <4>1, <4>2 DEF ContenuNouveau, Contenu
      <3>. QED
        BY <2>1, <3>1, <3>2, <3>3 DEF Precede
    <2>6. ChaineDOrigine'
      <3>1. ASSUME NEW x \in Ids'
            PROVE  /\ Precede(origines[x].base, x, Ids \cup {0})'
                   /\ (origines[x].empreinte =
                         Empreinte(EmpreinteOrigine(origines[x].base), origines[x].contenu))'
        <4>1. CASE x = id
          <5>1. (EmpreinteOrigine(origines[x].base))' = EmpreinteOrigine(base)
            BY <1>3, <1>4, <2>1, <2>2, <4>1 DEF EmpreinteOrigine
          <5>. QED
            BY <1>3, <1>4, <2>3, <2>4, <4>1, <5>1 DEF Empreinte, Precede
        <4>2. CASE x \in Ids
          <5>1. origines'[x] = origines[x]
            BY <1>3, <2>1, <4>2
          <5>2. (EmpreinteOrigine(origines[x].base))' = EmpreinteOrigine(origines[x].base)
            BY <1>3, <2>1, <2>5, <4>2, <5>1 DEF EmpreinteOrigine
          <5>. QED
            BY <2>5, <4>2, <5>1, <5>2 DEF Empreinte, Precede
        <4>. QED
          BY <1>1, <4>1, <4>2
      <3>2. ASSUME NEW x \in Ids', NEW y \in Ids', origines'[x].contenu = origines'[y].contenu
            PROVE  x = y
        <4>1. \A u, v \in Ids : origines[u].contenu = origines[v].contenu => u = v
          BY <2>1 DEF VInv, ChaineDOrigine
        <4>. QED
          BY <1>1, <1>3, <1>4, <2>1, <2>5, <3>2, <4>1
      <3>. QED
        BY <2>1, <3>1, <3>2 DEF ChaineDOrigine, Empreinte
    <2>7. TableEtOrigine'
      <3>1. ASSUME NEW i \in Ids'
            PROVE  /\ (journal[i].precedente = EmpreinteOrigine(origines[i].base))'
                   /\ journal'[i].contenu = origines'[i].contenu
                   /\ journal'[i].empreinte = origines'[i].empreinte
        <4>1. CASE i = id
          <5>1. (EmpreinteOrigine(origines[i].base))' = EmpreinteOrigine(base)
            BY <1>3, <1>4, <2>1, <2>2, <4>1 DEF EmpreinteOrigine
          <5>. QED
            BY <1>1, <1>3, <1>4, <2>3, <4>1, <5>1
        <4>2. CASE i \in Ids
          <5>1. journal[i].precedente = EmpreinteOrigine(origines[i].base)
            BY <2>1, <4>2 DEF VInv, TableEtOrigine
          <5>2. origines'[i] = origines[i]
            BY <1>3, <2>1, <4>2
          <5>3. (EmpreinteOrigine(origines[i].base))' = EmpreinteOrigine(origines[i].base)
            BY <1>3, <2>1, <2>5, <4>2, <5>2 DEF EmpreinteOrigine
          <5>. QED
            BY <1>1, <2>1, <4>2, <5>1, <5>2, <5>3
        <4>. QED
          BY <1>1, <4>1, <4>2
      <3>2. (DOMAIN origines)' = Ids'
        BY <1>1, <1>3, <2>1
      <3>. QED
        BY <2>1, <3>1, <3>2 DEF TableEtOrigine
    <2>. QED
      BY <1>6, <1>9, <2>6, <2>7 DEF VInv
  <1>. QED
    BY <1>10, <1>11

(* A row of a batch that passes follows the row before it in the table.    *)
LEMMA LotLu ==
  ASSUME TypeOK, verif.dernier \in Ids \cup {0}, verif.precedente = EmpreinteDe(verif.dernier),
         NEW j \in Lot, MaillonValide(j)
  PROVE  MaillonLu(j)
  <1>1. /\ Ids \subseteq 1..sequence /\ sequence \in Nat
        /\ \A k \in Ids \cup {0} : k \in Nat
        /\ verif.dernier \in Nat
    <2>1. /\ Ids \subseteq 1..sequence /\ sequence \in Nat
          /\ verif.dernier \in Nat
      BY DEF TypeOK, Verification
    <2>. QED
      BY <2>1
  <1>2. j \in Ids /\ verif.dernier < j /\ j \in Nat /\ Lot \subseteq Ids
    BY <1>1 DEF Lot
  <1>3. PICK h \in Lot \cup {verif.dernier} :
          /\ Precede(h, j, Lot \cup {verif.dernier})
          /\ LET p == IF h = verif.dernier THEN verif.precedente ELSE EmpreinteDe(h)
             IN  /\ journal[j].precedente = p
                 /\ journal[j].empreinte = Empreinte(p, journal[j].contenu)
    BY DEF MaillonValide
  <1>4. /\ h \in Ids \cup {0} /\ h \in Nat /\ h < j /\ verif.dernier <= h
        /\ \A k \in Lot : k < j => k <= h
    BY <1>1, <1>2, <1>3 DEF Precede
  <1>5. Precede(h, j, Ids \cup {0})
    <2>1. ASSUME NEW k \in Ids \cup {0}, k < j PROVE k <= h
      <3>1. CASE k > verif.dernier
        <4>1. k \in Ids
          BY <1>1, <3>1
        <4>. QED
          BY <1>4, <2>1, <3>1, <4>1, LotSansTrou
      <3>2. CASE k <= verif.dernier
        BY <1>1, <1>4, <3>2
      <3>. QED
        BY <1>1, <3>1, <3>2
    <2>. QED
      BY <1>4, <2>1 DEF Precede
  <1>. QED
    BY <1>3, <1>4, <1>5 DEF MaillonLu

LEMMA VerifierVInv ==
  ASSUME VInv, IInv', Verifier
  PROVE  VInv'
  <1>1. UNCHANGED <<journal, sequence, ecritures, origines, alterations>>
    BY DEF Verifier, LancerVerification, LotSuivant, SignalerRupture, ConclureIntact
  <1>2. /\ TypeOK /\ verif \in Verification /\ alterations \in Nat
        /\ Ids \subseteq 1..sequence /\ sequence \in Nat /\ Parcouru
    BY DEF VInv, IInv, TInv, TypeOK
  <1>3. IdNeuf' /\ ChaineDOrigine' /\ TableEtOrigine'
    BY <1>1, OrigineInchangee DEF VInv, IdNeuf
  <1>4. /\ Ids' = Ids
        /\ \A i : EmpreinteDe(i)' = EmpreinteDe(i) /\ (MaillonLu(i)' <=> MaillonLu(i))
    BY <1>1 DEF Ids, EmpreinteDe, MaillonLu
  <1>5. Parcouru'
    <2>1. CASE LancerVerification
      <3>1. /\ verif'.etat = "cours" /\ verif'.dernier = 0 /\ verif'.precedente = <<>>
            /\ verif'.debut = alterations
        BY <2>1 DEF LancerVerification
      <3>2. \A i \in Ids : ~ (i <= 0)
        BY <1>2
      <3>. QED
        BY <1>1, <1>2, <1>4, <3>1, <3>2 DEF Parcouru, EmpreinteDe
    <2>2. CASE LotSuivant
      <3>1. PICK m \in Lot : /\ \A j \in Lot : j <= m
                             /\ verif' = [verif EXCEPT !.dernier = m, !.precedente = EmpreinteDe(m)]
        BY <2>2 DEF LotSuivant
      <3>2. /\ verif'.etat = verif.etat /\ verif.etat = "cours" /\ verif'.debut = verif.debut
            /\ verif'.dernier = m /\ verif'.precedente = EmpreinteDe(m)
            /\ m \in Ids /\ m \in Nat
        <4>1. m \in Ids /\ verif.etat = "cours"
          BY <2>2 DEF LotSuivant, Lot
        <4>2. m \in Nat
          BY <1>2, <4>1
        <4>. QED
          BY <1>2, <3>1, <4>1, <4>2 DEF Verification
      <3>3. SUFFICES ASSUME verif.debut = alterations, NEW i \in Ids, i <= m
                     PROVE  MaillonLu(i)
        BY <1>1, <1>2, <1>4, <3>2 DEF Parcouru, EmpreinteDe
      <3>4. /\ verif.dernier \in Ids \cup {0}
            /\ verif.precedente = EmpreinteDe(verif.dernier)
            /\ i <= verif.dernier => MaillonLu(i)
            /\ i \in Nat /\ verif.dernier \in Nat
        BY <1>2, <3>2, <3>3 DEF Parcouru, Verification
      <3>5. CASE i > verif.dernier
        <4>1. i \in Lot
          <5>1. CASE i < m
            BY <1>2, <3>1, <3>5, <5>1, LotSansTrou
          <5>. QED
            BY <3>1, <3>2, <3>3, <3>4, <5>1
        <4>. QED
          BY <1>2, <2>2, <3>4, <4>1, LotLu DEF LotSuivant
      <3>. QED
        BY <3>4, <3>5
    <2>3. CASE SignalerRupture
      BY <1>1, <1>2, <2>3 DEF SignalerRupture, Parcouru, Verification
    <2>4. CASE ConclureIntact
      <3>1. /\ verif'.etat = "intact" /\ verif.etat = "cours" /\ verif'.debut = verif.debut
            /\ verif'.dernier = verif.dernier /\ verif'.precedente = verif.precedente
        BY <1>2, <2>4 DEF ConclureIntact, Verification
      <3>. QED
        BY <1>1, <1>2, <1>4, <3>1 DEF Parcouru, EmpreinteDe
    <2>. QED
      BY <2>1, <2>2, <2>3, <2>4 DEF Verifier
  <1>. QED
    BY <1>3, <1>5 DEF VInv

(* The owner of the table: the links stay, the verification is stale.      *)
LEMMA AltererVInv ==
  ASSUME VInv, IInv', Alterer
  PROVE  VInv'
  <1>1. /\ UNCHANGED <<sequence, ecritures, origines, verif>>
        /\ alterations' = alterations + 1 /\ Ids' \subseteq Ids
        /\ alterations \in Nat /\ verif.debut \in Nat
        /\ \A i \in Ids : journal[i] \in Ligne
    BY AltererTInv DEF VInv, IInv, TInv, TypeOK, Verification, Alterer, Tronquer, SupprimerLigne,
           ModifierContenu, ModifierAnnexe, RecopierEmpreinte, Alteration
  <1>2. \A i \in Ids' : journal'[i].precedente = journal[i].precedente
    <2>1. CASE Tronquer
      BY <2>1 DEF Tronquer, Ids
    <2>2. ASSUME NEW i \in Ids, SupprimerLigne(i)
          PROVE  \A k \in Ids' : journal'[k].precedente = journal[k].precedente
      BY <2>2 DEF SupprimerLigne, Ids
    <2>3. ASSUME NEW i \in Ids, NEW l, l.precedente = journal[i].precedente,
                 journal' = [journal EXCEPT ![i] = l]
          PROVE  \A k \in Ids' : journal'[k].precedente = journal[k].precedente
      BY <2>3 DEF Ids
    <2>4. ASSUME NEW i \in Ids, NEW c \in Contenus, ModifierContenu(i, c)
          PROVE  \A k \in Ids' : journal'[k].precedente = journal[k].precedente
      <3>1. [journal[i] EXCEPT !.contenu = c].precedente = journal[i].precedente
        BY <1>1 DEF Ligne
      <3>2. journal' = [journal EXCEPT ![i] = [journal[i] EXCEPT !.contenu = c]]
        BY <2>4 DEF ModifierContenu
      <3>. QED
        BY <2>3, <3>1, <3>2
    <2>5. ASSUME NEW i \in Ids, NEW c \in Contenus, ModifierAnnexe(i, c)
          PROVE  \A k \in Ids' : journal'[k].precedente = journal[k].precedente
      <3>1. [journal[i] EXCEPT !.annexe = c].precedente = journal[i].precedente
        BY <1>1 DEF Ligne
      <3>2. journal' = [journal EXCEPT ![i] = [journal[i] EXCEPT !.annexe = c]]
        BY <2>5 DEF ModifierAnnexe
      <3>. QED
        BY <2>3, <3>1, <3>2
    <2>6. ASSUME NEW i \in Ids, NEW j \in Ids, RecopierEmpreinte(i, j)
          PROVE  \A k \in Ids' : journal'[k].precedente = journal[k].precedente
      <3>1. [journal[i] EXCEPT !.empreinte = EmpreinteDe(j)].precedente = journal[i].precedente
        BY <1>1 DEF Ligne
      <3>2. journal' = [journal EXCEPT ![i] = [journal[i] EXCEPT !.empreinte = EmpreinteDe(j)]]
        BY <2>6 DEF RecopierEmpreinte
      <3>. QED
        BY <2>3, <3>1, <3>2
    <2>. QED
      BY <2>1, <2>2, <2>4, <2>5, <2>6 DEF Alterer
  <1>3. Sains' = Sains
    BY <1>1 DEF Sains
  <1>4. ChaineDOrigine' /\ IdNeuf'
    BY <1>1, <1>3 DEF VInv, ChaineDOrigine, IdNeuf, EmpreinteOrigine
  <1>5. TableEtOrigine'
    BY <1>1, <1>2, <1>3 DEF VInv, TableEtOrigine, EmpreinteOrigine
  <1>6. Parcouru'
    BY <1>1 DEF VInv, Parcouru
  <1>. QED
    BY <1>4, <1>5, <1>6 DEF VInv

LEMMA EtapeVInv == VInv /\ [Next]_vars => VInv'
  <1>. SUFFICES ASSUME VInv, [Next]_vars
                PROVE  VInv'
    OBVIOUS
  <1>0. IInv'
    BY EtapeIInv DEF VInv
  <1>1. CASE UNCHANGED vars
    BY <1>0, <1>1, OrigineInchangee DEF VInv, IdNeuf, vars
  <1>2. ASSUME NEW a \in Appelants, Ecrire(a)
        PROVE  VInv'
    BY <1>0, <1>2, EcrireVInv, ValiderVInv DEF Ecrire
  <1>. QED
    BY <1>0, <1>1, <1>2, VerifierVInv, AltererVInv DEF Next

(* Two sequences that end with an element each are the same only if both   *)
(* parts are.                                                              *)
LEMMA DerniereDistincte ==
  ASSUME NEW S, NEW f \in Seq(S), NEW g \in Seq(S), NEW u \in S, NEW v \in S,
         Append(f, u) = Append(g, v)
  PROVE  f = g /\ u = v
  <1>1. /\ Len(Append(f, u)) = Len(f) + 1 /\ Len(Append(g, v)) = Len(g) + 1
        /\ Append(f, u)[Len(f) + 1] = u /\ Append(g, v)[Len(g) + 1] = v
        /\ Len(f) \in Nat /\ Len(g) \in Nat
    BY AppendProperties
  <1>2. Len(f) = Len(g) /\ u = v
    BY <1>1
  <1>3. ASSUME NEW k \in 1..Len(f) PROVE f[k] = g[k]
    <2>1. Append(f, u)[k] = f[k] /\ Append(g, v)[k] = g[k]
      BY <1>2, AppendProperties
    <2>. QED
      BY <2>1
  <1>. QED
    BY <1>2, <1>3, SeqEqual

(* Two rows of origin with the same fingerprint are the same row.          *)
LEMMA EmpreinteUnique ==
  ASSUME VInv, NEW x \in Sains \cup {0}, NEW y \in Sains \cup {0},
         EmpreinteOrigine(x) = EmpreinteOrigine(y)
  PROVE  x = y
  <1>1. ASSUME NEW z \in Sains
        PROVE  \E f \in Seq(Contenus) : EmpreinteOrigine(z) = Append(f, origines[z].contenu)
               /\ origines[z].contenu \in Contenus
    <2>1. /\ z # 0 /\ origines[z].contenu \in Contenus
          /\ origines[z].empreinte = Append(EmpreinteOrigine(origines[z].base), origines[z].contenu)
          /\ origines[z].base \in Sains \cup {0}
      BY DEF VInv, IInv, TInv, TypeOK, Sains, ChaineDOrigine, Empreinte, Precede
    <2>2. EmpreinteOrigine(origines[z].base) \in Seq(Contenus)
      BY <2>1 DEF EmpreinteOrigine, VInv, IInv, TInv, TypeOK, Sains
    <2>. QED
      BY <2>1, <2>2 DEF EmpreinteOrigine
  <1>2. ASSUME NEW z \in Sains PROVE EmpreinteOrigine(z) # <<>>
    BY <1>1
  <1>3. CASE x = 0 \/ y = 0
    BY <1>2, <1>3 DEF EmpreinteOrigine
  <1>4. CASE x \in Sains /\ y \in Sains
    <2>1. PICK f \in Seq(Contenus) : EmpreinteOrigine(x) = Append(f, origines[x].contenu)
      BY <1>1, <1>4
    <2>2. PICK g \in Seq(Contenus) : EmpreinteOrigine(y) = Append(g, origines[y].contenu)
      BY <1>1, <1>4
    <2>3. origines[x].contenu \in Contenus /\ origines[y].contenu \in Contenus
      BY <1>1, <1>4
    <2>4. origines[x].contenu = origines[y].contenu
      <3>1. Append(f, origines[x].contenu) = Append(g, origines[y].contenu)
        BY <2>1, <2>2
      <3>. QED
        BY <2>3, <3>1, DerniereDistincte
    <2>. QED
      BY <1>4, <2>4 DEF VInv, ChaineDOrigine
  <1>. QED
    BY <1>3, <1>4

(* A row bearing the fingerprint its author computed, in what was read:    *)
(* the rows before it bear theirs.  Otherwise the greatest that does not   *)
(* is followed by one that does; the fingerprint this one was computed     *)
(* from is stored in the greatest, and belongs to a row of origin; having  *)
(* the same predecessor, the two are the same.                             *)
LEMMA EmpreintesIntactes ==
  ASSUME VInv, VerdictIntact, NEW j \in Ids, j <= verif.dernier, Temoin(j),
         NEW i \in Ids, i <= j
  PROVE  i \in Sains /\ journal[i].empreinte = origines[i].empreinte
  <1>1. /\ Ids \subseteq 1..sequence /\ sequence \in Nat /\ Ids \subseteq Nat
        /\ Ids \subseteq DOMAIN origines /\ verif.dernier \in Nat
    <2>1. /\ Ids \subseteq 1..sequence /\ sequence \in Nat
          /\ Ids \subseteq DOMAIN origines /\ verif.dernier \in Nat
      BY DEF VInv, IInv, TInv, TypeOK, TableEtOrigine, Verification
    <2>. QED
      BY <2>1
  <1>2. j \in Sains /\ journal[j].empreinte = origines[j].empreinte
    BY <1>1 DEF Temoin, Sains
  <1>3. ASSUME NEW k \in Ids, k <= j
        PROVE  /\ k \in Sains /\ MaillonLu(k) /\ k # 0
               /\ journal[k].precedente = EmpreinteOrigine(origines[k].base)
    <2>1. k \in Sains
      <3>1. k < j \/ k = j
        BY <1>1, <1>3
      <3>. QED
        BY <1>2, <3>1 DEF VInv, TableEtOrigine
    <2>2. k <= verif.dernier /\ k # 0
      BY <1>1, <1>3
    <2>3. MaillonLu(k)
      BY <2>2 DEF VInv, Parcouru, VerdictIntact
    <2>. QED
      BY <2>1, <2>2, <2>3 DEF VInv, TableEtOrigine
  <1>. DEFINE Faux == {k \in Ids : k <= j /\ journal[k].empreinte # origines[k].empreinte}
  <1>4. SUFFICES ASSUME Faux # {} PROVE FALSE
    BY <1>3
  <1>5. PICK g \in Faux : \A k \in Faux : k <= g
    <2>0. Ids \subseteq 0..sequence /\ Faux \subseteq Ids
      <3>1. 1..sequence \subseteq 0..sequence
        BY <1>1
      <3>. QED
        BY <1>1, <3>1
    <2>1. Faux \in SUBSET (0..sequence)
      <3>. HIDE DEF Faux
      <3>. QED
        BY <2>0
    <2>. HIDE DEF Faux
    <2>. QED
      BY <1>1, <1>4, <2>1, NatMaximal
  <1>6. PICK n \in Ids : /\ g < n /\ n <= j
                        /\ \A k \in Ids : g < k /\ k <= j => n <= k
    <2>. DEFINE Suite == {k \in Ids : g < k /\ k <= j}
    <2>1. g # j /\ g < j
      BY <1>1, <1>2
    <2>2. Suite \in SUBSET Nat /\ Suite # {}
      <3>1. Suite \subseteq Ids
        OBVIOUS
      <3>2. j \in Suite
        <4>1. j <= j
          BY <1>1
        <4>. QED
          BY <2>1, <4>1
      <3>. HIDE DEF Suite
      <3>. QED
        BY <1>1, <3>1, <3>2
    <2>3. PICK n \in Suite : \A k \in Suite : n <= k
      <3>. HIDE DEF Suite
      <3>. QED
        BY <2>2, NatMinimal
    <2>. QED
      BY <2>3
  <1>7. g \in Ids /\ g <= j /\ g \in Nat /\ n \in Nat /\ j \in Nat
    BY <1>1
  <1>8. journal[n].precedente = journal[g].empreinte
    <2>1. PICK h \in Ids \cup {0} : Precede(h, n, Ids \cup {0}) /\ journal[n].precedente = EmpreinteDe(h)
      BY <1>3, <1>6 DEF MaillonLu
    <2>2. g <= h /\ h < n /\ h \in Nat
      BY <1>1, <1>6, <1>7, <2>1 DEF Precede
    <2>3. h \in Ids /\ h # 0 /\ h <= j
      BY <1>3, <1>6, <1>7, <2>1, <2>2
    <2>4. h = g
      BY <1>6, <1>7, <2>2, <2>3
    <2>. QED
      BY <2>1, <2>3, <2>4 DEF EmpreinteDe
  <1>. DEFINE y == origines[n].base
              b == origines[g].base
  <1>9. EmpreinteOrigine(y) = Append(EmpreinteOrigine(b), journal[g].contenu)
    <2>1. journal[g].precedente = EmpreinteOrigine(b) /\ MaillonLu(g)
      BY <1>3, <1>7
    <2>2. journal[g].empreinte = Append(journal[g].precedente, journal[g].contenu)
      BY <2>1 DEF MaillonLu, Empreinte
    <2>3. journal[n].precedente = EmpreinteOrigine(y)
      BY <1>3, <1>6
    <2>. QED
      BY <1>8, <2>1, <2>2, <2>3
  <1>10. /\ n \in Sains /\ g \in Sains /\ y \in Sains \cup {0} /\ b \in Sains \cup {0}
         /\ Precede(b, g, Sains \cup {0})
         /\ Sains \subseteq 1..sequence
    BY <1>3, <1>6, <1>7 DEF VInv, ChaineDOrigine, Precede, IInv, TInv, TypeOK, Sains
  <1>. HIDE DEF y, b
  <1>11. \A x \in Sains \cup {0} : EmpreinteOrigine(x) \in Seq(Contenus)
    BY DEF EmpreinteOrigine, VInv, IInv, TInv, TypeOK, Sains
  <1>12. journal[g].contenu \in Contenus
    BY <1>7 DEF VInv, IInv, TInv, TypeOK, Ligne
  <1>13. y \in Sains
    BY <1>9, <1>10, <1>11, <1>12 DEF EmpreinteOrigine
  <1>. DEFINE z == origines[y].base
  <1>14. /\ EmpreinteOrigine(y) = Append(EmpreinteOrigine(z), origines[y].contenu)
         /\ z \in Sains \cup {0} /\ origines[y].contenu \in Contenus
         /\ Precede(z, y, Sains \cup {0})
    <2>1. y # 0
      BY <1>1, <1>10, <1>13
    <2>. QED
      BY <1>13, <2>1 DEF VInv, ChaineDOrigine, Precede, Empreinte, EmpreinteOrigine, IInv, TInv, TypeOK, Sains
  <1>. HIDE DEF z
  <1>15. EmpreinteOrigine(b) = EmpreinteOrigine(z)
    <2>1. EmpreinteOrigine(b) \in Seq(Contenus) /\ EmpreinteOrigine(z) \in Seq(Contenus)
      BY <1>10, <1>11, <1>14
    <2>2. Append(EmpreinteOrigine(b), journal[g].contenu)
            = Append(EmpreinteOrigine(z), origines[y].contenu)
      BY <1>9, <1>14
    <2>. QED
      BY <1>12, <1>14, <2>1, <2>2, DerniereDistincte
  <1>16. b = z
    BY <1>10, <1>14, <1>15, EmpreinteUnique
  <1>17. y = g
    <2>1. y \in Nat /\ g \in Nat /\ b \in Nat
      BY <1>1, <1>7, <1>10, <1>13
    <2>. QED
      BY <1>10, <1>13, <1>14, <1>16, <2>1 DEF Precede
  <1>18. journal[g].empreinte = origines[g].empreinte
    <2>1. journal[n].precedente = EmpreinteOrigine(g) /\ g # 0
      BY <1>3, <1>6, <1>7, <1>17 DEF y
    <2>. QED
      BY <1>8, <2>1 DEF EmpreinteOrigine
  <1>. QED
    BY <1>18

(* The verdict "intact" (audit.service.ts, verifyChain): a row that bears  *)
(* the fingerprint its author computed before any alteration vouches for   *)
(* everything up to it, content and place, whatever the owner of the table *)
(* did to it and however many appends and batches there were.              *)
THEOREM VerdictFiableGaranti == Spec => []VerdictFiable
  <1>1. Spec => []VInv
    BY InitVInv, EtapeVInv, PTL DEF Spec
  <1>2. ASSUME VInv, VerdictIntact, NEW j \in Ids, j <= verif.dernier, Temoin(j),
               NEW i \in Ids, i <= j
        PROVE  journal[i].contenu = origines[i].contenu /\ Precede(origines[i].base, i, Ids \cup {0})
    <2>1. /\ Ids \subseteq 1..sequence /\ sequence \in Nat /\ Ids \subseteq Nat
          /\ verif.dernier \in Nat /\ \A k \in Ids \cup {0} : k \in Nat
      <3>1. Ids \subseteq 1..sequence /\ sequence \in Nat /\ verif.dernier \in Nat
        BY <1>2 DEF VInv, IInv, TInv, TypeOK, Verification
      <3>. QED
        BY <3>1
    <2>2. \A k \in Ids : k <= j => k \in Sains /\ journal[k].empreinte = origines[k].empreinte
      BY <1>2, EmpreintesIntactes
    <2>3. i <= verif.dernier
      BY <1>2, <2>1
    <2>4. PICK h \in Ids \cup {0} :
            /\ Precede(h, i, Ids \cup {0})
            /\ journal[i].precedente = EmpreinteDe(h)
            /\ journal[i].empreinte = Append(EmpreinteDe(h), journal[i].contenu)
      BY <1>2, <2>3 DEF VInv, Parcouru, VerdictIntact, MaillonLu, Empreinte
    <2>5. h < i /\ h \in Nat
      BY <2>1, <2>4 DEF Precede
    <2>6. h \in Sains \cup {0} /\ EmpreinteDe(h) = EmpreinteOrigine(h)
      BY <1>2, <2>1, <2>2, <2>5 DEF EmpreinteDe, EmpreinteOrigine
    <2>. DEFINE b == origines[i].base
    <2>7. /\ i \in Sains /\ b \in Sains \cup {0}
          /\ journal[i].precedente = EmpreinteOrigine(b)
          /\ journal[i].empreinte = Append(EmpreinteOrigine(b), origines[i].contenu)
      BY <1>2, <2>2 DEF VInv, ChaineDOrigine, TableEtOrigine, Precede, Empreinte
    <2>8. b = h
      BY <1>2, <2>4, <2>6, <2>7, EmpreinteUnique
    <2>9. journal[i].contenu = origines[i].contenu
      <3>1. /\ EmpreinteOrigine(b) \in Seq(Contenus) /\ journal[i].contenu \in Contenus
            /\ origines[i].contenu \in Contenus
        BY <1>2, <2>7 DEF EmpreinteOrigine, VInv, IInv, TInv, TypeOK, Ligne, Sains
      <3>. QED
        BY <2>4, <2>6, <2>7, <2>8, <3>1, DerniereDistincte
    <2>. QED
      BY <2>4, <2>8, <2>9
  <1>3. VInv => VerdictFiable
    BY <1>2 DEF VerdictFiable
  <1>. QED
    BY <1>1, <1>3, PTL

================================================================================
