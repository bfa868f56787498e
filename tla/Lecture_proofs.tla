--------------------------- MODULE Lecture_proofs ----------------------------
(***************************************************************************)
(* What the extraction of a text guarantees for every document: however    *)
(* long its text, however many pages and words, whatever its characters.   *)
(*                                                                         *)
(* The argument.  What an extraction gives is right whatever the document  *)
(* (Extraction_proofs: ExtraireBon, PageDeLaSource, TrancheFidele and, for *)
(* the boxes, BoitesExtraites).  A pass of the repair keeps some           *)
(* positions, in order (GarderExtrait); the repair is two such passes.     *)
(***************************************************************************)
EXTENDS Lecture, Extraction_proofs, FiniteSetTheorems, TLAPS

-----------------------------------------------------------------------------
(* reparer *)

\* pos lists the positions of s that are kept, r is what is left of it.
Extrait(s, G, r, pos) ==
  /\ pos = EnOrdre(Len(s), G)
  /\ DOMAIN pos = 1..Len(pos) /\ Len(pos) \in Nat /\ Len(pos) <= Len(s)
  /\ \A p \in 1..Len(pos) : pos[p] \in 1..Len(s) /\ pos[p] \in G
  /\ \A p, q \in 1..Len(pos) : p < q => pos[p] < pos[q]
  /\ \A i \in G : \E p \in 1..Len(pos) : pos[p] = i
  /\ r.texte = [p \in 1..Len(pos) |-> s[pos[p]]]
  /\ r.texte \in Seq(Car) /\ Len(r.texte) = Len(pos) /\ DOMAIN r.texte = 1..Len(pos)
  /\ \A p \in 1..Len(pos) : r.texte[p] = s[pos[p]]
  /\ r.table \in Seq(Int) /\ Len(r.table) = Len(pos) + 1
  /\ \A p \in 1..Len(pos) : r.table[p] = pos[p] - 1
  /\ r.table[Len(pos) + 1] = Len(s)
  /\ (\E i \in 1..Len(s) : i \notin G) => Len(r.texte) < Len(s)
  /\ (\A i \in 1..Len(s) : i \in G) => r.texte = s /\ \A p \in 1..Len(pos) : pos[p] = p

\* Garder keeps exactly the positions it is given, in order, with their offsets.
LEMMA GarderExtrait ==
  ASSUME NEW s \in Seq(Car), NEW G \in SUBSET (1..Len(s))
  PROVE  \E pos : Extrait(s, G, Garder(s, G), pos)
  <1>. DEFINE n == Len(s)
              pos == EnOrdre(n, G)
              r == Garder(s, G)
              o == [p \in DOMAIN pos |-> pos[p] - 1]
  <1>1. n \in Nat /\ DOMAIN s = 1..n /\ (\A i \in 1..n : s[i] \in Car) /\ G \intersect (1..n) = G
    <2>1. G \intersect (1..n) = G
      OBVIOUS
    <2>. QED
      BY <2>1, ElementsDe
  <1>2. /\ pos \in Seq(G)
        /\ \A j, k \in DOMAIN pos : j < k => pos[j] < pos[k]
        /\ \A i \in G : \E k \in DOMAIN pos : pos[k] = i
        /\ Len(pos) <= n
        /\ (\E i \in 1..n : i \notin G) => Len(pos) < n
        /\ (\A i \in 1..n : i \in G) => pos = [i \in 1..n |-> i]
    <2>. HIDE DEF n
    <2>1. /\ pos \in Seq(G \intersect (1..n))
          /\ \A j, k \in DOMAIN pos : j < k => pos[j] < pos[k]
          /\ \A i \in G \intersect (1..n) : \E k \in DOMAIN pos : pos[k] = i
      BY <1>1, EnOrdreBon
    <2>2. /\ Len(pos) <= n
          /\ (\E i \in 1..n : i \notin G) => Len(pos) < n
          /\ (\A i \in 1..n : i \in G) => pos = [i \in 1..n |-> i]
      BY <1>1, EnOrdreBon
    <2>. HIDE DEF pos
    <2>. QED
      BY <1>1, <2>1, <2>2
  <1>3. /\ r.texte = [p \in DOMAIN pos |-> s[pos[p]]]
        /\ r.table = o \o <<n>>
    BY DEF Garder, TexteNormalise
  <1>. HIDE DEF pos, r
  <1>4. DOMAIN pos = 1..Len(pos) /\ Len(pos) \in Nat /\ \A p \in 1..Len(pos) : pos[p] \in G
    BY <1>2, ElementsDe
  <1>5. \A p \in 1..Len(pos) : pos[p] \in 1..n /\ s[pos[p]] \in Car
    BY <1>1, <1>4
  <1>6. /\ r.texte \in Seq(Car) /\ Len(r.texte) = Len(pos) /\ DOMAIN r.texte = 1..Len(pos)
        /\ \A p \in 1..Len(pos) : r.texte[p] = s[pos[p]]
    BY <1>3, <1>4, <1>5
  <1>7. o \in Seq(Int) /\ Len(o) = Len(pos) /\ \A p \in 1..Len(pos) : o[p] = pos[p] - 1
    BY <1>4, <1>5
  <1>. HIDE DEF o
  <1>8. /\ r.table \in Seq(Int) /\ Len(r.table) = Len(pos) + 1 /\ r.table[Len(pos) + 1] = n
        /\ \A p \in 1..Len(pos) : r.table[p] = pos[p] - 1
    <2>1. n \in Int
      BY <1>1
    <2>. HIDE DEF n
    <2>2. /\ o \o <<n>> \in Seq(Int) /\ Len(o \o <<n>>) = Len(o) + 1 /\ (o \o <<n>>)[Len(o) + 1] = n
          /\ \A p \in 1..Len(o) : (o \o <<n>>)[p] = o[p]
      BY <1>7, <2>1, UnALaFin
    <2>. QED
      BY <1>3, <1>7, <2>2
  <1>9. ASSUME \A i \in 1..n : i \in G
        PROVE  r.texte = s /\ \A p \in 1..Len(pos) : pos[p] = p
    <2>1. pos = [i \in 1..n |-> i]
      BY <1>2, <1>9
    <2>2. Len(pos) = n /\ \A p \in 1..n : pos[p] = p
      BY <1>1, <1>4, <2>1
    <2>3. \A p \in 1..n : r.texte[p] = s[p]
      BY <1>6, <2>2
    <2>4. r.texte = s
      <3>. HIDE DEF n
      <3>. QED
        BY <1>6, <2>2, <2>3, MemesCaracteres DEF n
    <2>. QED
      BY <2>2, <2>4
  <1>10. Extrait(s, G, r, pos)
    <2>1. pos = EnOrdre(Len(s), G)
      BY DEF pos
    <2>2. r.texte = [p \in 1..Len(pos) |-> s[pos[p]]]
      BY <1>3, <1>4
    <2>3. /\ DOMAIN pos = 1..Len(pos) /\ Len(pos) \in Nat /\ Len(pos) <= Len(s)
          /\ \A p \in 1..Len(pos) : pos[p] \in 1..Len(s) /\ pos[p] \in G
          /\ \A p, q \in 1..Len(pos) : p < q => pos[p] < pos[q]
          /\ \A i \in G : \E p \in 1..Len(pos) : pos[p] = i
      BY <1>2, <1>4, <1>5
    <2>4. (\E i \in 1..Len(s) : i \notin G) => Len(r.texte) < Len(s)
      BY <1>2, <1>6
    <2>. QED
      BY <1>6, <1>8, <1>9, <2>1, <2>2, <2>3, <2>4 DEF Extrait
  <1>. QED
    BY <1>10 DEF r

Gardes1(s) == {i \in DOMAIN s : ~Parasite(s, i)}
Gardes2(s) == {i \in DOMAIN s : ~Supprime(s, i)}

\* The second pass: what Garder leaves, with the points.
LEMMA RestituerBon ==
  ASSUME NEW s \in Seq(Car), NEW pos, Extrait(s, Gardes2(s), Garder(s, Gardes2(s)), pos)
  PROVE  LET r == restituer_point_de_domaine(s)
         IN /\ r.table = Garder(s, Gardes2(s)).table
            /\ r.texte = [p \in 1..Len(pos) |-> IF DevientPoint(s, pos[p]) THEN "." ELSE s[pos[p]]]
  <1>. DEFINE g == Garder(s, Gardes2(s))
              r == restituer_point_de_domaine(s)
  <1>1. r = [g EXCEPT !.texte =
               [p \in DOMAIN @ |-> IF DevientPoint(s, g.table[p] + 1) THEN "." ELSE @[p]]]
    BY DEF restituer_point_de_domaine, Gardes2
  <1>2. g = [texte |-> g.texte, table |-> g.table]
    BY DEF Garder, TexteNormalise
  <1>. HIDE DEF g, r
  <1>3. /\ r.table = g.table
        /\ r.texte = [p \in DOMAIN g.texte |->
                        IF DevientPoint(s, g.table[p] + 1) THEN "." ELSE g.texte[p]]
    BY <1>1, <1>2
  <1>4. DOMAIN g.texte = 1..Len(pos)
        /\ \A p \in 1..Len(pos) : g.texte[p] = s[pos[p]] /\ g.table[p] + 1 = pos[p]
    <2>1. \A p \in 1..Len(pos) : pos[p] \in 1..Len(s) /\ g.table[p] = pos[p] - 1
      BY DEF Extrait, g
    <2>2. \A p \in 1..Len(pos) : g.table[p] + 1 = pos[p]
      BY <2>1
    <2>. QED
      BY <2>2 DEF Extrait, g
  <1>. QED
    BY <1>3, <1>4 DEF g, r

\* What reparer does: two lists of positions, the second one in what the first leaves.
DeuxPasses(s, u, pos1, pos2) ==
  /\ Extrait(s, Gardes1(s), Garder(s, Gardes1(s)), pos1)
  /\ u = Garder(s, Gardes1(s)).texte /\ u \in Seq(Car)
  /\ Extrait(u, Gardes2(u), Garder(u, Gardes2(u)), pos2)
  /\ reparer(s).texte =
       [p \in 1..Len(pos2) |-> IF DevientPoint(u, pos2[p]) THEN "." ELSE u[pos2[p]]]
  /\ \A p \in 1..Len(pos2) : reparer(s).table[p] = pos1[pos2[p]] - 1
  /\ reparer(s).table[Len(pos2) + 1] = Len(s)

\* reparer is two passes: the offsets of the second go through the first.
LEMMA ReparerBon ==
  ASSUME NEW s \in Seq(Car)
  PROVE  \E u, pos1, pos2 : DeuxPasses(s, u, pos1, pos2)
  <1>. DEFINE g == Garder(s, Gardes1(s))
              u == g.texte
              h == Garder(u, Gardes2(u))
              r == restituer_point_de_domaine(u)
  <1>1. Gardes1(s) \in SUBSET (1..Len(s)) /\ Gardes1(s) = {i \in DOMAIN s : ~Parasite(s, i)}
    BY DEF Gardes1
  <1>2. PICK pos1 : Extrait(s, Gardes1(s), g, pos1)
    BY <1>1, GarderExtrait
  <1>3. u \in Seq(Car) /\ Len(u) = Len(pos1)
    BY <1>2 DEF Extrait
  <1>. HIDE DEF g, u
  <1>4. Gardes2(u) \in SUBSET (1..Len(u))
    BY <1>3 DEF Gardes2
  <1>5. PICK pos2 : Extrait(u, Gardes2(u), h, pos2)
    BY <1>3, <1>4, GarderExtrait
  <1>6. /\ r.table = h.table
        /\ r.texte = [p \in 1..Len(pos2) |-> IF DevientPoint(u, pos2[p]) THEN "." ELSE u[pos2[p]]]
    BY <1>3, <1>5, RestituerBon
  <1>7. /\ reparer(s).texte = r.texte
        /\ reparer(s).table = [p \in DOMAIN r.table |-> g.table[r.table[p] + 1]]
    BY <1>1 DEF reparer, retirer_espaces_parasites, composer, TexteNormalise, g, u
  <1>. HIDE DEF r, h
  <1>8. /\ DOMAIN h.table = 1..(Len(pos2) + 1) /\ Len(pos2) \in Nat
        /\ \A p \in 1..Len(pos2) : h.table[p] = pos2[p] - 1 /\ pos2[p] \in 1..Len(u)
        /\ h.table[Len(pos2) + 1] = Len(u)
    <2>1. h.table \in Seq(Int) /\ Len(h.table) = Len(pos2) + 1
      BY <1>5 DEF Extrait
    <2>2. DOMAIN h.table = 1..Len(h.table)
      BY <2>1, ElementsDe
    <2>. QED
      BY <1>5, <2>1, <2>2 DEF Extrait
  <1>9. /\ Len(pos1) \in Nat
        /\ \A p \in 1..Len(pos1) : g.table[p] = pos1[p] - 1
        /\ g.table[Len(pos1) + 1] = Len(s)
    BY <1>2 DEF Extrait
  <1>10. ASSUME NEW p \in 1..Len(pos2) PROVE reparer(s).table[p] = pos1[pos2[p]] - 1
    <2>1. p \in DOMAIN r.table /\ r.table[p] = pos2[p] - 1 /\ pos2[p] \in 1..Len(pos1)
      BY <1>3, <1>6, <1>8
    <2>2. r.table[p] + 1 = pos2[p]
      BY <1>9, <2>1
    <2>. QED
      BY <1>7, <1>9, <2>1, <2>2
  <1>11. reparer(s).table[Len(pos2) + 1] = Len(s)
    <2>1. Len(pos2) + 1 \in DOMAIN r.table /\ r.table[Len(pos2) + 1] = Len(pos1)
      BY <1>3, <1>6, <1>8
    <2>. QED
      BY <1>7, <1>9, <2>1
  <1>12. u = Garder(s, Gardes1(s)).texte
    BY DEF u, g
  <1>13. reparer(s).texte =
          [p \in 1..Len(pos2) |-> IF DevientPoint(u, pos2[p]) THEN "." ELSE u[pos2[p]]]
    BY <1>6, <1>7
  <1>14. DeuxPasses(s, u, pos1, pos2)
    BY <1>2, <1>3, <1>5, <1>10, <1>11, <1>12, <1>13 DEF DeuxPasses, h, g
  <1>. QED
    BY <1>14

\* The repaired text in its original: one origin for each character, in order, and
\* nothing but spaces is lost.
LEMMA ReparerFidele ==
  ASSUME NEW s \in Seq(Car)
  PROVE  LET r == reparer(s)
         IN /\ \A p \in DOMAIN r.texte :
                 /\ r.texte[p] = s[r.table[p] + 1] \/ (r.texte[p] = "." /\ s[r.table[p] + 1] = " ")
                 /\ r.table[p] < r.table[p + 1]
            /\ \A q \in DOMAIN s : s[q] # " " => \E p \in DOMAIN r.texte : r.table[p] = q - 1
  <1>. DEFINE r == reparer(s)
              G == Gardes1(s)
  <1>0. PICK u, pos1, pos2 : DeuxPasses(s, u, pos1, pos2)
    BY ReparerBon
  <1>1. /\ Extrait(s, G, Garder(s, G), pos1)
        /\ u = Garder(s, G).texte /\ u \in Seq(Car)
        /\ Extrait(u, Gardes2(u), Garder(u, Gardes2(u)), pos2)
        /\ r.texte = [p \in 1..Len(pos2) |-> IF DevientPoint(u, pos2[p]) THEN "." ELSE u[pos2[p]]]
        /\ \A p \in 1..Len(pos2) : r.table[p] = pos1[pos2[p]] - 1
        /\ r.table[Len(pos2) + 1] = Len(s)
    BY <1>0 DEF DeuxPasses
  <1>2. /\ Len(pos1) \in Nat /\ Len(u) = Len(pos1) /\ DOMAIN u = 1..Len(pos1)
        /\ \A p \in 1..Len(pos1) : pos1[p] \in 1..Len(s) /\ u[p] = s[pos1[p]]
        /\ \A p, q \in 1..Len(pos1) : p < q => pos1[p] < pos1[q]
        /\ \A i \in G : \E p \in 1..Len(pos1) : pos1[p] = i
    <2>1. Extrait(s, G, Garder(s, G), pos1) /\ u = Garder(s, G).texte
      BY <1>1
    <2>. HIDE DEF G
    <2>. QED
      BY <2>1 DEF Extrait
  <1>3. /\ Len(pos2) \in Nat
        /\ \A p \in 1..Len(pos2) : pos2[p] \in 1..Len(u)
        /\ \A p, q \in 1..Len(pos2) : p < q => pos2[p] < pos2[q]
        /\ \A i \in Gardes2(u) : \E p \in 1..Len(pos2) : pos2[p] = i
    <2>1. Extrait(u, Gardes2(u), Garder(u, Gardes2(u)), pos2)
      BY <1>1
    <2>. QED
      BY <2>1 DEF Extrait
  <1>4. \A p \in 1..Len(pos2) :
          r.texte[p] = IF DevientPoint(u, pos2[p]) THEN "." ELSE u[pos2[p]]
    BY <1>1
  <1>5. DOMAIN r.texte = 1..Len(pos2) /\ DOMAIN s = 1..Len(s) /\ Len(s) \in Nat
    BY <1>1
  <1>6. \A p \in 1..Len(pos2) : r.table[p] = pos1[pos2[p]] - 1
    BY <1>1
  <1>7. r.table[Len(pos2) + 1] = Len(s)
    BY <1>1
  <1>. HIDE DEF r, G
  <1>8. ASSUME NEW p \in 1..Len(pos2)
        PROVE  /\ r.texte[p] = s[r.table[p] + 1] \/ (r.texte[p] = "." /\ s[r.table[p] + 1] = " ")
               /\ r.table[p] < r.table[p + 1]
    <2>1. pos2[p] \in 1..Len(pos1) /\ pos1[pos2[p]] \in 1..Len(s)
      BY <1>2, <1>3
    <2>2. r.table[p] + 1 = pos1[pos2[p]] /\ r.table[p] = pos1[pos2[p]] - 1
      BY <1>6, <2>1
    <2>3. u[pos2[p]] = s[r.table[p] + 1]
      BY <1>2, <2>1, <2>2
    <2>4. DevientPoint(u, pos2[p]) => u[pos2[p]] = " "
      BY DEF DevientPoint, FinDeLabel
    <2>5. CASE p = Len(pos2)
      <3>1. r.table[p + 1] = Len(s)
        BY <1>7, <2>5
      <3>2. r.table[p] < r.table[p + 1]
        BY <1>5, <2>1, <2>2, <3>1
      <3>. QED
        BY <1>4, <2>3, <2>4, <3>2
    <2>6. CASE p # Len(pos2)
      <3>1. p + 1 \in 1..Len(pos2) /\ p < p + 1
        BY <1>3, <2>6
      <3>2. pos2[p] < pos2[p + 1] /\ pos2[p + 1] \in 1..Len(pos1)
        BY <1>2, <1>3, <3>1
      <3>3. pos1[pos2[p]] < pos1[pos2[p + 1]] /\ pos1[pos2[p + 1]] \in 1..Len(s)
        BY <1>2, <2>1, <3>2
      <3>4. r.table[p + 1] = pos1[pos2[p + 1]] - 1
        BY <1>6, <3>1
      <3>5. r.table[p] < r.table[p + 1]
        BY <2>1, <2>2, <3>3, <3>4
      <3>. QED
        BY <1>4, <2>3, <2>4, <3>5
    <2>. QED
      BY <2>5, <2>6
  <1>9. ASSUME NEW q \in 1..Len(s), s[q] # " "
        PROVE  \E p \in 1..Len(pos2) : r.table[p] = q - 1
    <2>1. q \in G
      BY <1>5, <1>9 DEF G, Gardes1, Parasite
    <2>2. PICK k \in 1..Len(pos1) : pos1[k] = q
      BY <1>2, <2>1
    <2>3. u[k] = s[q] /\ k \in DOMAIN u
      BY <1>2, <2>2
    <2>4. k \in Gardes2(u)
      BY <1>9, <2>3 DEF Gardes2, Supprime
    <2>5. PICK p \in 1..Len(pos2) : pos2[p] = k
      BY <1>3, <2>4
    <2>. QED
      BY <1>6, <2>2, <2>5
  <1>. QED
    BY <1>5, <1>8, <1>9 DEF r

\* reparer changes a text exactly when vaut_la_peine says so.
LEMMA ReparerUtile ==
  ASSUME NEW s \in Seq(Car)
  PROVE  vaut_la_peine(s) <=> reparer(s).texte # s
  <1>. DEFINE r == reparer(s)
              G == Gardes1(s)
  <1>0. PICK u, pos1, pos2 : DeuxPasses(s, u, pos1, pos2)
    BY ReparerBon
  <1>1. /\ Extrait(s, G, Garder(s, G), pos1)
        /\ u = Garder(s, G).texte /\ u \in Seq(Car)
        /\ Extrait(u, Gardes2(u), Garder(u, Gardes2(u)), pos2)
        /\ r.texte = [p \in 1..Len(pos2) |-> IF DevientPoint(u, pos2[p]) THEN "." ELSE u[pos2[p]]]
    BY <1>0 DEF DeuxPasses
  <1>2. DOMAIN s = 1..Len(s) /\ Len(s) \in Nat
    OBVIOUS
  <1>3. /\ Len(u) \in Nat /\ DOMAIN u = 1..Len(u) /\ Len(u) <= Len(s)
        /\ (\E i \in 1..Len(s) : i \notin G) => Len(u) < Len(s)
        /\ (\A i \in 1..Len(s) : i \in G) => u = s
    <2>1. DOMAIN u = 1..Len(u) /\ Len(u) \in Nat
      BY <1>1, ElementsDe
    <2>. HIDE DEF G
    <2>. QED
      BY <1>1, <2>1 DEF Extrait
  <1>4. /\ Len(pos2) \in Nat /\ Len(pos2) <= Len(u)
        /\ (\E i \in 1..Len(u) : i \notin Gardes2(u)) => Len(pos2) < Len(u)
        /\ (\A i \in 1..Len(u) : i \in Gardes2(u)) =>
             Len(pos2) = Len(u) /\ \A p \in 1..Len(pos2) : pos2[p] = p
    BY <1>1 DEF Extrait
  <1>5. DOMAIN r.texte = 1..Len(pos2)
        /\ \A p \in 1..Len(pos2) : r.texte[p] = IF DevientPoint(u, pos2[p]) THEN "." ELSE u[pos2[p]]
    BY <1>1
  <1>6. r.texte = s => Len(pos2) = Len(s)
    <2>. HIDE DEF r
    <2>1. ASSUME 1..Len(pos2) = 1..Len(s) PROVE Len(pos2) = Len(s)
      BY <1>2, <1>4, <2>1
    <2>. QED
      BY <1>2, <1>5, <2>1
  <1>. HIDE DEF r
  <1>7. CASE \E k \in DOMAIN s : Parasite(s, k)
    <2>1. \E i \in 1..Len(s) : i \notin G
      BY <1>2, <1>7 DEF Gardes1
    <2>2. Len(pos2) < Len(s)
      BY <1>2, <1>3, <1>4, <2>1
    <2>. QED
      BY <1>2, <1>4, <1>6, <1>7, <2>2 DEF vaut_la_peine, r
  <1>8. CASE \A k \in DOMAIN s : ~Parasite(s, k)
    <2>1. u = s
      BY <1>2, <1>3, <1>8 DEF Gardes1
    <2>2. CASE \E i \in DOMAIN s : Supprime(s, i)
      <3>1. PICK q \in DOMAIN s : Supprime(s, q)
        BY <2>2
      <3>2. PICK p \in 1..(q - 1) : DevientPoint(s, p)
        BY <3>1 DEF Supprime
      <3>3. p \in DOMAIN s
        BY <1>2, <3>2
      <3>4. \E i \in 1..Len(u) : i \notin Gardes2(u)
        BY <1>2, <2>1, <3>1 DEF Gardes2
      <3>5. Len(pos2) < Len(s)
        BY <1>2, <1>4, <2>1, <3>4
      <3>. QED
        BY <1>2, <1>4, <1>6, <3>2, <3>3, <3>5 DEF vaut_la_peine, r
    <2>3. CASE \A i \in DOMAIN s : ~Supprime(s, i)
      <3>1. \A i \in 1..Len(u) : i \in Gardes2(u)
        BY <1>2, <2>1, <2>3 DEF Gardes2
      <3>2. DOMAIN r.texte = DOMAIN s
            /\ \A p \in DOMAIN s : r.texte[p] = IF DevientPoint(s, p) THEN "." ELSE s[p]
        BY <1>2, <1>4, <1>5, <2>1, <3>1
      <3>3. CASE \E p \in DOMAIN s : DevientPoint(s, p)
        <4>1. PICK p \in DOMAIN s : DevientPoint(s, p)
          BY <3>3
        <4>2. s[p] = " " /\ r.texte[p] = "."
          BY <3>2, <4>1 DEF DevientPoint, FinDeLabel
        <4>3. r.texte # s
          BY <4>2
        <4>. QED
          BY <4>1, <4>3 DEF vaut_la_peine, r
      <3>4. CASE \A p \in DOMAIN s : ~DevientPoint(s, p)
        <4>1. \A p \in DOMAIN s : r.texte[p] = s[p]
          BY <3>2, <3>4
        <4>2. r.texte = s
          <5>1. r.texte = [p \in 1..Len(pos2) |-> r.texte[p]]
            BY <1>1, <1>5
          <5>2. s = [p \in DOMAIN s |-> s[p]]
            OBVIOUS
          <5>3. 1..Len(pos2) = DOMAIN s
            BY <1>5, <3>2
          <5>. QED
            BY <4>1, <5>1, <5>2, <5>3
        <4>. QED
          BY <1>8, <3>4, <4>2 DEF vaut_la_peine, r
      <3>. QED
        BY <3>3, <3>4
    <2>. QED
      BY <2>2, <2>3
  <1>. QED
    BY <1>7, <1>8

-----------------------------------------------------------------------------
(* The invariant *)

IInv ==
  /\ document \in Documents
  /\ etape \in {"recu", "extrait", "repare"}
  /\ ResultatBon(resultat)
  /\ etape = "repare" => repare = reparer(Texte)

\* It holds before the extraction,
LEMMA InitInv == Init => IInv
  <1>1. "aucune" \in Methodes
    BY DEF Methodes
  <1>. QED
    BY <1>1, SansTexteBon DEF Init, IInv

\* and every step of the engine keeps it.
LEMMA NextInv == IInv /\ [Next]_vars => IInv'
  <1>. SUFFICES ASSUME IInv, [Next]_vars PROVE IInv'
    OBVIOUS
  <1>1. CASE Extraire
    <2>1. ResultatBon(extraire(document))
      BY ExtraireBon, DocumentsPossibles DEF IInv
    <2>. QED
      BY <1>1, <2>1 DEF Extraire, IInv
  <1>2. CASE Reparer
    BY <1>2 DEF Reparer, IInv, Texte
  <1>3. CASE Termine
    BY <1>3 DEF Termine, vars, IInv, Texte
  <1>4. CASE UNCHANGED vars
    BY <1>4 DEF vars, IInv, Texte
  <1>. QED
    BY <1>1, <1>2, <1>3, <1>4 DEF Next

\* In every state the result is the raw text normalised with the table of its offsets, its
\* pages are those of the raw text, and what was repaired is that text: whichever path of
\* the router gave it, an error or an empty document included.
THEOREM Invariant == Spec => []IInv
  BY InitInv, NextInv, PTL DEF Spec

\* The text and table of a state that satisfies it.
LEMMA TexteEtTable ==
  ASSUME IInv
  PROVE  /\ resultat.brut \in Seq(Car) /\ resultat.texte = normaliser(resultat.brut)
         /\ Texte = TexteDe(resultat.brut) /\ Table = TableDe(resultat.brut)
  BY DEF IInv, ResultatBon, Texte, Table, TexteDe, TableDe

\* The table of offsets normalize.py returns has one entry more than the text, never
\* decreases and ends with the length of the source, for every document.
THEOREM TypesLecture == Spec => []TypeOK
  <1>1. IInv => TypeOK
    <2>. SUFFICES ASSUME IInv PROVE TypeOK
      OBVIOUS
    <2>. DEFINE t == Texte
                T == Table
    <2>1. /\ t \in Seq(Car) /\ Len(t) \in Nat /\ T \in Seq(Nat) /\ Len(T) = Len(t) + 1
          /\ T[Len(t) + 1] = Len(resultat.brut)
          /\ \A p, q \in 1..(Len(t) + 1) : p <= q => T[p] <= T[q]
      BY TexteEtTable, NormaliserBon
    <2>. HIDE DEF t, T
    <2>2. \A p \in 1..Len(t) : T[p] \in Nat /\ T[p] <= T[p + 1]
      <3>1. ASSUME NEW p \in 1..Len(t) PROVE T[p] \in Nat /\ T[p] <= T[p + 1]
        <4>1. p \in 1..(Len(t) + 1) /\ p + 1 \in 1..(Len(t) + 1) /\ p <= p + 1
          BY <2>1
        <4>. QED
          BY <2>1, <4>1
      <3>. QED
        BY <3>1
    <2>3. etape \in {"recu", "extrait", "repare"} /\ resultat.methode \in Methodes
      BY DEF IInv, ResultatBon
    <2>. QED
      BY <2>1, <2>2, <2>3 DEF TypeOK, Methodes, t, T
  <1>. QED
    BY <1>1, Invariant, PTL

\* page_de names the page whose characters hold the source of a position, for any number
\* of pages, empty ones included, and any run of blanks across their limits: the binary
\* search of premiere_position goes through the table and never one entry too far.
THEOREM PageExacteToujours == Spec => []PageExacte
  <1>1. IInv => PageExacte
    <2>. SUFFICES ASSUME IInv, resultat.pagesBrutes # <<>>, NEW p \in Positions
                  PROVE  LET b == BornesSource(resultat.pagesBrutes)[page_de(resultat.pages, p)]
                             offset == vers_source(resultat.texte, p)
                         IN b.debut <= offset /\ offset < b.fin
      BY DEF PageExacte
    <2>. DEFINE s == resultat.brut
                pages == resultat.pagesBrutes
    <2>1. /\ s \in Seq(Car) /\ pages \in Seq(Seq(Car)) /\ FlattenSeq(pages) = s
          /\ resultat.texte = normaliser(s) /\ resultat.pages = BornesPages(normaliser(s), pages)
      BY DEF IInv, ResultatBon
    <2>2. p \in 0..(Len(TexteDe(s)) - 1)
      BY TexteEtTable DEF Positions
    <2>3. LET b == BornesSource(pages)[page_de(BornesPages(normaliser(s), pages), p)]
              offset == vers_source(normaliser(s), p)
          IN b.debut <= offset /\ offset < b.fin
      <3>. HIDE DEF s, pages
      <3>1. pages # <<>>
        BY DEF pages
      <3>. QED
        BY <2>1, <2>2, <3>1, PageDeLaSource
    <2>. QED
      BY <2>1, <2>3
  <1>. QED
    BY <1>1, Invariant, PTL

\* span_source brings an entity of the working text back to exactly the characters of the
\* source it was read from: normalising that slice gives its text again, for every text.
THEOREM EmpanFideleToujours == Spec => []EmpanFidele
  <1>1. IInv => EmpanFidele
    <2>. SUFFICES ASSUME IInv, NEW p \in 0..Len(Texte), NEW q \in 0..Len(Texte),
                         p < q, Aligne(p), Aligne(q)
                  PROVE  LET src == span_source(resultat.texte, p, q)
                         IN normaliser(Tranche(resultat.brut, src[1], src[2])).texte =
                              Tranche(Texte, p, q)
      BY DEF EmpanFidele
    <2>. DEFINE s == resultat.brut
                t == resultat.texte
    <2>1. s \in Seq(Car) /\ t = normaliser(s) /\ Texte = TexteDe(s) /\ Table = TableDe(s)
          /\ t.table = TableDe(s)
      BY TexteEtTable DEF TableDe
    <2>2. Debute(s, p) /\ Debute(s, q)
      BY <2>1 DEF Aligne, Debute
    <2>3. /\ p \in Nat /\ q \in Nat /\ p + 1 \in 1..Len(t.table) /\ q + 1 \in 1..Len(t.table)
          /\ p < Len(t.table) /\ q < Len(t.table)
      <3>1. Len(TableDe(s)) = Len(TexteDe(s)) + 1 /\ Len(TexteDe(s)) \in Nat
        BY <2>1, NormaliserBon
      <3>. HIDE DEF s, t
      <3>. QED
        BY <2>1, <3>1
    <2>. HIDE DEF s, t
    <2>4. vers_source(t, p) = TableDe(s)[p + 1] /\ vers_source(t, q) = TableDe(s)[q + 1]
      BY <2>1, <2>3 DEF vers_source
    <2>5. TexteDe(SubSeq(s, TableDe(s)[p + 1] + 1, TableDe(s)[q + 1])) = SubSeq(TexteDe(s), p + 1, q)
      BY <2>1, <2>2, TrancheFidele
    <2>. QED
      BY <2>1, <2>4, <2>5 DEF span_source, Tranche, TexteDe, s, t
  <1>. QED
    BY <1>1, Invariant, PTL

\* Each character of the repaired text (reparation_ocr.py) is at its offset the one OCR
\* read, or a point in place of a space, and no other character than spaces is lost.
THEOREM ReparationFideleToujours == Spec => []ReparationFidele
  <1>1. IInv => ReparationFidele
    <2>. SUFFICES ASSUME IInv, etape = "repare" PROVE ReparationFidele
      BY DEF ReparationFidele
    <2>1. Texte \in Seq(Car) /\ repare = reparer(Texte)
      BY TexteEtTable, NormaliserBon DEF IInv
    <2>. DEFINE s == Texte
    <2>2. LET r == reparer(s)
          IN /\ \A p \in DOMAIN r.texte :
                  /\ r.texte[p] = s[r.table[p] + 1] \/ (r.texte[p] = "." /\ s[r.table[p] + 1] = " ")
                  /\ r.table[p] < r.table[p + 1]
             /\ \A q \in DOMAIN s : s[q] # " " => \E p \in DOMAIN r.texte : r.table[p] = q - 1
      <3>. HIDE DEF s
      <3>. QED
        BY <2>1, ReparerFidele DEF s
    <2>3. LET r == repare
          IN /\ \A p \in DOMAIN r.texte :
                  /\ r.texte[p] = s[r.table[p] + 1] \/ (r.texte[p] = "." /\ s[r.table[p] + 1] = " ")
                  /\ r.table[p] < r.table[p + 1]
             /\ \A q \in DOMAIN s : s[q] # " " => \E p \in DOMAIN r.texte : r.table[p] = q - 1
      <3>1. reparer(s) = repare
        BY <2>1
      <3>. HIDE DEF s
      <3>. QED
        BY <2>2, <3>1
    <2>. QED
      BY <2>3 DEF ReparationFidele
  <1>. QED
    BY <1>1, Invariant, PTL

\* vaut_la_peine is exactly "the repair changes the text", for every text.
THEOREM ReparationUtileToujours == Spec => []ReparationUtile
  <1>1. IInv => ReparationUtile
    <2>. SUFFICES ASSUME IInv PROVE vaut_la_peine(Texte) <=> reparer(Texte).texte # Texte
      BY DEF ReparationUtile
    <2>1. Texte \in Seq(Car)
      BY TexteEtTable, NormaliserBon
    <2>. QED
      BY <2>1, ReparerUtile
  <1>. QED
    BY <1>1, Invariant, PTL

\* What the boxes of the state are.
BInv == resultat.methode = "ocr" => BoitesBonnes(document, resultat)

\* A step that extracts gives them, and the others leave them.
LEMMA NextBoites == IInv /\ BInv /\ [Next]_vars => BInv'
  <1>. SUFFICES ASSUME IInv, BInv, [Next]_vars PROVE BInv'
    OBVIOUS
  <1>1. CASE Extraire
    <2>1. document \in Documents
      BY DEF IInv
    <2>2. resultat' = extraire(document) /\ document' = document
      BY <1>1 DEF Extraire
    <2>3. extraire(document).methode = "ocr" => BoitesBonnes(document, extraire(document))
      BY <2>1, BoitesExtraites, DocumentsPossibles
    <2>. QED
      BY <2>2, <2>3 DEF BInv
  <1>2. CASE Reparer
    BY <1>2 DEF Reparer, BInv
  <1>3. CASE Termine
    BY <1>3 DEF Termine, vars, BInv
  <1>4. CASE UNCHANGED vars
    BY <1>4 DEF vars, BInv
  <1>. QED
    BY <1>1, <1>2, <1>3, <1>4 DEF Next

\* The box of a word covers the characters of that word and no other, on the page
\* where it was read, and what is not blank lies in the box of a word: for any number of
\* pages and words, whatever the characters around them become.
THEOREM BoitesExactesToujours == Spec => []BoitesExactes
  <1>1. Init => BInv
    BY DEF Init, BInv, SansTexte, Resultat
  <1>2. Spec => []BInv
    BY <1>1, NextBoites, Invariant, PTL DEF Spec
  <1>3. IInv /\ BInv => BoitesExactes
    <2>. SUFFICES ASSUME IInv, BInv, resultat.methode = "ocr" PROVE BoitesExactes
      BY DEF BoitesExactes
    <2>. DEFINE s == resultat.brut
                t == normaliser(s)
                pages == resultat.pagesBrutes
                boites == resultat.boites
    <2>1. /\ s \in Seq(Car) /\ pages \in Seq(Seq(Car)) /\ FlattenSeq(pages) = s
          /\ resultat.texte = t /\ resultat.pages = BornesPages(t, pages)
          /\ Texte = TexteDe(s) /\ Table = TableDe(s)
      BY TexteEtTable DEF IInv, ResultatBon, BInv, BoitesBonnes
    <2>2. PICK scans, L, B :
            /\ Len(scans) = Len(pages) /\ \A k \in 1..Len(scans) : scans[k] = document.scans[k]
            /\ Cumul(L, pages) /\ BoitesLues(s, L, scans, B)
            /\ boites = reprojeter_boites(t, B)
      BY <2>1 DEF BInv, BoitesBonnes
    <2>. HIDE DEF s, t, pages, boites
    <2>3. DOMAIN boites = DOMAIN B
          /\ \A k \in DOMAIN B : /\ boites[k].debut = Traduire(t, B[k].debut)
                                 /\ boites[k].fin = Traduire(t, B[k].fin)
                                 /\ boites[k].page = B[k].page /\ boites[k].mot = B[k].mot
      <3>1. \A k \in DOMAIN B : B[k] \in LesBoites
        BY <2>2 DEF BoitesLues
      <3>2. boites = [k \in DOMAIN B |->
              [B[k] EXCEPT !.debut = Traduire(t, @), !.fin = Traduire(t, @)]]
        BY <2>2 DEF reprojeter_boites
      <3>. QED
        BY <3>1, <3>2 DEF LesBoites
    <2>4. ASSUME NEW k \in DOMAIN B
          PROVE  LET b == B[k]
                     d == Traduire(t, b.debut)
                     f == Traduire(t, b.fin)
                 IN /\ b.page \in 1..Len(scans)
                    /\ Tranche(s, b.debut, b.fin) = scans[b.page][b.mot].texte
                    /\ span_source(t, d, f) = <<b.debut, b.fin>>
                    /\ page_de(BornesPages(t, pages), d) = b.page
                    /\ \A p \in 0..(Len(TexteDe(s)) - 1) :
                         TableDe(s)[p + 1] + 1 \in (b.debut + 1)..b.fin => d <= p /\ p < f
      <3>1. BoiteBrute(s, L, scans, B[k])
        BY <2>2 DEF BoitesLues
      <3>. DEFINE b == B[k]
                  d == Traduire(t, b.debut)
                  f == Traduire(t, b.fin)
      <3>2. b.page \in 1..Len(scans) /\ Tranche(s, b.debut, b.fin) = scans[b.page][b.mot].texte
        BY <3>1 DEF BoiteBrute
      <3>. HIDE DEF b
      <3>3. /\ span_source(t, d, f) = <<b.debut, b.fin>>
            /\ page_de(BornesPages(t, pages), d) = b.page
            /\ \A p \in 0..(Len(TexteDe(s)) - 1) :
                 TableDe(s)[p + 1] + 1 \in (b.debut + 1)..b.fin => d <= p /\ p < f
        <4>1. BoiteBrute(s, L, scans, b)
          BY <3>1 DEF b
        <4>2. /\ s \in Seq(Car) /\ pages \in Seq(Seq(Car)) /\ FlattenSeq(pages) = s
              /\ Cumul(L, pages) /\ Len(scans) = Len(pages)
          BY <2>1, <2>2
        <4>3. LET x == Traduire(normaliser(s), b.debut)
                  y == Traduire(normaliser(s), b.fin)
              IN /\ span_source(normaliser(s), x, y) = <<b.debut, b.fin>>
                 /\ page_de(BornesPages(normaliser(s), pages), x) = b.page
                 /\ \A p \in 0..(Len(TexteDe(s)) - 1) :
                      TableDe(s)[p + 1] + 1 \in (b.debut + 1)..b.fin => x <= p /\ p < y
          BY <4>1, <4>2, BoiteTraduite
        <4>. QED
          BY <4>3 DEF t
      <3>. QED
        BY <3>2, <3>3 DEF b
    <2>5. ASSUME NEW k \in DOMAIN resultat.boites
          PROVE  LET b == resultat.boites[k]
                     src == span_source(resultat.texte, b.debut, b.fin)
                 IN /\ Tranche(resultat.brut, src[1], src[2]) = document.scans[b.page][b.mot].texte
                    /\ page_de(resultat.pages, b.debut) = b.page
      <3>1. k \in DOMAIN B
        BY <2>3 DEF boites
      <3>. DEFINE b == boites[k]
                  src == span_source(t, b.debut, b.fin)
      <3>2. b.debut = Traduire(t, B[k].debut) /\ b.fin = Traduire(t, B[k].fin)
            /\ b.page = B[k].page /\ b.mot = B[k].mot
        BY <2>3, <3>1
      <3>3. src = <<B[k].debut, B[k].fin>>
        BY <2>4, <3>1, <3>2
      <3>4. Tranche(s, src[1], src[2]) = document.scans[b.page][b.mot].texte
        BY <2>2, <2>4, <3>1, <3>2, <3>3
      <3>5. page_de(BornesPages(t, pages), b.debut) = b.page
        BY <2>4, <3>1, <3>2
      <3>. QED
        BY <2>1, <3>4, <3>5 DEF s, boites
    <2>6. ASSUME NEW p \in Positions, Texte[p + 1] \notin Blancs
          PROVE  \E k \in DOMAIN resultat.boites :
                   resultat.boites[k].debut <= p /\ p < resultat.boites[k].fin
      <3>1. p \in 0..(Len(TexteDe(s)) - 1) /\ p + 1 \in 1..Len(TexteDe(s))
        <4>1. Len(TexteDe(s)) \in Nat
          BY <2>1, NormaliserBon
        <4>. QED
          BY <2>1, <4>1 DEF Positions
      <3>. DEFINE i == TableDe(s)[p + 1] + 1
      <3>2. i \in 1..Len(s) /\ s[i] \notin Blancs
        BY <2>1, <2>6, <3>1, VientDUnePleine
      <3>. HIDE DEF i
      <3>3. PICK k \in DOMAIN B : B[k].debut < i /\ i <= B[k].fin
        BY <2>2, <3>2 DEF BoitesLues
      <3>4. i \in (B[k].debut + 1)..B[k].fin
        <4>1. B[k].debut \in Nat /\ B[k].fin \in Nat
          BY <2>2 DEF BoitesLues, LesBoites
        <4>2. i \in Nat
          BY <3>2
        <4>. QED
          BY <3>3, <4>1, <4>2
      <3>5. Traduire(t, B[k].debut) <= p /\ p < Traduire(t, B[k].fin)
        BY <2>4, <3>1, <3>4 DEF i
      <3>6. boites[k].debut <= p /\ p < boites[k].fin /\ k \in DOMAIN boites
        BY <2>3, <3>5
      <3>. QED
        BY <3>6 DEF boites
    <2>. QED
      BY <2>5, <2>6 DEF BoitesExactes
  <1>. QED
    BY <1>2, <1>3, Invariant, PTL
==============================================================================
