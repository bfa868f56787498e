--------------------------- MODULE Protection_proofs ---------------------------
(***************************************************************************)
(* What the protection of documents guarantees for any documents, any      *)
(* detections, any suffixes and any number of requests.                    *)
(*                                                                         *)
(* The table.  It only grows, and a token is kept only when no row has its *)
(* fingerprint or itself (Table).  Each link of a request is the one of an *)
(* entity it replaced; the token of an entity it replaced is either still  *)
(* to be kept or the one of a value the table has (Suivi).  A row comes    *)
(* from a request that does not have its link to keep any more, or that    *)
(* failed on it (Inserante): a row found in the way of an insertion is     *)
(* the one of another request.                                             *)
(*                                                                         *)
(* A text.  The entities are taken from the last to the first, so what is  *)
(* before the one at hand is still the source: the text is at every turn   *)
(* its source character by character, with one piece where each entity     *)
(* done was, and the next one is skipped only when it meets one done.      *)
(*                                                                         *)
(* What can still be read.  Each way of reading is protected at the place  *)
(* the analysis read: the pieces of a text; the words of an image or of a  *)
(* scan, whose boxes are those the entity covers; for the text layer of a  *)
(* PDF, the place of the entity in the source is inside its page, not in   *)
(* the blanks between two pages, and is there one of those search_for      *)
(* finds, since what it compares of that slice is the value searched.      *)
(* In a DOCX values are replaced by their text, which is their source as   *)
(* it is written: a replacement ends with a sign no value has, and is      *)
(* before its first one the beginning of what it replaces, so no           *)
(* replacement makes a value appear.                                       *)
(***************************************************************************)
EXTENDS Protection, Extraction_proofs, FiniteSetTheorems, TLAPS

\* The table of pseudonyms: rows, none with the fingerprint or the token of another.
Table ==
  /\ \A a \in pseudonymes : a = [empreinte |-> a.empreinte, jeton |-> a.jeton]
  /\ \A a, b \in pseudonymes : a.empreinte = b.empreinte \/ a.jeton = b.jeton => a = b

\* What is under way for a request, once protected.
Champs(q) ==
  q = [etape |-> q.etape, document |-> q.document, extrait |-> q.extrait,
       entites |-> q.entites, action |-> q.action, rendu |-> q.rendu, liens |-> q.liens,
       vue |-> q.vue, cause |-> q.cause]

Entite(q, i) == q.entites[i]
LienDe(q, i, cl) == correspondance(Entite(q, i).valeur, Entite(q, i).type, cl)
Remplaces(q) == {q.rendu.remplaces[k] : k \in DOMAIN q.rendu.remplaces}
Elements(t) == {t[k] : k \in DOMAIN t}
Restants(q) == Elements(q.liens)
Distincts(t) == \A k, l \in DOMAIN t : t[k] = t[l] => k = l

\* The value of entity i has its row in the table, under its token or another.
Gardee(q, i, table) ==
  \E rangee \in table : rangee.empreinte = empreinte(Entite(q, i).valeur)

\* The table the request has looked at has not the value it is to insert.
Cherchee(q) == q.liens # <<>> /\ \A a \in q.vue : a.empreinte # Head(q.liens).empreinte

\* An entity of the analysis of x.
Detectee(x, e) ==
  /\ e.debut \in Nat /\ e.fin \in Nat /\ Trouvable(x, e)
  /\ e.valeur = Tranche(x.texte.texte, e.debut, e.fin)

\* The entities are a list of what the analysis of x found.
Detectees(x, es) ==
  /\ Len(es) \in Nat /\ DOMAIN es = 1..Len(es)
  /\ \A i \in DOMAIN es : Detectee(x, es[i])

\* What is served is the document with these entities protected.
Protege(q) ==
  /\ DocumentPossible(q.document) /\ q.extrait = extraire(q.document)
  /\ Detectees(q.extrait, q.entites)
  /\ q.rendu = appliquer(q.document, q.extrait, q.entites, RemplacementDe(q.action, q.entites))

\* With key cl and this table: what is left to keep comes from what was replaced, once
\* each, and the token of each entity replaced is on its way.
Suivi(q, cl, table) ==
  \/ q = Repos
  \/ /\ Champs(q) /\ Protege(q)
     /\ q.etape \in {"enregistre", "insere", "servi", "erreur"}
     /\ q.liens \in Seq(Restants(q)) /\ Distincts(q.liens)
     /\ q.etape = "servi" => q.liens = <<>>
     /\ q.etape = "insere" => Cherchee(q)
     /\ q.liens # <<>> => q.action = "pseudonymise"
     /\ Remplaces(q) \subseteq DOMAIN q.entites
     /\ \A lien \in Restants(q) : \E i \in Remplaces(q) : lien = LienDe(q, i, cl)
     /\ (q.etape # "erreur" /\ q.action = "pseudonymise" /\ cl = "valide") =>
          \A i \in Remplaces(q) : \E j \in Remplaces(q) :
            /\ LienDe(q, j, cl).jeton = LienDe(q, i, cl).jeton
            /\ LienDe(q, j, cl) \in Restants(q) \/ Gardee(q, j, table)

\* Row a comes from this request, which has its link to keep no more or failed on it.
Inserante(q, cl, a) ==
  /\ q # Repos /\ q.action = "pseudonymise"
  /\ \E i \in Remplaces(q) :
       /\ Rangee(LienDe(q, i, cl)) = a
       /\ q.etape = "erreur" \/ LienDe(q, i, cl) \notin Restants(q)

\* The inductive invariant.
IInv ==
  /\ charge \in Charges /\ cle \in Cles
  /\ Table
  /\ DOMAIN requetes = Requetes
  /\ \A r \in Requetes : Suivi(requetes[r], cle, pseudonymes)
  /\ \A a \in pseudonymes : \E s \in Requetes : Inserante(requetes[s], cle, a)
  /\ EchecParCollision

-------------------------------------------------------------------------------
(* A text once some entities are replaced *)

\* The sequence of the members of a set of none, or of one.
LEMMA SuiteDUnEnsemble ==
  ASSUME NEW x
  PROVE  SetToSeq({}) = <<>> /\ SetToSeq({x}) = <<x>>
  <1>1. Cardinality({}) = 0 /\ Cardinality({x}) = 1
    BY FS_EmptySet, FS_Singleton
  <1>2. ASSUME NEW f \in [1..0 -> {}] PROVE f = <<>>
    OBVIOUS
  <1>3. SetToSeq({}) = CHOOSE f \in [1..0 -> {}] : IsInjective(f)
    BY <1>1, Zenon DEF SetToSeq
  <1>4. <<>> \in [1..0 -> {}] /\ IsInjective(<<>>)
    BY DEF IsInjective
  <1>5. SetToSeq({}) = <<>>
    BY <1>2, <1>3, <1>4
  <1>6. ASSUME NEW f \in [1..1 -> {x}] PROVE f = <<x>>
    OBVIOUS
  <1>7. SetToSeq({x}) = CHOOSE f \in [1..1 -> {x}] : IsInjective(f)
    BY <1>1, Zenon DEF SetToSeq
  <1>8. <<x>> \in [1..1 -> {x}] /\ IsInjective(<<x>>)
    BY DEF IsInjective
  <1>9. SetToSeq({x}) = <<x>>
    BY <1>6, <1>7, <1>8
  <1>. QED
    BY <1>5, <1>9

\* What shows at place p of a source of n characters when the entities of F, entity i being
\* after a[i] and up to b[i], are replaced: each of them where it begins, then the character.
Morceau(n, a, b, F, p) ==
  SetToSeq({-i : i \in {j \in F : a[j] = p - 1}})
    \o (IF p > n \/ \E i \in F : a[i] < p /\ p <= b[i] THEN <<>> ELSE <<p - 1>>)

Morceaux(n, a, b, F) == [p \in 1..(n + 1) |-> Morceau(n, a, b, F, p)]

\* t is the text with the entities of F replaced; up to fin it is the source.
Compose(n, a, b, F, fin, t) ==
  /\ Morceaux(n, a, b, F) \in Seq(Seq(Int))
  /\ \E L : /\ Cumul(L, Morceaux(n, a, b, F))
            /\ EnPlace(Int, t, Morceaux(n, a, b, F), L, n + 1)
            /\ \A p \in 0..n : p <= fin => L[p] = p

\* The source itself: nothing is replaced.
LEMMA ComposeDepart ==
  ASSUME NEW n \in Nat, NEW a, NEW b
  PROVE  Compose(n, a, b, {}, n + 1, [p \in 1..n |-> p - 1])
  <1>. DEFINE m == Morceaux(n, a, b, {})
              t == [p \in 1..n |-> p - 1]
              L == [k \in 0..(n + 1) |-> IF k = n + 1 THEN n ELSE k]
  <1>1. ASSUME NEW p \in 1..(n + 1) PROVE m[p] = IF p > n THEN <<>> ELSE <<p - 1>>
    <2>1. {-i : i \in {j \in {} : a[j] = p - 1}} = {}
      OBVIOUS
    <2>2. m[p] = SetToSeq({-i : i \in {j \in {} : a[j] = p - 1}})
                   \o (IF p > n \/ \E i \in {} : a[i] < p /\ p <= b[i] THEN <<>> ELSE <<p - 1>>)
      BY DEF Morceaux, Morceau
    <2>3. (\E i \in {} : a[i] < p /\ p <= b[i]) = FALSE
      OBVIOUS
    <2>4. m[p] = <<>> \o (IF p > n THEN <<>> ELSE <<p - 1>>)
      BY <2>1, <2>2, <2>3, SuiteDUnEnsemble, Zenon
    <2>5. (IF p > n THEN <<>> ELSE <<p - 1>>) \in Seq(Int)
      OBVIOUS
    <2>6. \A u \in Seq(Int) : <<>> \o u = u
      OBVIOUS
    <2>. QED
      BY <2>4, <2>5, <2>6, Zenon
  <1>2. m \in Seq(Seq(Int)) /\ Len(m) = n + 1
    <2>1. m = [p \in 1..(n + 1) |-> m[p]] /\ n + 1 \in Nat
      BY DEF Morceaux
    <2>2. \A p \in 1..(n + 1) : m[p] \in Seq(Int)
      <3>. HIDE DEF m
      <3>1. ASSUME NEW p \in 1..(n + 1) PROVE <<>> \in Seq(Int) /\ <<p - 1>> \in Seq(Int)
        BY Courtes
      <3>. QED
        BY <1>1, <3>1
    <2>. HIDE DEF m
    <2>. QED
      BY <2>1, <2>2, FaitUneSuite
  <1>3. Cumul(L, m)
    <2>1. ASSUME NEW k \in 1..(n + 1) PROVE L[k] = L[k - 1] + Len(m[k])
      <3>. HIDE DEF m
      <3>1. Len(<<>>) = 0 /\ Len(<<k - 1>>) = 1
        OBVIOUS
      <3>2. Len(m[k]) = IF k > n THEN 0 ELSE 1
        BY <1>1, <3>1
      <3>. QED
        BY <3>2
    <2>2. L \in [0..(n + 1) -> Nat] /\ L[0] = 0
      OBVIOUS
    <2>. HIDE DEF m, L
    <2>. QED
      BY <1>2, <2>1, <2>2 DEF Cumul
  <1>4. EnPlace(Int, t, m, L, n + 1)
    <2>1. t \in Seq(Int) /\ Len(t) = L[n + 1]
      <3>1. \A p \in 1..n : t[p] \in Int
        OBVIOUS
      <3>2. t = [p \in 1..n |-> t[p]]
        OBVIOUS
      <3>3. L[n + 1] = n
        OBVIOUS
      <3>. HIDE DEF t, L
      <3>. QED
        BY <3>1, <3>2, <3>3, FaitUneSuite
    <2>2. ASSUME NEW k \in 1..(n + 1), NEW p \in 1..Len(m[k]) PROVE t[L[k - 1] + p] = m[k][p]
      <3>. HIDE DEF m
      <3>1. CASE k > n
        <4>1. m[k] = <<>>
          BY <1>1, <3>1
        <4>. QED
          BY <4>1
      <3>2. CASE ~(k > n)
        <4>0. m[k] = <<k - 1>>
          BY <1>1, <3>2
        <4>1. p = 1 /\ m[k][1] = k - 1
          BY <4>0
        <4>2. L[k - 1] = k - 1 /\ k \in 1..n
          BY <3>2
        <4>. QED
          BY <4>1, <4>2
      <3>. QED
        BY <3>1, <3>2
    <2>. HIDE DEF t, m, L
    <2>. QED
      BY <2>1, <2>2 DEF EnPlace
  <1>5. \A p \in 0..n : p <= n + 1 => L[p] = p
    OBVIOUS
  <1>. HIDE DEF m, t, L
  <1>6. /\ m \in Seq(Seq(Int))
        /\ \E M : /\ Cumul(M, m) /\ EnPlace(Int, t, m, M, n + 1)
                  /\ \A p \in 0..n : p <= n + 1 => M[p] = p
    BY <1>2, <1>3, <1>4, <1>5
  <1>. QED
    BY <1>6 DEF Compose, m, t

\* One more entity.
Avec(F, i) == F \union {i}

\* What entity i, which ends before those of F begin, changes at place p.
MorceauDeUnDePlus(n, a, b, F, i, p) ==
  /\ p <= a[i] => Morceau(n, a, b, Avec(F, i), p) = <<p - 1>>
  /\ p = a[i] + 1 => Morceau(n, a, b, Avec(F, i), p) = <<-i>>
  /\ a[i] + 1 < p /\ p <= b[i] => Morceau(n, a, b, Avec(F, i), p) = <<>>
  /\ b[i] < p => Morceau(n, a, b, Avec(F, i), p) = Morceau(n, a, b, F, p)
  /\ p <= b[i] => Morceau(n, a, b, F, p) = <<p - 1>>

\* One more entity replaced, before all the others: only the places it takes change.
LEMMA MorceauxDeUnDePlus ==
  ASSUME NEW n \in Nat, NEW E \in SUBSET Nat, NEW a \in [E -> 0..n], NEW b \in [E -> 0..n],
         NEW F \in SUBSET E, NEW i \in E, a[i] < b[i], \A j \in F : b[i] <= a[j],
         NEW p \in 1..(n + 1)
  PROVE  MorceauDeUnDePlus(n, a, b, F, i, p)
  <1>. DEFINE G == Avec(F, i)
              A(H) == {-k : k \in {j \in H : a[j] = p - 1}}
              R(H) == \E k \in H : a[k] < p /\ p <= b[k]
  <1>1. a[i] \in 0..n /\ b[i] \in 0..n /\ \A j \in F : a[j] \in 0..n /\ b[j] \in 0..n
    OBVIOUS
  <1>2. \A H : Morceau(n, a, b, H, p) =
                 SetToSeq(A(H)) \o (IF p > n \/ R(H) THEN <<>> ELSE <<p - 1>>)
    BY DEF Morceau
  <1>3. /\ <<>> \o <<>> = <<>> /\ \A c : <<c>> \o <<>> = <<c>>
        /\ \A c : <<>> \o <<c>> = <<c>>
    <2>1. ASSUME NEW c PROVE <<>> \o <<c>> = <<c>> /\ <<c>> \o <<>> = <<c>>
      <3>1. <<c>> \in Seq({c})
        OBVIOUS
      <3>2. \A u \in Seq({c}) : <<>> \o u = u /\ u \o <<>> = u
        OBVIOUS
      <3>. QED
        BY <3>1, <3>2
    <2>. QED
      BY <2>1
  <1>4. ASSUME p <= b[i] PROVE A(F) = {} /\ ~R(F) /\ ~(p > n)
    BY <1>1, <1>4
  <1>5. ASSUME p <= a[i] PROVE A(G) = {} /\ ~R(G)
    <2>1. p <= b[i] /\ ~(a[i] < p) /\ a[i] # p - 1
      BY <1>1, <1>5
    <2>. QED
      BY <1>4, <2>1 DEF Avec
  <1>6. ASSUME p = a[i] + 1 PROVE A(G) = {-i} /\ R(G)
    <2>1. p <= b[i] /\ a[i] = p - 1 /\ a[i] < p
      BY <1>1, <1>6
    <2>0. \A j \in F : a[j] # p - 1
      BY <1>1, <2>1
    <2>2. {j \in F : a[j] = p - 1} = {}
      BY <2>0
    <2>3. {j \in G : a[j] = p - 1} = {i}
      BY <2>1, <2>2 DEF Avec
    <2>. QED
      BY <2>1, <2>3 DEF Avec
  <1>7. ASSUME a[i] + 1 < p, p <= b[i] PROVE A(G) = {} /\ R(G)
    <2>1. a[i] < p /\ a[i] # p - 1
      BY <1>1, <1>7
    <2>. QED
      BY <1>4, <1>7, <2>1 DEF Avec
  <1>8. ASSUME b[i] < p PROVE A(G) = A(F) /\ (R(G) <=> R(F))
    <2>1. ~(p <= b[i]) /\ a[i] # p - 1
      BY <1>1, <1>8
    <2>. QED
      BY <2>1 DEF Avec
  <1>. HIDE DEF A, R
  <1>9. ASSUME p <= b[i] PROVE Morceau(n, a, b, F, p) = <<p - 1>>
    <2>1. Morceau(n, a, b, F, p) = <<>> \o <<p - 1>>
      BY <1>2, <1>4, <1>9, SuiteDUnEnsemble, Zenon
    <2>. QED
      BY <1>3, <2>1
  <1>10. ASSUME p <= a[i] PROVE Morceau(n, a, b, G, p) = <<p - 1>>
    <2>1. p <= b[i]
      BY <1>1, <1>10
    <2>2. Morceau(n, a, b, G, p) = <<>> \o <<p - 1>>
      BY <1>2, <1>4, <1>5, <1>10, <2>1, SuiteDUnEnsemble, Zenon
    <2>. QED
      BY <1>3, <2>2
  <1>11. ASSUME p = a[i] + 1 PROVE Morceau(n, a, b, G, p) = <<-i>>
    <2>1. Morceau(n, a, b, G, p) = <<-i>> \o <<>>
      BY <1>2, <1>6, <1>11, SuiteDUnEnsemble, Zenon
    <2>. QED
      BY <1>3, <2>1
  <1>12. ASSUME a[i] + 1 < p, p <= b[i] PROVE Morceau(n, a, b, G, p) = <<>>
    <2>1. Morceau(n, a, b, G, p) = <<>> \o <<>>
      BY <1>2, <1>7, <1>12, SuiteDUnEnsemble, Zenon
    <2>. QED
      BY <1>3, <2>1
  <1>13. ASSUME b[i] < p PROVE Morceau(n, a, b, G, p) = Morceau(n, a, b, F, p)
    BY <1>2, <1>8, <1>13, Zenon
  <1>. QED
    BY <1>9, <1>10, <1>11, <1>12, <1>13 DEF MorceauDeUnDePlus

\* t with what is between x and y replaced by c.
Coupe(t, x, y, c) == SubSeq(t, 1, x) \o <<c>> \o SubSeq(t, y + 1, Len(t))

\* r is t with what is between x and y replaced by c.
EstCoupee(r, t, x, y, c) ==
  /\ r \in Seq(Int) /\ Len(r) = Len(t) - (y - x) + 1
  /\ \A q \in 1..Len(r) : /\ q <= x => r[q] = t[q]
                          /\ q = x + 1 => r[q] = c
  /\ \A q \in 1..Len(r), k \in 1..Len(t) : x + 1 < q /\ k = q + (y - x) - 1 => r[q] = t[k]

LEMMA CoupeBonne ==
  ASSUME NEW t \in Seq(Int), NEW x \in Nat, NEW y \in Nat, x < y, y <= Len(t), NEW c \in Int
  PROVE  EstCoupee(Coupe(t, x, y, c), t, x, y, c)
  <1>. DEFINE m == Len(t)
              avant == SubSeq(t, 1, x)
              milieu == <<c>>
              suite == SubSeq(t, y + 1, m)
  <1>1. m \in Nat
    OBVIOUS
  <1>2. avant \in Seq(Int) /\ Len(avant) = x /\ \A q \in 1..x : avant[q] = t[q]
    <2>1. \A q \in 1..x : 1 + q - 1 = q
      OBVIOUS
    <2>2. x + 1 - 1 = x
      OBVIOUS
    <2>. HIDE DEF m
    <2>3. avant \in Seq(Int) /\ Len(avant) = x + 1 - 1 /\ \A q \in 1..(x + 1 - 1) : avant[q] = t[1 + q - 1]
      BY <1>1, PartieDe DEF m
    <2>. HIDE DEF avant
    <2>. QED
      BY <2>1, <2>2, <2>3
  <1>3. milieu \in Seq(Int) /\ Len(milieu) = 1 /\ milieu[1] = c
    BY Courtes
  <1>4. suite \in Seq(Int) /\ Len(suite) = m - y /\ \A q \in 1..(m - y) : suite[q] = t[(y + 1) + q - 1]
    <2>1. m + 1 - (y + 1) = m - y /\ y + 1 \in Nat /\ y + 1 >= 1 /\ y + 1 <= m + 1
      BY <1>1 DEF m
    <2>2. /\ suite \in Seq(Int) /\ Len(suite) = m + 1 - (y + 1)
          /\ \A q \in 1..(m + 1 - (y + 1)) : suite[q] = t[(y + 1) + q - 1]
      BY <1>1, <2>1, PartieDe DEF m
    <2>. HIDE DEF suite, m
    <2>. QED
      BY <2>1, <2>2
  <1>. HIDE DEF avant, milieu, suite
  <1>5. /\ avant \o milieu \in Seq(Int) /\ Len(avant \o milieu) = x + 1
        /\ \A q \in 1..x : (avant \o milieu)[q] = t[q]
        /\ (avant \o milieu)[x + 1] = c
    <2>1. /\ avant \o <<c>> \in Seq(Int) /\ Len(avant \o <<c>>) = Len(avant) + 1
          /\ (avant \o <<c>>)[Len(avant) + 1] = c
          /\ \A q \in 1..Len(avant) : (avant \o <<c>>)[q] = avant[q]
      BY <1>2, UnALaFin
    <2>2. milieu = <<c>>
      BY DEF milieu
    <2>. QED
      BY <1>2, <2>1, <2>2
  <1>. DEFINE tete == avant \o milieu
  <1>a. tete \in Seq(Int) /\ Len(tete) = x + 1
    BY <1>5
  <1>. HIDE DEF tete, m
  <1>6. /\ tete \o suite \in Seq(Int) /\ Len(tete \o suite) = (x + 1) + (m - y)
        /\ \A q \in 1..(x + 1) : (tete \o suite)[q] = tete[q]
        /\ \A q \in 1..(m - y) : (tete \o suite)[(x + 1) + q] = suite[q]
    <2>1. /\ tete \o suite \in Seq(Int) /\ Len(tete \o suite) = Len(tete) + Len(suite)
          /\ \A q \in 1..Len(tete) : (tete \o suite)[q] = tete[q]
          /\ \A q \in 1..Len(suite) : (tete \o suite)[Len(tete) + q] = suite[q]
      <3>1. tete \in Seq(Int) /\ suite \in Seq(Int)
        BY <1>4, <1>a
      <3>. QED
        BY <3>1, MisALaSuite
    <2>. DEFINE zw == tete \o suite
    <2>. HIDE DEF zw
    <2>. QED
      BY <1>4, <1>a, <2>1 DEF zw
  <1>7. Coupe(t, x, y, c) = tete \o suite
    BY DEF Coupe, tete, avant, milieu, suite, m
  <1>8. (x + 1) + (m - y) = m - (y - x) + 1
    BY <1>1
  <1>9. \A q \in 1..x : (tete \o suite)[q] = t[q]
    <2>1. \A q \in 1..x : q \in 1..(x + 1)
      OBVIOUS
    <2>. QED
      BY <1>5, <1>6, <2>1 DEF tete
  <1>10. (tete \o suite)[x + 1] = c
    <2>1. x + 1 \in 1..(x + 1)
      OBVIOUS
    <2>. QED
      BY <1>5, <1>6, <2>1 DEF tete
  <1>11. ASSUME NEW q \in (x + 2)..(m - (y - x) + 1) PROVE (tete \o suite)[q] = t[q + (y - x) - 1]
    <2>1. /\ q - (x + 1) \in 1..(m - y) /\ (x + 1) + (q - (x + 1)) = q
          /\ (y + 1) + (q - (x + 1)) - 1 = q + (y - x) - 1
      BY <1>1 DEF m
    <2>2. (tete \o suite)[q] = suite[q - (x + 1)]
      BY <1>6, <2>1
    <2>. QED
      BY <1>4, <2>1, <2>2
  <1>. DEFINE r == Coupe(t, x, y, c)
  <1>. HIDE DEF r
  <1>12. /\ r \in Seq(Int) /\ Len(r) = m - (y - x) + 1
         /\ \A q \in 1..x : r[q] = t[q]
         /\ r[x + 1] = c
         /\ \A q \in (x + 2)..(m - (y - x) + 1) : r[q] = t[q + (y - x) - 1]
    BY <1>6, <1>7, <1>8, <1>9, <1>10, <1>11 DEF r
  <1>13. m - (y - x) + 1 \in Nat
    BY <1>1 DEF m
  <1>14. ASSUME NEW q \in 1..Len(r) PROVE (q <= x => r[q] = t[q]) /\ (q = x + 1 => r[q] = c)
    <2>1. CASE q = x + 1
      <3>1. ~(q <= x)
        BY <2>1
      <3>. QED
        BY <1>12, <2>1, <3>1
    <2>2. CASE q # x + 1
      <3>1. q <= x => q \in 1..x
        BY <1>12, <1>13
      <3>. QED
        BY <1>12, <2>2, <3>1
    <2>. QED
      BY <2>1, <2>2
  <1>15. ASSUME NEW q \in 1..Len(r), NEW k \in 1..m, x + 1 < q, k = q + (y - x) - 1
         PROVE  r[q] = t[k]
    <2>1. q \in (x + 2)..(m - (y - x) + 1)
      BY <1>12, <1>13, <1>15
    <2>. QED
      BY <1>12, <1>15, <2>1
  <1>16. EstCoupee(r, t, x, y, c)
    BY <1>12, <1>14, <1>15 DEF EstCoupee, m
  <1>. QED
    BY <1>16 DEF r

\* The places after a replacement are moved as a whole.
LEMMA Decalage ==
  ASSUME NEW x \in Nat, NEW y \in Nat, x < y, NEW k \in Nat, NEW m \in Nat, NEW q \in Nat
  PROVE  /\ k = m + q => k - (y - x) + 1 = (m - (y - x) + 1) + q
         /\ y - (y - x) + 1 = x + 1
         /\ q >= 1 /\ y <= m /\ m + q <= k =>
              /\ (m - (y - x) + 1) + q \in (x + 2)..(k - (y - x) + 1)
              /\ ((m - (y - x) + 1) + q) + (y - x) - 1 = m + q
         /\ y <= m => m - (y - x) + 1 \in Nat
  OBVIOUS

\* One more entity replaced, before all the others.
LEMMA ComposeUnDePlus ==
  ASSUME NEW n \in Nat, NEW E \in SUBSET Nat, NEW a \in [E -> 0..n], NEW b \in [E -> 0..n],
         NEW F \in SUBSET E, NEW i \in E, NEW fin \in Nat, NEW t,
         Compose(n, a, b, F, fin, t), a[i] < b[i], b[i] <= fin, \A j \in F : fin <= a[j]
  PROVE  /\ b[i] <= Len(t)
         /\ Compose(n, a, b, Avec(F, i), a[i], Coupe(t, a[i], b[i], -i))
  <1>. DEFINE de == a[i]
              jusque == b[i]
              par == -i
              G == Avec(F, i)
              mF == Morceaux(n, a, b, F)
              mG == Morceaux(n, a, b, G)
              N == n + 1
  <1>1. /\ de \in 0..n /\ jusque \in 0..n /\ de < jusque /\ par \in Int /\ N \in Nat
        /\ de \in Nat /\ jusque \in Nat
    OBVIOUS
  <1>2. \A j \in F : b[i] <= a[j]
    <2>1. \A j \in F : a[j] \in 0..n
      OBVIOUS
    <2>. QED
      BY <1>1, <2>1
  <1>3. /\ mF = [p \in 1..N |-> mF[p]] /\ mG = [p \in 1..N |-> mG[p]]
        /\ \A p \in 1..N : mF[p] = Morceau(n, a, b, F, p) /\ mG[p] = Morceau(n, a, b, G, p)
    BY DEF Morceaux
  <1>4. /\ mF \in Seq(Seq(Int)) /\ Len(mF) = N
    <2>1. mF \in Seq(Seq(Int))
      BY DEF Compose
    <2>2. DOMAIN mF = 1..N
      BY DEF Morceaux
    <2>. HIDE DEF mF
    <2>. QED
      BY <1>1, <2>1, <2>2
  <1>5. PICK L : /\ Cumul(L, mF) /\ EnPlace(Int, t, mF, L, N)
                 /\ \A p \in 0..n : p <= fin => L[p] = p
    BY Zenon DEF Compose
  <1>6. ASSUME NEW p \in 1..N
        PROVE  /\ p <= de => mG[p] = <<p - 1>>
               /\ p = de + 1 => mG[p] = <<par>>
               /\ de + 1 < p /\ p <= jusque => mG[p] = <<>>
               /\ jusque < p => mG[p] = mF[p]
               /\ p <= jusque => mF[p] = <<p - 1>>
    <2>1. p \in 1..(n + 1)
      OBVIOUS
    <2>2. /\ p <= a[i] => Morceau(n, a, b, Avec(F, i), p) = <<p - 1>>
          /\ p = a[i] + 1 => Morceau(n, a, b, Avec(F, i), p) = <<-i>>
          /\ a[i] + 1 < p /\ p <= b[i] => Morceau(n, a, b, Avec(F, i), p) = <<>>
          /\ b[i] < p => Morceau(n, a, b, Avec(F, i), p) = Morceau(n, a, b, F, p)
          /\ p <= b[i] => Morceau(n, a, b, F, p) = <<p - 1>>
      <3>1. MorceauDeUnDePlus(n, a, b, F, i, p)
        BY <1>2, <2>1, MorceauxDeUnDePlus
      <3>. QED
        BY <3>1 DEF MorceauDeUnDePlus
    <2>3. mF[p] = Morceau(n, a, b, F, p) /\ mG[p] = Morceau(n, a, b, Avec(F, i), p)
      BY <1>3
    <2>. HIDE DEF mF, mG
    <2>. QED
      BY <2>2, <2>3
  <1>7. /\ L[jusque] = jusque /\ L[de] = de /\ t \in Seq(Int) /\ Len(t) = L[N] /\ Len(t) \in Nat
        /\ \A p \in 0..N : L[p] \in Nat
        /\ \A p \in 0..N : jusque <= p => jusque <= L[p] /\ L[p] <= L[N]
        /\ \A p \in 1..N : L[p] = L[p - 1] + Len(mF[p])
        /\ jusque <= Len(t)
    <2>1. L[jusque] = jusque /\ L[de] = de
      BY <1>1, <1>5
    <2>2. t \in Seq(Int) /\ Len(t) = L[N]
      BY <1>5 DEF EnPlace
    <2>3. /\ \A p \in 0..N : L[p] \in Nat
          /\ \A p \in 1..N : L[p] = L[p - 1] + Len(mF[p])
      <3>. HIDE DEF mF, N
      <3>. QED
        BY <1>4, <1>5 DEF Cumul
    <2>4. ASSUME NEW p \in 0..N, jusque <= p PROVE jusque <= L[p] /\ L[p] <= L[N]
      <3>1. jusque \in 0..N /\ p \in jusque..N /\ N \in p..N
        BY <1>1, <2>4
      <3>. HIDE DEF mF, N, de, jusque
      <3>2. L[jusque] <= L[p] /\ L[p] <= L[N]
        BY <1>4, <1>5, <3>1, CumulCroit
      <3>. QED
        BY <2>1, <3>2
    <2>5. N \in 0..N /\ jusque <= N
      BY <1>1
    <2>6. jusque <= Len(t) /\ Len(t) \in Nat
      <3>. HIDE DEF N, jusque
      <3>. QED
        BY <2>2, <2>3, <2>4, <2>5
    <2>. HIDE DEF N, mF
    <2>. QED
      BY <2>1, <2>2, <2>3, <2>4, <2>6
  <1>8. mG \in Seq(Seq(Int)) /\ Len(mG) = N
    <2>1. ASSUME NEW p \in 1..N PROVE mG[p] \in Seq(Int)
      <3>. HIDE DEF mG, mF, N, de, jusque, par
      <3>1. mF[p] \in Seq(Int)
        BY <1>4
      <3>2. <<>> \in Seq(Int) /\ <<par>> \in Seq(Int) /\ <<p - 1>> \in Seq(Int)
        <4>1. p - 1 \in Int
          BY <1>1
        <4>. QED
          BY <1>1, <4>1, Courtes
      <3>3. p <= de \/ p = de + 1 \/ (de + 1 < p /\ p <= jusque) \/ jusque < p
        BY <1>1
      <3>. QED
        BY <1>6, <3>1, <3>2, <3>3
    <2>. HIDE DEF mG, N
    <2>. QED
      BY <1>1, <1>3, <2>1, FaitUneSuite
  <1>. DEFINE M == [p \in 0..N |-> IF p <= de THEN p ELSE IF p <= jusque THEN de + 1
                                   ELSE L[p] - (jusque - de) + 1]
              coupee == Coupe(t, de, jusque, par)
  <1>. HIDE DEF mG, mF, N, de, jusque, par
  <1>9. \A p \in 0..N : /\ M[p] = IF p <= de THEN p ELSE IF p <= jusque THEN de + 1
                                  ELSE L[p] - (jusque - de) + 1
                        /\ M[p] \in Nat
    BY <1>1, <1>7
  <1>10. M = [p \in 0..N |-> M[p]]
    OBVIOUS
  <1>. HIDE DEF M
  <1>b. /\ Len(<<>>) = 0 /\ \A e : Len(<<e>>) = 1 /\ <<e>>[1] = e
        /\ \A p \in 1..N : Len(mG[p]) \in Nat
    BY <1>8
  <1>c. ASSUME NEW p \in 0..N, jusque <= p PROVE M[p] = L[p] - (jusque - de) + 1
    <2>1. CASE p = jusque
      <3>1. M[p] = de + 1 /\ L[p] = jusque
        BY <1>1, <1>7, <1>9, <2>1
      <3>. QED
        BY <1>1, <3>1, Decalage
    <2>2. CASE p # jusque
      <3>1. ~(p <= de) /\ ~(p <= jusque)
        BY <1>1, <1>c, <2>2
      <3>. QED
        BY <1>9, <3>1
    <2>. QED
      BY <2>1, <2>2
  <1>11. ASSUME NEW p \in 1..N PROVE M[p] = M[p - 1] + Len(mG[p])
    <2>1. p - 1 \in 0..N /\ p \in 0..N
      BY <1>1
    <2>2. CASE p <= de
      <3>1. Len(mG[p]) = 1
        BY <1>6, <1>b, <2>2
      <3>. QED
        BY <1>1, <1>9, <2>1, <2>2, <3>1
    <2>3. CASE p = de + 1
      <3>1. Len(mG[p]) = 1
        BY <1>6, <1>b, <2>3
      <3>. QED
        BY <1>1, <1>9, <2>1, <2>3, <3>1
    <2>4. CASE de + 1 < p /\ p <= jusque
      <3>1. Len(mG[p]) = 0
        BY <1>6, <1>b, <2>4
      <3>. QED
        BY <1>1, <1>9, <2>1, <2>4, <3>1
    <2>5. CASE jusque < p
      <3>1. L[p] = L[p - 1] + Len(mG[p]) /\ L[p] \in Nat /\ L[p - 1] \in Nat
            /\ Len(mG[p]) \in Nat
        BY <1>6, <1>7, <1>b, <2>1, <2>5
      <3>2. M[p] = L[p] - (jusque - de) + 1 /\ M[p - 1] = L[p - 1] - (jusque - de) + 1
        <4>1. jusque <= p /\ jusque <= p - 1
          BY <1>1, <2>5
        <4>. QED
          BY <1>c, <2>1, <4>1
      <3>3. jusque - de \in Int
        BY <1>1
      <3>. DEFINE ecart == jusque - de
                  ici == L[p]
                  avant == L[p - 1]
                  pas == Len(mG[p])
      <3>4. ecart \in Int /\ ici \in Nat /\ avant \in Nat /\ pas \in Nat /\ ici = avant + pas
        BY <3>1, <3>3
      <3>5. M[p] = ici - ecart + 1 /\ M[p - 1] = avant - ecart + 1
        BY <3>2
      <3>. HIDE DEF ecart, ici, avant, pas
      <3>6. ici - ecart + 1 = (avant - ecart + 1) + pas
        BY <3>4
      <3>. QED
        BY <3>5, <3>6 DEF pas
    <2>. QED
      BY <1>1, <2>2, <2>3, <2>4, <2>5
  <1>12. Cumul(M, mG)
    <2>1. M[0] = 0
      BY <1>1, <1>9
    <2>2. M \in [0..N -> Nat]
      BY <1>9, <1>10
    <2>. QED
      BY <1>8, <1>11, <2>1, <2>2 DEF Cumul
  <1>. HIDE DEF coupee
  <1>d. EstCoupee(coupee, t, de, jusque, par)
    <2>1. de \in Nat /\ jusque \in Nat /\ de < jusque /\ par \in Int /\ t \in Seq(Int)
          /\ jusque <= Len(t)
      BY <1>1, <1>7
    <2>2. EstCoupee(Coupe(t, de, jusque, par), t, de, jusque, par)
      BY <2>1, CoupeBonne
    <2>. QED
      BY <2>2 DEF coupee
  <1>13. coupee \in Seq(Int) /\ Len(coupee) = Len(t) - (jusque - de) + 1 /\ Len(coupee) \in Nat
    BY <1>d DEF EstCoupee
  <1>14. Len(coupee) = M[N]
    <2>1. N \in 0..N /\ jusque < N
      BY <1>1 DEF N
    <2>. QED
      BY <1>1, <1>7, <1>9, <1>13, <2>1
  <1>15. ASSUME NEW p \in 1..N, NEW q \in 1..Len(mG[p]) PROVE coupee[M[p - 1] + q] = mG[p][q]
    <2>1. p - 1 \in 0..N /\ p \in 0..N
      BY <1>1
    <2>. DEFINE place == M[p - 1] + q
    <2>a. place \in 1..Len(coupee)
      <3>1. M[p] <= M[N]
        <4>1. p \in 0..Len(mG) /\ N \in p..Len(mG)
          BY <1>1, <1>8, <2>1
        <4>. QED
          BY <1>8, <1>12, <4>1, CumulCroit
      <3>2. M[p] = M[p - 1] + Len(mG[p])
        BY <1>11
      <3>3. M[p] \in Nat /\ M[p - 1] \in Nat /\ M[N] \in Nat /\ Len(mG[p]) \in Nat
        <4>1. N \in 0..N
          BY <1>1
        <4>. QED
          BY <1>9, <1>b, <2>1, <4>1
      <3>4. q \in Nat /\ q >= 1 /\ q <= Len(mG[p])
        BY <3>3
      <3>. QED
        <4>. DEFINE e == M[p]
                    f == M[p - 1]
                    g == Len(mG[p])
                    h == M[N]
        <4>1. e \in Nat /\ f \in Nat /\ g \in Nat /\ h \in Nat /\ e = f + g /\ e <= h
              /\ q \in Nat /\ q >= 1 /\ q <= g
          BY <3>1, <3>2, <3>3, <3>4
        <4>. HIDE DEF e, f, g, h
        <4>2. f + q >= 1 /\ f + q <= h /\ f + q \in Nat
          BY <4>1
        <4>. QED
          BY <1>14, <3>3, <4>2 DEF place, f, h
    <2>. HIDE DEF place
    <2>b. /\ place <= de => coupee[place] = t[place]
          /\ place = de + 1 => coupee[place] = par
          /\ \A k \in 1..Len(t) : de + 1 < place /\ k = place + (jusque - de) - 1 => coupee[place] = t[k]
      BY <1>d, <2>a DEF EstCoupee
    <2>2. CASE p <= de
      <3>0. p <= jusque
        BY <1>1, <2>2
      <3>1. mG[p] = <<p - 1>> /\ mF[p] = <<p - 1>>
        <4>. HIDE DEF de, jusque, N
        <4>. QED
          BY <1>6, <2>2, <3>0
      <3>2. q = 1 /\ mG[p][q] = p - 1 /\ 1 \in 1..Len(mF[p]) /\ mF[p][1] = p - 1
        BY <1>b, <3>1
      <3>3. M[p - 1] = p - 1 /\ L[p - 1] = p - 1
        <4>1. p - 1 \in 0..n /\ p - 1 <= fin
          BY <1>1, <2>2 DEF jusque
        <4>. QED
          BY <1>1, <1>5, <1>9, <2>1, <2>2, <4>1
      <3>4. t[L[p - 1] + 1] = p - 1
        BY <1>5, <3>2 DEF EnPlace
      <3>5. place = p /\ L[p - 1] + 1 = p /\ p <= de
        BY <1>1, <2>2, <3>2, <3>3 DEF place
      <3>6. t[p] = p - 1 /\ coupee[p] = t[p]
        BY <2>2, <2>b, <3>4, <3>5
      <3>7. coupee[place] = mG[p][q]
        BY <3>2, <3>5, <3>6
      <3>. QED
        BY <3>7 DEF place
    <2>3. CASE p = de + 1
      <3>1. mG[p] = <<par>>
        BY <1>6, <2>3
      <3>2. q = 1 /\ mG[p][q] = par
        BY <1>b, <3>1
      <3>3. M[p - 1] = de
        BY <1>1, <1>9, <2>1, <2>3
      <3>4. place = de + 1
        BY <1>1, <3>2, <3>3 DEF place
      <3>5. coupee[place] = mG[p][q]
        BY <2>b, <3>2, <3>4
      <3>. QED
        BY <3>5 DEF place
    <2>4. CASE de + 1 < p /\ p <= jusque
      <3>1. mG[p] = <<>>
        BY <1>6, <2>4
      <3>. QED
        BY <1>b, <3>1
    <2>5. CASE jusque < p
      <3>1. mG[p] = mF[p]
        BY <1>6, <2>5
      <3>2. t[L[p - 1] + q] = mF[p][q]
        BY <1>5, <3>1 DEF EnPlace
      <3>3. M[p - 1] = L[p - 1] - (jusque - de) + 1 /\ jusque <= L[p - 1] /\ L[p - 1] \in Nat
        <4>1. jusque <= p - 1
          BY <1>1, <2>5
        <4>. QED
          BY <1>7, <1>c, <2>1, <4>1
      <3>4. L[p - 1] + q <= Len(t) /\ q \in Nat /\ q >= 1
        <4>1. L[p] = L[p - 1] + Len(mF[p]) /\ L[p] <= L[N]
          BY <1>1, <1>7, <2>1, <2>5
        <4>2. Len(mF[p]) \in Nat
          BY <1>4
        <4>3. q \in Nat /\ q >= 1 /\ q <= Len(mF[p])
          BY <3>1, <4>2
        <4>4. L[p] \in Nat /\ L[N] \in Nat
          BY <1>1, <1>7, <2>1
        <4>5. \A e, f, g, j, k \in Nat : e = f + g /\ e <= j /\ k <= g => f + k <= j
          OBVIOUS
        <4>. QED
          BY <1>7, <3>3, <4>1, <4>2, <4>3, <4>4, <4>5, SMTT(30)
      <3>5. /\ M[p - 1] + q \in (de + 2)..(Len(t) - (jusque - de) + 1)
            /\ (M[p - 1] + q) + (jusque - de) - 1 = L[p - 1] + q
        <4>. DEFINE ecart == jusque - de
                    avant == L[p - 1]
                    tout == Len(t)
        <4>1. /\ ecart \in Nat /\ avant \in Nat /\ tout \in Nat /\ q \in Nat /\ de \in Nat
              /\ q >= 1 /\ avant + q <= tout /\ jusque <= avant /\ jusque = de + ecart
          BY <1>1, <1>7, <3>3, <3>4
        <4>2. M[p - 1] = avant - ecart + 1
          BY <3>3
        <4>. HIDE DEF ecart, avant, tout
        <4>3. /\ (avant - ecart + 1) + q \in (de + 2)..(tout - ecart + 1)
              /\ ((avant - ecart + 1) + q) + ecart - 1 = avant + q
          BY <4>1
        <4>4. /\ M[p - 1] + q \in (de + 2)..(tout - ecart + 1)
              /\ (M[p - 1] + q) + ecart - 1 = avant + q
          BY <4>2, <4>3
        <4>. QED
          BY <4>4 DEF ecart, avant, tout
      <3>. DEFINE source == L[p - 1] + q
      <3>6. source \in 1..Len(t)
        <4>. DEFINE avant == L[p - 1]
                    tout == Len(t)
        <4>1. avant \in Nat /\ tout \in Nat /\ q \in Nat /\ q >= 1 /\ avant + q <= tout
          BY <1>7, <3>3, <3>4
        <4>. HIDE DEF avant, tout, source
        <4>2. avant + q \in 1..tout
          BY <4>1
        <4>. QED
          BY <4>2 DEF avant, tout, source
      <3>7. de + 1 < place /\ source = place + (jusque - de) - 1
        <4>. DEFINE ecart == jusque - de
        <4>1. place \in (de + 2)..(Len(t) - ecart + 1) /\ place + ecart - 1 = source
          BY <3>5 DEF place
        <4>2. ecart \in Int /\ Len(t) \in Nat /\ de \in Nat
          BY <1>1, <1>7
        <4>. HIDE DEF ecart, source, place
        <4>3. de + 1 < place /\ source = place + ecart - 1
          BY <4>1, <4>2
        <4>. QED
          BY <4>3 DEF ecart
      <3>8. t[source] = mG[p][q]
        BY <3>1, <3>2
      <3>. HIDE DEF source
      <3>9. coupee[place] = mG[p][q]
        BY <2>b, <3>6, <3>7, <3>8
      <3>. QED
        BY <3>9 DEF place
    <2>. QED
      BY <1>1, <2>2, <2>3, <2>4, <2>5
  <1>16. EnPlace(Int, coupee, mG, M, N)
    BY <1>13, <1>14, <1>15 DEF EnPlace
  <1>17. \A p \in 0..n : p <= de => M[p] = p
    <2>1. \A p \in 0..n : p \in 0..N
      BY DEF N
    <2>. QED
      BY <1>9, <2>1
  <1>18. Compose(n, a, b, G, de, coupee)
    BY <1>8, <1>12, <1>16, <1>17 DEF Compose, mG, N
  <1>. QED
    BY <1>7, <1>18 DEF G, de, jusque, par, coupee

-------------------------------------------------------------------------------
(* The turns of the substitution *)

\* Each turn has its own entity, each entity its turn, and they come in the order of Avant.
LEMMA OrdreDesTours ==
  ASSUME NEW es, NEW n \in Nat, DOMAIN es = 1..n, \A i \in 1..n : es[i].debut \in Nat
  PROVE  /\ \A k \in 1..n : Remontee(es, k) \in 1..n
         /\ \A i \in 1..n : \E k \in 1..n : Remontee(es, k) = i
         /\ \A j, k \in 1..n : j < k => Avant(es, Remontee(es, j), Remontee(es, k))
  <1>. DEFINE Devant(i) == {j \in 1..n : Avant(es, j, i)}
              rang == [i \in 1..n |-> Cardinality(Devant(i)) + 1]
  <1>1. IsFiniteSet(1..n) /\ Cardinality(1..n) = n
    BY FS_Interval
  <1>2. \A i \in 1..n : ~Avant(es, i, i)
    BY DEF Avant
  <1>3. \A i, j, l \in 1..n : Avant(es, i, j) /\ Avant(es, j, l) => Avant(es, i, l)
    BY DEF Avant
  <1>4. \A i, j \in 1..n : i # j => Avant(es, i, j) \/ Avant(es, j, i)
    BY DEF Avant
  <1>5. ASSUME NEW i \in 1..n
        PROVE  /\ IsFiniteSet(Devant(i)) /\ Cardinality(Devant(i)) \in Nat
               /\ Cardinality(Devant(i)) < n
    <2>1. Devant(i) \in SUBSET (1..n) /\ Devant(i) # 1..n
      BY <1>2
    <2>. HIDE DEF Devant
    <2>. QED
      BY <1>1, <2>1, FS_Subset, FS_CardinalityType
  <1>6. ASSUME NEW i \in 1..n, NEW j \in 1..n, Avant(es, i, j)
        PROVE  Cardinality(Devant(i)) < Cardinality(Devant(j))
    <2>1. Devant(i) \in SUBSET Devant(j)
      BY <1>3, <1>6
    <2>2. i \in Devant(j) /\ i \notin Devant(i)
      BY <1>2, <1>6
    <2>. HIDE DEF Devant
    <2>3. Cardinality(Devant(i)) <= Cardinality(Devant(j))
          /\ Cardinality(Devant(i)) # Cardinality(Devant(j))
      BY <1>5, <2>1, <2>2, FS_Subset
    <2>. QED
      BY <1>5, <2>3
  <1>7. rang \in Injection(1..n, 1..n)
    <2>1. rang \in [1..n -> 1..n]
      <3>. HIDE DEF Devant
      <3>. QED
        BY <1>5
    <2>2. \A i, j \in 1..n : rang[i] = rang[j] => i = j
      <3>. HIDE DEF Devant
      <3>. QED
        BY <1>4, <1>5, <1>6
    <2>. HIDE DEF rang
    <2>. QED
      BY <2>1, <2>2 DEF Injection, IsInjective
  <1>8. rang \in Surjection(1..n, 1..n)
    <2>. HIDE DEF rang
    <2>. QED
      BY <1>1, <1>7, FS_Injection
  <1>9. ASSUME NEW k \in 1..n
        PROVE  Remontee(es, k) \in 1..n /\ rang[Remontee(es, k)] = k
    <2>1. PICK i \in 1..n : rang[i] = k
      <3>. HIDE DEF rang
      <3>. QED
        BY <1>8 DEF Surjection
    <2>2. \A j \in 1..n : {l \in DOMAIN es : Avant(es, l, j)} = Devant(j)
      OBVIOUS
    <2>3. \A j \in 1..n : rang[j] = Cardinality(Devant(j)) + 1
      OBVIOUS
    <2>. HIDE DEF Devant, rang
    <2>4. \A c \in Nat : c + 1 = k <=> c = k - 1
      OBVIOUS
    <2>5. \A j \in 1..n : Cardinality(Devant(j)) = k - 1 <=> rang[j] = k
      <3>1. \A j \in 1..n : Cardinality(Devant(j)) \in Nat
        BY <1>5
      <3>. QED
        BY <2>3, <2>4, <3>1
    <2>6. \A j \in 1..n : Cardinality({l \in DOMAIN es : Avant(es, l, j)}) = k - 1 <=> rang[j] = k
      BY <2>2, <2>5, Zenon
    <2>7. Remontee(es, k) = CHOOSE j \in 1..n : Cardinality({l \in DOMAIN es : Avant(es, l, j)}) = k - 1
      BY Zenon DEF Remontee
    <2>. QED
      BY <2>1, <2>6, <2>7
  <1>10. ASSUME NEW i \in 1..n PROVE \E k \in 1..n : Remontee(es, k) = i
    <2>1. rang[i] \in 1..n /\ \A j \in 1..n : rang[i] = rang[j] => i = j
      <3>. HIDE DEF rang
      <3>. QED
        BY <1>7 DEF Injection, IsInjective
    <2>. HIDE DEF rang
    <2>. QED
      BY <1>9, <2>1
  <1>11. ASSUME NEW j \in 1..n, NEW k \in 1..n, j < k
         PROVE  Avant(es, Remontee(es, j), Remontee(es, k))
    <2>. DEFINE u == Remontee(es, j)
                w == Remontee(es, k)
    <2>1. u \in 1..n /\ w \in 1..n /\ rang[u] = j /\ rang[w] = k
      BY <1>9
    <2>2. rang[u] = Cardinality(Devant(u)) + 1 /\ rang[w] = Cardinality(Devant(w)) + 1
      BY <2>1
    <2>. HIDE DEF u, w, rang, Devant
    <2>3. u # w
      BY <1>11, <2>1
    <2>4. ~Avant(es, w, u)
      <3>1. SUFFICES ASSUME Avant(es, w, u) PROVE FALSE
        OBVIOUS
      <3>2. Cardinality(Devant(w)) < Cardinality(Devant(u))
        BY <1>6, <2>1, <3>1
      <3>3. Cardinality(Devant(w)) \in Nat /\ Cardinality(Devant(u)) \in Nat
        BY <1>5, <2>1
      <3>. QED
        BY <1>11, <2>1, <2>2, <3>2, <3>3
    <2>5. Avant(es, u, w)
      BY <1>4, <2>1, <2>3, <2>4
    <2>. QED
      BY <2>5 DEF u, w
  <1>. QED
    BY <1>9, <1>10, <1>11

\* The entities replaced so far.
Faites(acc) == {acc.remplaces[q] : q \in DOMAIN acc.remplaces}

\* Entity i is replaced, has no place in the source, or meets one that is replaced.
Traitee(a, b, F, i) == i \in F \/ a[i] = b[i] \/ \E j \in F : a[i] < b[j] /\ a[j] < b[i]

\* The substitution so far: the text is the source with the entities replaced, which lie
\* after fin, the place of the last one replaced.
TexteSuivi(n, m, a, b, acc) ==
  /\ acc = [texte |-> acc.texte, fin |-> acc.fin, nombre |-> acc.nombre,
            remplaces |-> acc.remplaces]
  /\ acc.remplaces \in Seq(1..m) /\ Faites(acc) \in SUBSET (1..m)
  /\ acc.texte \in Seq(Int) /\ acc.fin \in Nat
  /\ Compose(n, a, b, Faites(acc), acc.fin, acc.texte)
  /\ \A j \in Faites(acc) : acc.fin <= a[j] /\ a[j] < b[j]
  /\ acc.fin = n + 1 \/ \E j \in Faites(acc) : acc.fin = a[j]
  /\ IsFiniteSet(Faites(acc)) /\ acc.nombre = Cardinality(Faites(acc))

\* It is the turn of entity i, which begins before those replaced.
TourVenu(x, es, n, m, a, b, acc, i) ==
  /\ TexteSuivi(n, m, a, b, acc)
  /\ i \in 1..m /\ SpanDe(x, es[i]) = <<a[i], b[i]>> /\ a[i] <= b[i]
  /\ \A j \in Faites(acc) : a[i] <= a[j]

\* What the turn of entity i leaves.
TourFait(n, m, a, b, acc, suite, i) ==
  /\ TexteSuivi(n, m, a, b, suite) /\ Traitee(a, b, Faites(suite), i)
  /\ Faites(suite) = Faites(acc) \/ Faites(suite) = Avec(Faites(acc), i)

LEMMA UnTour ==
  ASSUME NEW x, NEW es, NEW n \in Nat, NEW m \in Nat, NEW a \in [1..m -> 0..n],
         NEW b \in [1..m -> 0..n], NEW acc, NEW i, TourVenu(x, es, n, m, a, b, acc, i)
  PROVE  TourFait(n, m, a, b, acc, Substituer(x, es, acc, i), i)
  <1>0. /\ TexteSuivi(n, m, a, b, acc)
        /\ i \in 1..m /\ SpanDe(x, es[i]) = <<a[i], b[i]>> /\ a[i] <= b[i]
        /\ \A j \in Faites(acc) : a[i] <= a[j]
    BY DEF TourVenu
  <1>. DEFINE F == Faites(acc)
              suite == Substituer(x, es, acc, i)
              de == a[i]
              jusque == b[i]
              par == -i
              coupee == Coupe(acc.texte, de, jusque, par)
              faite == [acc EXCEPT !.texte = coupee, !.fin = de, !.nombre = acc.nombre + 1,
                                   !.remplaces = Append(acc.remplaces, i)]
  <1>1. suite = IF de >= jusque \/ jusque > Len(acc.texte) \/ jusque > acc.fin THEN acc ELSE faite
    <2>1. SpanDe(x, es[i])[1] = de /\ SpanDe(x, es[i])[2] = jusque
      BY <1>0
    <2>. QED
      BY <2>1 DEF Substituer, Coupe
  <1>2. /\ de \in Nat /\ jusque \in Nat /\ de <= jusque /\ jusque <= n /\ par \in Int
        /\ \A j \in 1..m : a[j] \in Nat /\ b[j] \in Nat
    BY <1>0
  <1>3. /\ acc = [texte |-> acc.texte, fin |-> acc.fin, nombre |-> acc.nombre,
                  remplaces |-> acc.remplaces]
        /\ acc.remplaces \in Seq(1..m) /\ F \in SUBSET (1..m)
        /\ acc.texte \in Seq(Int) /\ acc.fin \in Nat
        /\ Compose(n, a, b, F, acc.fin, acc.texte)
        /\ \A j \in F : acc.fin <= a[j] /\ a[j] < b[j]
        /\ acc.fin = n + 1 \/ \E j \in F : acc.fin = a[j]
        /\ IsFiniteSet(F) /\ acc.nombre = Cardinality(F)
    BY <1>0 DEF TexteSuivi
  <1>4. \A j \in F : de <= a[j]
    BY <1>0
  <1>. HIDE DEF F, suite, de, jusque, par, coupee
  <1>5. CASE de >= jusque
    <2>1. suite = acc /\ de = jusque
      BY <1>1, <1>2, <1>5
    <2>2. Traitee(a, b, F, i)
      BY <2>1 DEF Traitee, de, jusque
    <2>. QED
      BY <1>0, <2>1, <2>2 DEF F, suite, TourFait
  <1>6. CASE de < jusque /\ jusque > acc.fin
    <2>1. suite = acc
      BY <1>1, <1>6
    <2>2. PICK j \in F : acc.fin = a[j]
      BY <1>2, <1>3, <1>6
    <2>3. a[j] < jusque /\ de < b[j]
      <3>1. a[j] \in Nat /\ b[j] \in Nat /\ a[j] < b[j] /\ de <= a[j]
        BY <1>2, <1>3, <1>4
      <3>. QED
        BY <1>2, <1>6, <2>2, <3>1
    <2>4. Traitee(a, b, F, i)
      BY <2>3 DEF Traitee, de, jusque
    <2>. QED
      BY <1>0, <2>1, <2>4 DEF F, suite, TourFait
  <1>7. CASE de < jusque /\ jusque <= acc.fin
    <2>1. jusque <= Len(acc.texte) /\ Compose(n, a, b, Avec(F, i), de, coupee)
      <3>1. \A j \in F : acc.fin <= a[j]
        BY <1>3
      <3>. DEFINE E == 1..m
                  fin == acc.fin
                  t == acc.texte
      <3>2. E \in SUBSET Nat /\ a \in [E -> 0..n] /\ b \in [E -> 0..n] /\ F \in SUBSET E /\ i \in E
            /\ fin \in Nat
        BY <1>0, <1>3
      <3>3. Compose(n, a, b, F, fin, t) /\ a[i] < b[i] /\ b[i] <= fin /\ \A j \in F : fin <= a[j]
        BY <1>3, <1>7, <3>1 DEF de, jusque
      <3>. HIDE DEF E, fin, t
      <3>4. /\ b[i] <= Len(t)
            /\ Compose(n, a, b, Avec(F, i), a[i], Coupe(t, a[i], b[i], -i))
        BY <3>2, <3>3, ComposeUnDePlus
      <3>. QED
        BY <3>4 DEF de, jusque, par, coupee, t
    <2>2. suite = faite
      <3>1. ~(de >= jusque) /\ ~(jusque > Len(acc.texte)) /\ ~(jusque > acc.fin)
        <4>1. Len(acc.texte) \in Nat
          BY <1>3
        <4>. QED
          BY <1>2, <1>3, <1>7, <2>1, <4>1
      <3>. QED
        BY <1>1, <3>1
    <2>3. i \notin F
      <3>1. SUFFICES ASSUME i \in F PROVE FALSE
        OBVIOUS
      <3>2. acc.fin <= de
        BY <1>3, <3>1 DEF de
      <3>. QED
        BY <1>2, <1>3, <1>7, <3>2
    <2>4. /\ faite = [texte |-> coupee, fin |-> de, nombre |-> acc.nombre + 1,
                      remplaces |-> Append(acc.remplaces, i)]
      <3>. DEFINE ensuite == Append(acc.remplaces, i)
                  plus == acc.nombre + 1
      <3>1. faite = [acc EXCEPT !.texte = coupee, !.fin = de, !.nombre = plus, !.remplaces = ensuite]
        OBVIOUS
      <3>2. acc = [texte |-> acc.texte, fin |-> acc.fin, nombre |-> acc.nombre,
                   remplaces |-> acc.remplaces]
        BY <1>3
      <3>. HIDE DEF ensuite, plus, faite
      <3>3. faite = [texte |-> coupee, fin |-> de, nombre |-> plus, remplaces |-> ensuite]
        BY <3>1, <3>2
      <3>. QED
        BY <3>3 DEF ensuite, plus
    <2>. HIDE DEF faite
    <2>5. /\ faite.texte = coupee /\ faite.fin = de /\ faite.nombre = acc.nombre + 1
          /\ faite.remplaces = Append(acc.remplaces, i)
          /\ faite = [texte |-> faite.texte, fin |-> faite.fin, nombre |-> faite.nombre,
                      remplaces |-> faite.remplaces]
      BY <2>4
    <2>6. Append(acc.remplaces, i) \in Seq(1..m) /\ Faites(faite) = Avec(F, i)
      <3>. DEFINE rs == acc.remplaces
                  suivants == Append(rs, i)
      <3>1. rs \in Seq(1..m)
        BY <1>3
      <3>. HIDE DEF rs
      <3>0. i \in 1..m
        BY <1>0
      <3>2. /\ suivants \in Seq(1..m) /\ DOMAIN rs = 1..Len(rs) /\ Len(rs) \in Nat
            /\ DOMAIN suivants = 1..(Len(rs) + 1)
            /\ \A q \in 1..Len(rs) : suivants[q] = rs[q]
            /\ suivants[Len(rs) + 1] = i
        BY <3>0, <3>1
      <3>. HIDE DEF suivants
      <3>3. \A e : (\E q \in DOMAIN suivants : e = suivants[q])
                      <=> e = i \/ \E q \in DOMAIN rs : e = rs[q]
        <4>1. \A q \in 1..(Len(rs) + 1) : q \in 1..Len(rs) \/ q = Len(rs) + 1
          BY <3>2
        <4>2. Len(rs) + 1 \in 1..(Len(rs) + 1) /\ \A q \in 1..Len(rs) : q \in 1..(Len(rs) + 1)
          BY <3>2, SMTT(30)
        <4>. QED
          BY <3>2, <4>1, <4>2
      <3>4. F = {rs[q] : q \in DOMAIN rs} /\ Faites(faite) = {suivants[q] : q \in DOMAIN suivants}
        BY <2>5 DEF F, Faites, rs, suivants
      <3>5. Faites(faite) = Avec(F, i)
        BY <3>3, <3>4 DEF Avec
      <3>. QED
        BY <3>2, <3>5 DEF suivants, rs
    <2>7. IsFiniteSet(Avec(F, i)) /\ Cardinality(Avec(F, i)) = acc.nombre + 1
      BY <1>3, <2>3, FS_AddElement DEF Avec
    <2>8. coupee \in Seq(Int)
      <3>1. EstCoupee(coupee, acc.texte, de, jusque, par)
        BY <1>2, <1>3, <1>7, <2>1, CoupeBonne DEF coupee
      <3>. QED
        BY <3>1 DEF EstCoupee
    <2>9. /\ \A j \in Avec(F, i) : de <= a[j] /\ a[j] < b[j]
          /\ \E j \in Avec(F, i) : de = a[j]
          /\ Avec(F, i) \in SUBSET (1..m) /\ i \in Avec(F, i)
      <3>1. \A j : j \in Avec(F, i) <=> j \in F \/ j = i
        BY DEF Avec
      <3>2. \A j \in F : de <= a[j] /\ a[j] < b[j]
        BY <1>0, <1>2, <1>3, <1>4, <1>7 DEF de, jusque
      <3>3. de <= a[i] /\ a[i] < b[i] /\ de = a[i] /\ i \in 1..m /\ F \in SUBSET (1..m)
        BY <1>0, <1>2, <1>3, <1>4, <1>7 DEF de, jusque
      <3>. HIDE DEF de
      <3>. QED
        BY <3>1, <3>2, <3>3
    <2>10. TexteSuivi(n, m, a, b, faite)
      BY <1>2, <2>1, <2>5, <2>6, <2>7, <2>8, <2>9 DEF TexteSuivi
    <2>. QED
      BY <2>2, <2>6, <2>9, <2>10 DEF Traitee, suite, F, TourFait
  <1>. QED
    BY <1>2, <1>3, <1>5, <1>6, <1>7

\* What turn k leaves, f being what the turns before left.
LeTour(x, es, depart, f, k) ==
  IF k = 0 THEN depart ELSE Substituer(x, es, f[k - 1], Remontee(es, k))

ToursFaits(x, es, depart, n) ==
  \E f : f = [k \in 0..n |-> LeTour(x, es, depart, f, k)]

\* The turns can all be made.
LEMMA ToursRecursifs ==
  ASSUME NEW x, NEW es, NEW depart, NEW n \in Nat
  PROVE  ToursFaits(x, es, depart, n)
  <1>. USE DEF LeTour
  <1>. DEFINE Tour(f, k) == LeTour(x, es, depart, f, k)
              Existe(m) == \E f : f = [k \in 0..m |-> Tour(f, k)]
              T == {m \in Nat : ~Existe(m)}
  <1>1. ASSUME NEW m \in T, \A y \in T : m <= y PROVE FALSE
    <2>1. CASE m = 0
      <3>. DEFINE f == [k \in 0..0 |-> depart]
      <3>1. f = [k \in 0..0 |-> Tour(f, k)]
        OBVIOUS
      <3>. QED
        BY <2>1, <3>1
    <2>2. CASE m # 0
      <3>1. m - 1 \in Nat /\ m - 1 \notin T
        <4>1. m \in Nat
          OBVIOUS
        <4>. HIDE DEF T
        <4>. QED
          BY <1>1, <2>2, <4>1
      <3>2. PICK g : g = [k \in 0..(m - 1) |-> Tour(g, k)]
        BY <3>1
      <3>. DEFINE f == [k \in 0..m |-> IF k < m THEN g[k] ELSE Tour(g, m)]
      <3>3. ASSUME NEW k \in 0..m PROVE f[k] = Tour(f, k)
        <4>1. k # 0 => k - 1 \in 0..(m - 1) /\ f[k - 1] = g[k - 1]
          OBVIOUS
        <4>2. Tour(f, k) = Tour(g, k)
          BY <4>1
        <4>3. CASE k < m
          <5>1. k \in 0..(m - 1) /\ f[k] = g[k]
            BY <4>3
          <5>. HIDE DEF Tour, f
          <5>2. \A l \in 0..(m - 1) : g[l] = Tour(g, l)
            BY <3>2
          <5>. QED
            BY <4>2, <5>1, <5>2
        <4>4. CASE ~(k < m)
          <5>1. k = m /\ f[k] = Tour(g, m)
            BY <4>4
          <5>. HIDE DEF Tour, f
          <5>. QED
            BY <4>2, <5>1
        <4>. QED
          BY <4>3, <4>4
      <3>4. f = [k \in 0..m |-> Tour(f, k)]
        <4>. HIDE DEF Tour
        <4>1. f = [k \in 0..m |-> f[k]]
          OBVIOUS
        <4>. HIDE DEF f
        <4>. QED
          BY <3>3, <4>1
      <3>5. Existe(m)
        <4>. HIDE DEF f, Tour
        <4>. QED
          BY <3>4
      <3>. QED
        BY <3>5
    <2>. QED
      BY <2>1, <2>2
  <1>2. T = {}
    <2>1. T \in SUBSET Nat
      OBVIOUS
    <2>. HIDE DEF T
    <2>. QED
      BY <1>1, <2>1, NatMinimal
  <1>. QED
    BY <1>2 DEF ToursFaits

\* The source, before any turn.
LEMMA DepartSuivi ==
  ASSUME NEW n \in Nat, NEW m \in Nat, NEW a, NEW b, NEW acc,
         acc = [texte |-> [p \in 1..n |-> p - 1], fin |-> n + 1, nombre |-> 0, remplaces |-> <<>>]
  PROVE  TexteSuivi(n, m, a, b, acc) /\ Faites(acc) = {}
  <1>. DEFINE source == [p \in 1..n |-> p - 1]
  <1>1. Compose(n, a, b, {}, n + 1, source)
    BY ComposeDepart
  <1>2. source \in Seq(Int)
    <2>1. source \in [1..n -> Int]
      OBVIOUS
    <2>. HIDE DEF source
    <2>. QED
      BY <2>1
  <1>3. /\ acc.texte = source /\ acc.fin = n + 1 /\ acc.nombre = 0 /\ acc.remplaces = <<>>
        /\ acc = [texte |-> acc.texte, fin |-> acc.fin, nombre |-> acc.nombre,
                  remplaces |-> acc.remplaces]
    OBVIOUS
  <1>. HIDE DEF source
  <1>4. Faites(acc) = {}
    BY <1>3 DEF Faites
  <1>5. <<>> \in Seq(1..m) /\ n + 1 \in Nat
    OBVIOUS
  <1>6. IsFiniteSet({}) /\ Cardinality({}) = 0
    BY FS_EmptySet
  <1>7. TexteSuivi(n, m, a, b, acc)
    BY <1>1, <1>2, <1>3, <1>4, <1>5, <1>6 DEF TexteSuivi
  <1>. QED
    BY <1>4, <1>7

\* After turn k: the entities replaced had a turn, and each that had one is accounted for.
ToursSuivis(n, m, a, b, es, acc, k) ==
  /\ TexteSuivi(n, m, a, b, acc)
  /\ \A j \in Faites(acc) : \E l \in 1..k : j = Remontee(es, l)
  /\ \A l \in 1..k : Traitee(a, b, Faites(acc), Remontee(es, l))

\* a and b are the places of the entities in the source, in the order of the text.
Placees(x, es, n, m, a, b) ==
  /\ a \in [1..m -> 0..n] /\ b \in [1..m -> 0..n]
  /\ \A i \in 1..m : es[i].debut \in Nat /\ SpanDe(x, es[i]) = <<a[i], b[i]>> /\ a[i] <= b[i]
  /\ \A i, j \in 1..m : es[i].debut <= es[j].debut => a[i] <= a[j]

\* The text once all the turns are made.
LEMMA TexteApplique ==
  ASSUME NEW d, NEW x, NEW es, NEW n \in Nat, NEW m \in Nat, DOMAIN x.brut = 1..n, Len(x.brut) = n,
         DOMAIN es = 1..m, Len(es) = m, NEW a, NEW b, Placees(x, es, n, m, a, b)
  PROVE  \E acc : /\ TexteSuivi(n, m, a, b, acc)
                  /\ \A i \in 1..m : Traitee(a, b, Faites(acc), i)
                  /\ AppliquerTexte(d, x, es).texte = acc.texte
                  /\ AppliquerTexte(d, x, es).nombre = acc.nombre
                  /\ AppliquerTexte(d, x, es).remplaces = acc.remplaces
  <1>. DEFINE depart == [texte |-> [p \in DOMAIN x.brut |-> p - 1], fin |-> Len(x.brut) + 1,
                         nombre |-> 0, remplaces |-> <<>>]
              Tour(f, k) == LeTour(x, es, depart, f, k)
              apres == CHOOSE f : f = [k \in 0..m |-> Tour(f, k)]
              Ok(k) == ToursSuivis(n, m, a, b, es, apres[k], k)
              T == {k \in 0..m : ~Ok(k)}
  <1>0. /\ a \in [1..m -> 0..n] /\ b \in [1..m -> 0..n] /\ \A i \in 1..m : es[i].debut \in Nat
        /\ \A i \in 1..m : SpanDe(x, es[i]) = <<a[i], b[i]>> /\ a[i] <= b[i]
        /\ \A i, j \in 1..m : es[i].debut <= es[j].debut => a[i] <= a[j]
    BY DEF Placees
  <1>. USE <1>0
  <1>1. apres = [k \in 0..m |-> Tour(apres, k)]
    <2>. HIDE DEF depart
    <2>1. ToursFaits(x, es, depart, m)
      BY ToursRecursifs
    <2>2. \E f : f = [k \in 0..m |-> Tour(f, k)]
      BY <2>1 DEF ToursFaits
    <2>. HIDE DEF Tour
    <2>. QED
      BY <2>2
  <1>2. /\ AppliquerTexte(d, x, es).texte = apres[m].texte
        /\ AppliquerTexte(d, x, es).nombre = apres[m].nombre
        /\ AppliquerTexte(d, x, es).remplaces = apres[m].remplaces
    <2>1. AppliquerTexte(d, x, es) =
            [Rendu(d) EXCEPT !.texte = apres[m].texte, !.nombre = apres[m].nombre,
                             !.remplaces = apres[m].remplaces]
      BY DEF AppliquerTexte, LeTour
    <2>. HIDE DEF apres
    <2>. QED
      BY <2>1 DEF Rendu
  <1>3. TexteSuivi(n, m, a, b, depart) /\ Faites(depart) = {}
    BY DepartSuivi
  <1>4. /\ \A k \in 1..m : Remontee(es, k) \in 1..m
        /\ \A i \in 1..m : \E k \in 1..m : Remontee(es, k) = i
        /\ \A j, k \in 1..m : j < k => Avant(es, Remontee(es, j), Remontee(es, k))
    BY OrdreDesTours
  <1>5. ASSUME NEW j \in 1..m, NEW k \in 1..m, j < k PROVE a[Remontee(es, k)] <= a[Remontee(es, j)]
    <2>1. Remontee(es, k) \in 1..m /\ Remontee(es, j) \in 1..m /\ Avant(es, Remontee(es, j), Remontee(es, k))
      BY <1>4, <1>5
    <2>. DEFINE u == Remontee(es, k)
                w == Remontee(es, j)
    <2>2. es[u].debut \in Nat /\ es[w].debut \in Nat /\ u \in 1..m /\ w \in 1..m /\ Avant(es, w, u)
      BY <2>1
    <2>. HIDE DEF u, w
    <2>3. es[u].debut <= es[w].debut
      BY <2>2 DEF Avant
    <2>4. a[u] <= a[w]
      BY <2>2, <2>3
    <2>. QED
      BY <2>4 DEF u, w
  <1>6. ASSUME NEW k \in 0..m PROVE apres[k] = Tour(apres, k)
    <2>. HIDE DEF Tour, apres
    <2>. QED
      BY <1>1
  <1>7. \A i \in 1..m : SpanDe(x, es[i]) = <<a[i], b[i]>> /\ a[i] <= b[i]
    OBVIOUS
  <1>. HIDE DEF apres, depart
  <1>8. T = {}
    <2>1. SUFFICES ASSUME T # {} PROVE FALSE
      OBVIOUS
    <2>2. PICK k \in T : \A y \in T : k <= y
      <3>1. T \in SUBSET Nat
        OBVIOUS
      <3>. HIDE DEF T
      <3>. QED
        BY <2>1, <3>1, NatMinimal
    <2>3. k \in 0..m /\ ~Ok(k)
      OBVIOUS
    <2>4. CASE k = 0
      <3>1. apres[k] = depart
        BY <1>6, <2>3, <2>4 DEF LeTour
      <3>. QED
        BY <1>3, <2>3, <2>4, <3>1 DEF ToursSuivis
    <2>5. CASE k # 0
      <3>1. k \in 1..m /\ k - 1 \in 0..m /\ ~ (k <= k - 1)
        BY <2>3, <2>5
      <3>2. apres[k] = Substituer(x, es, apres[k - 1], Remontee(es, k))
        BY <1>6, <2>3, <2>5 DEF LeTour
      <3>3. Remontee(es, k) \in 1..m
        BY <1>4, <3>1
      <3>4. Ok(k - 1)
        <4>. HIDE DEF Ok
        <4>. QED
          BY <2>2, <3>1
      <3>. DEFINE acc == apres[k - 1]
                  i == Remontee(es, k)
                  suite == Substituer(x, es, acc, i)
      <3>5. /\ TexteSuivi(n, m, a, b, acc)
            /\ \A j \in Faites(acc) : \E l \in 1..(k - 1) : j = Remontee(es, l)
            /\ \A l \in 1..(k - 1) : Traitee(a, b, Faites(acc), Remontee(es, l))
        BY <3>4 DEF ToursSuivis
      <3>. HIDE DEF acc
      <3>6. \A j \in Faites(acc) : a[i] <= a[j]
        <4>1. \A l \in 1..(k - 1) : l \in 1..m /\ l < k
          BY <3>1, SMTT(30)
        <4>. QED
          BY <1>5, <3>1, <3>5, <4>1
      <3>. HIDE DEF suite
      <3>7. i \in 1..m /\ SpanDe(x, es[i]) = <<a[i], b[i]>> /\ a[i] <= b[i] /\ i = Remontee(es, k)
        BY <1>7, <3>3
      <3>. HIDE DEF i
      <3>8. /\ TexteSuivi(n, m, a, b, suite) /\ Traitee(a, b, Faites(suite), i)
            /\ Faites(suite) = Faites(acc) \/ Faites(suite) = Avec(Faites(acc), i)
        <4>1. TourVenu(x, es, n, m, a, b, acc, i)
          BY <3>5, <3>6, <3>7 DEF TourVenu
        <4>2. TourFait(n, m, a, b, acc, suite, i)
          BY <4>1, UnTour DEF suite
        <4>. QED
          BY <4>2 DEF TourFait
      <3>9. /\ Faites(acc) \subseteq Faites(suite)
            /\ \A j \in Faites(suite) : j \in Faites(acc) \/ j = i
        BY <3>8 DEF Avec
      <3>10. /\ k \in 1..k /\ \A l \in 1..(k - 1) : l \in 1..k
             /\ \A l \in 1..k : l = k \/ l \in 1..(k - 1)
        BY <3>1
      <3>11. \A j \in Faites(suite) : \E l \in 1..k : j = Remontee(es, l)
        BY <3>5, <3>7, <3>9, <3>10
      <3>12. \A l \in 1..k : Traitee(a, b, Faites(suite), Remontee(es, l))
        <4>1. \A j : Traitee(a, b, Faites(acc), j) => Traitee(a, b, Faites(suite), j)
          BY <3>9 DEF Traitee
        <4>. QED
          BY <3>5, <3>7, <3>8, <3>10, <4>1
      <3>13. apres[k] = suite
        BY <3>2 DEF suite, acc, i
      <3>14. Ok(k)
        BY <3>8, <3>11, <3>12, <3>13 DEF ToursSuivis
      <3>. QED
        BY <2>3, <3>14
    <2>. QED
      BY <2>4, <2>5
  <1>9. Ok(m)
    <2>1. m \in 0..m
      OBVIOUS
    <2>. HIDE DEF Ok
    <2>. QED
      BY <1>8, <2>1
  <1>10. \A i \in 1..m : Traitee(a, b, Faites(apres[m]), i)
    BY <1>4, <1>9 DEF ToursSuivis
  <1>. QED
    BY <1>2, <1>9, <1>10 DEF ToursSuivis

-------------------------------------------------------------------------------
(* The place of an entity in the source *)

\* Its place is in the source, in the order of the text.
LEMMA PlaceDe ==
  ASSUME NEW x, ResultatBon(x), NEW e, Detectee(x, e)
  PROVE  /\ x.brut \in Seq(Car) /\ x.texte = normaliser(x.brut) /\ x.texte.texte = TexteDe(x.brut)
         /\ e.debut \in Nat /\ e.fin \in Nat /\ e.debut < e.fin /\ e.fin <= Len(TexteDe(x.brut))
         /\ TableDe(x.brut)[e.debut + 1] \in 0..Len(x.brut)
         /\ TableDe(x.brut)[e.fin + 1] \in 0..Len(x.brut)
         /\ TableDe(x.brut)[e.debut + 1] <= TableDe(x.brut)[e.fin + 1]
         /\ SpanDe(x, e) = <<TableDe(x.brut)[e.debut + 1], TableDe(x.brut)[e.fin + 1]>>
  <1>. DEFINE s == x.brut
              t == TexteDe(s)
              T == TableDe(s)
              p == e.debut
              q == e.fin
  <1>1. s \in Seq(Car) /\ x.texte = normaliser(s) /\ x.texte.texte = t /\ x.texte.table = T
    BY DEF ResultatBon, TexteDe, TableDe
  <1>2. p \in Nat /\ q \in Nat /\ p < q /\ q <= Len(t)
    <2>1. p \in Nat /\ q \in Nat /\ p < q /\ q <= Len(x.texte.texte)
      BY DEF Detectee, Trouvable
    <2>. QED
      BY <1>1, <2>1
  <1>3. /\ Len(t) \in Nat /\ T \in Seq(Nat) /\ Len(T) = Len(t) + 1
        /\ \A i \in 1..Len(t) : T[i] \in 0..(Len(s) - 1)
        /\ T[Len(t) + 1] = Len(s)
        /\ \A i, j \in 1..(Len(t) + 1) : i <= j => T[i] <= T[j]
    BY <1>1, NormaliserBon
  <1>4. Len(s) \in Nat
    BY <1>1
  <1>5. SpanDe(x, e) = <<vers_source(x.texte, p), vers_source(x.texte, q)>>
    BY DEF SpanDe, span_source
  <1>. HIDE DEF s, t, T, p, q
  <1>6. ASSUME NEW o \in Nat, o <= Len(t)
        PROVE  T[o + 1] \in 0..Len(s) /\ vers_source(x.texte, o) = T[o + 1]
    <2>1. o + 1 \in 1..(Len(t) + 1) /\ o < Len(T) /\ ~(o < 0) /\ ~(o >= Len(T))
      BY <1>3, <1>6
    <2>2. vers_source(x.texte, o) = T[o + 1]
      BY <1>1, <2>1 DEF vers_source
    <2>3. CASE o + 1 \in 1..Len(t)
      <3>1. T[o + 1] \in 0..(Len(s) - 1)
        BY <1>3, <2>3
      <3>2. \A v \in 0..(Len(s) - 1) : v \in 0..Len(s)
        BY <1>4
      <3>. QED
        BY <2>2, <3>1, <3>2
    <2>4. CASE o + 1 = Len(t) + 1
      BY <1>3, <1>4, <2>2, <2>4
    <2>. QED
      BY <1>3, <2>1, <2>3, <2>4
  <1>7. p <= Len(t)
    BY <1>2, <1>3
  <1>8. T[p + 1] \in 0..Len(s) /\ vers_source(x.texte, p) = T[p + 1]
    BY <1>2, <1>6, <1>7
  <1>9. T[q + 1] \in 0..Len(s) /\ vers_source(x.texte, q) = T[q + 1]
    BY <1>2, <1>6
  <1>10. T[p + 1] <= T[q + 1]
    <2>1. p + 1 \in 1..(Len(t) + 1) /\ q + 1 \in 1..(Len(t) + 1) /\ p + 1 <= q + 1
      BY <1>2, <1>3
    <2>. QED
      BY <1>3, <2>1
  <1>11. SpanDe(x, e) = <<T[p + 1], T[q + 1]>>
    BY <1>5, <1>8, <1>9
  <1>. QED
    BY <1>1, <1>2, <1>8, <1>9, <1>10, <1>11 DEF s, t, T, p, q

\* The places of the entities of a list, in the order in which they begin.
LEMMA PlacesDe ==
  ASSUME NEW x, ResultatBon(x), NEW m \in Nat, NEW es, \A i \in 1..m : Detectee(x, es[i])
  PROVE  /\ x.brut \in Seq(Car) /\ Len(x.brut) \in Nat /\ DOMAIN x.brut = 1..Len(x.brut)
         /\ \E a, b : Placees(x, es, Len(x.brut), m, a, b)
  <1>. DEFINE T == TableDe(x.brut)
              a == [i \in 1..m |-> T[es[i].debut + 1]]
              b == [i \in 1..m |-> T[es[i].fin + 1]]
  <1>1. x.brut \in Seq(Car) /\ Len(x.brut) \in Nat /\ DOMAIN x.brut = 1..Len(x.brut)
    <2>1. x.brut \in Seq(Car)
      BY DEF ResultatBon
    <2>. QED
      BY <2>1
  <1>2. ASSUME NEW i \in 1..m
        PROVE  /\ es[i].debut \in Nat /\ es[i].debut <= Len(TexteDe(x.brut))
               /\ T[es[i].debut + 1] \in 0..Len(x.brut) /\ T[es[i].fin + 1] \in 0..Len(x.brut)
               /\ T[es[i].debut + 1] <= T[es[i].fin + 1]
               /\ SpanDe(x, es[i]) = <<T[es[i].debut + 1], T[es[i].fin + 1]>>
    <2>1. Detectee(x, es[i])
      OBVIOUS
    <2>. DEFINE e == es[i]
    <2>. HIDE DEF e
    <2>2. /\ e.debut \in Nat /\ e.fin \in Nat /\ e.debut < e.fin /\ e.fin <= Len(TexteDe(x.brut))
          /\ T[e.debut + 1] \in 0..Len(x.brut) /\ T[e.fin + 1] \in 0..Len(x.brut)
          /\ T[e.debut + 1] <= T[e.fin + 1] /\ SpanDe(x, e) = <<T[e.debut + 1], T[e.fin + 1]>>
      BY <2>1, PlaceDe DEF e
    <2>3. Len(TexteDe(x.brut)) \in Nat
      BY <1>1, NormaliserBon
    <2>4. e.debut <= Len(TexteDe(x.brut))
      BY <2>2, <2>3
    <2>. QED
      BY <2>2, <2>4 DEF e
  <1>3. ASSUME NEW i \in 1..m, NEW j \in 1..m, es[i].debut <= es[j].debut
        PROVE  T[es[i].debut + 1] <= T[es[j].debut + 1]
    <2>. DEFINE p == es[i].debut
                q == es[j].debut
                l == Len(TexteDe(x.brut))
    <2>1. p \in Nat /\ q \in Nat /\ p <= l /\ q <= l /\ p <= q
      BY <1>2, <1>3
    <2>2. l \in Nat /\ \A u, v \in 1..(l + 1) : u <= v => T[u] <= T[v]
      BY <1>1, NormaliserBon
    <2>. HIDE DEF p, q, l, T
    <2>3. p + 1 \in 1..(l + 1) /\ q + 1 \in 1..(l + 1) /\ p + 1 <= q + 1
      BY <2>1, <2>2
    <2>4. T[p + 1] <= T[q + 1]
      BY <2>2, <2>3
    <2>. QED
      BY <2>4 DEF p, q
  <1>4. a \in [1..m -> 0..Len(x.brut)] /\ b \in [1..m -> 0..Len(x.brut)]
    <2>. HIDE DEF T
    <2>. QED
      BY <1>2
  <1>5. \A i \in 1..m : a[i] = T[es[i].debut + 1] /\ b[i] = T[es[i].fin + 1]
    OBVIOUS
  <1>. HIDE DEF a, b, T
  <1>6. \A i \in 1..m : SpanDe(x, es[i]) = <<a[i], b[i]>> /\ a[i] <= b[i]
    BY <1>2, <1>5
  <1>7. \A i, j \in 1..m : es[i].debut <= es[j].debut => a[i] <= a[j]
    BY <1>3, <1>5
  <1>8. Placees(x, es, Len(x.brut), m, a, b)
    BY <1>2, <1>4, <1>6, <1>7 DEF Placees
  <1>. QED
    BY <1>1, <1>8

\* What TexteSubstitue says of a request.
TexteBon(x, es, rendu) ==
  LET src(i) == SpanDe(x, es[i])
      faites == Range(rendu.remplaces)
      attendu == FlattenSeq([p \in 1..(Len(x.brut) + 1) |->
                   SetToSeq({-i : i \in {j \in faites : src(j)[1] = p - 1}})
                     \o (IF p > Len(x.brut) \/ \E i \in faites : src(i)[1] < p /\ p <= src(i)[2]
                         THEN <<>> ELSE <<p - 1>>)])
  IN /\ rendu.texte = attendu
     /\ rendu.nombre = Cardinality(faites)
     /\ \A i \in DOMAIN es :
          i \in faites \/ src(i)[1] = src(i)[2]
            \/ \E j \in faites : src(i)[1] < src(j)[2] /\ src(j)[1] < src(i)[2]

\* A text with the entities of F replaced is what their pieces make up.
LEMMA MorceauxReunis ==
  ASSUME NEW n \in Nat, NEW a, NEW b, NEW F, NEW fin, NEW t, Compose(n, a, b, F, fin, t)
  PROVE  t = FlattenSeq(Morceaux(n, a, b, F))
  <1>. DEFINE m == Morceaux(n, a, b, F)
  <1>1. m \in Seq(Seq(Int))
    BY DEF Compose
  <1>2. Len(m) = n + 1
    <2>1. DOMAIN m = 1..(n + 1) /\ n + 1 \in Nat
      BY DEF Morceaux
    <2>. HIDE DEF m
    <2>. QED
      BY <1>1, <2>1
  <1>3. PICK L : Cumul(L, m) /\ EnPlace(Int, t, m, L, n + 1)
    BY DEF Compose
  <1>. HIDE DEF m
  <1>4. t = FlattenSeq(m)
    BY <1>1, <1>2, <1>3, BoutABoutUnique
  <1>. QED
    BY <1>4 DEF m

\* The pieces, from the places of the entities.
MorceauxDe(n, x, es, F) ==
  [p \in 1..(n + 1) |->
       SetToSeq({-i : i \in {j \in F : SpanDe(x, es[j])[1] = p - 1}})
         \o (IF p > n \/ \E i \in F : SpanDe(x, es[i])[1] < p /\ p <= SpanDe(x, es[i])[2]
             THEN <<>> ELSE <<p - 1>>)]

\* A text with the entities of F replaced, when each other one has no place or meets one.
LEMMA TexteBonDe ==
  ASSUME NEW x, NEW es, NEW n \in Nat, NEW m \in Nat, Len(x.brut) = n, DOMAIN es = 1..m,
         NEW a, NEW b, NEW fin, NEW F \in SUBSET (1..m), NEW rendu,
         Placees(x, es, n, m, a, b),
         Range(rendu.remplaces) = F, rendu.nombre = Cardinality(F),
         Compose(n, a, b, F, fin, rendu.texte), \A i \in 1..m : Traitee(a, b, F, i)
  PROVE  TexteBon(x, es, rendu)
  <1>. DEFINE src(i) == SpanDe(x, es[i])
  <1>1. \A i \in 1..m : src(i)[1] = a[i] /\ src(i)[2] = b[i]
    BY DEF Placees
  <1>2. rendu.texte = FlattenSeq(Morceaux(n, a, b, F))
    BY MorceauxReunis
  <1>3. Morceaux(n, a, b, F) = MorceauxDe(n, x, es, F)
    <2>. HIDE DEF src
    <2>1. \A i \in F : SpanDe(x, es[i])[1] = a[i] /\ SpanDe(x, es[i])[2] = b[i]
      <3>1. \A i \in F : i \in 1..m
        OBVIOUS
      <3>. QED
        BY <1>1, <3>1, Zenon DEF src
    <2>2. ASSUME NEW p \in 1..(n + 1)
          PROVE  /\ {j \in F : SpanDe(x, es[j])[1] = p - 1} = {j \in F : a[j] = p - 1}
                 /\ (\E i \in F : SpanDe(x, es[i])[1] < p /\ p <= SpanDe(x, es[i])[2])
                      <=> \E i \in F : a[i] < p /\ p <= b[i]
      <3>1. \A j : j \in {i \in F : SpanDe(x, es[i])[1] = p - 1} <=> j \in {i \in F : a[i] = p - 1}
        BY <2>1, Zenon
      <3>2. \A i \in F : (SpanDe(x, es[i])[1] < p /\ p <= SpanDe(x, es[i])[2])
                            <=> (a[i] < p /\ p <= b[i])
        BY <2>1, Zenon
      <3>. QED
        BY <3>1, <3>2, Zenon
    <2>3. ASSUME NEW p \in 1..(n + 1)
          PROVE  Morceau(n, a, b, F, p) =
                   SetToSeq({-i : i \in {j \in F : SpanDe(x, es[j])[1] = p - 1}})
                     \o (IF p > n \/ \E i \in F : SpanDe(x, es[i])[1] < p /\ p <= SpanDe(x, es[i])[2]
                         THEN <<>> ELSE <<p - 1>>)
      <3>. DEFINE D == {j \in F : SpanDe(x, es[j])[1] = p - 1}
                  D2 == {j \in F : a[j] = p - 1}
                  Q == \E i \in F : SpanDe(x, es[i])[1] < p /\ p <= SpanDe(x, es[i])[2]
                  Q2 == \E i \in F : a[i] < p /\ p <= b[i]
      <3>1. D = D2 /\ (Q <=> Q2)
        BY <2>2
      <3>2. Morceau(n, a, b, F, p) = SetToSeq({-i : i \in D2}) \o (IF p > n \/ Q2 THEN <<>> ELSE <<p - 1>>)
        BY DEF Morceau
      <3>. HIDE DEF D, D2, Q, Q2
      <3>3. {-i : i \in D} = {-i : i \in D2}
        BY <3>1
      <3>4. (IF p > n \/ Q2 THEN <<>> ELSE <<p - 1>>) = (IF p > n \/ Q THEN <<>> ELSE <<p - 1>>)
        BY <3>1
      <3>5. Morceau(n, a, b, F, p) = SetToSeq({-i : i \in D}) \o (IF p > n \/ Q THEN <<>> ELSE <<p - 1>>)
        BY <3>2, <3>3, <3>4
      <3>. QED
        BY <3>5 DEF D, Q
    <2>. QED
      BY <2>3, Zenon DEF Morceaux, MorceauxDe
  <1>4. ASSUME NEW i \in DOMAIN es
        PROVE  i \in F \/ src(i)[1] = src(i)[2]
                 \/ \E j \in F : src(i)[1] < src(j)[2] /\ src(j)[1] < src(i)[2]
    <2>1. Traitee(a, b, F, i) /\ i \in 1..m /\ \A j \in F : j \in 1..m
      OBVIOUS
    <2>. HIDE DEF src
    <2>. QED
      BY <1>1, <2>1 DEF Traitee
  <1>5. rendu.texte = FlattenSeq([p \in 1..(Len(x.brut) + 1) |->
              SetToSeq({-i : i \in {j \in Range(rendu.remplaces) : src(j)[1] = p - 1}})
                \o (IF p > Len(x.brut)
                       \/ \E i \in Range(rendu.remplaces) : src(i)[1] < p /\ p <= src(i)[2]
                    THEN <<>> ELSE <<p - 1>>)])
    BY <1>2, <1>3, Zenon DEF MorceauxDe
  <1>6. /\ rendu.nombre = Cardinality(Range(rendu.remplaces))
        /\ \A i \in DOMAIN es : i \in Range(rendu.remplaces) \/ src(i)[1] = src(i)[2]
             \/ \E j \in Range(rendu.remplaces) : src(i)[1] < src(j)[2] /\ src(j)[1] < src(i)[2]
    BY <1>4, Zenon
  <1>. QED
    BY <1>5, <1>6, Zenon DEF TexteBon

\* The text with the entities of some F replaced, where they are, all those of F and no
\* other that could be.
TexteCompose(x, es, m, rendu) ==
  \E a, b, fin : \E F \in SUBSET (1..m) :
    /\ Placees(x, es, Len(x.brut), m, a, b)
    /\ Range(rendu.remplaces) = F /\ rendu.nombre = Cardinality(F)
    /\ Compose(Len(x.brut), a, b, F, fin, rendu.texte)
    /\ \A i \in 1..m : Traitee(a, b, F, i)

\* The protection of a text.
LEMMA TexteProtege ==
  ASSUME NEW d, deviner_type(d) = "texte", NEW x, ResultatBon(x), NEW es, NEW remplacements,
         NEW m \in Nat, DOMAIN es = 1..m, Len(es) = m,
         \A i \in 1..m : Detectee(x, es[i])
  PROVE  TexteCompose(x, es, m, appliquer(d, x, es, remplacements))
  <1>. DEFINE n == Len(x.brut)
              rendu == appliquer(d, x, es, remplacements)
  <1>1. x.brut \in Seq(Car) /\ n \in Nat /\ DOMAIN x.brut = 1..n
    BY PlacesDe
  <1>2. PICK a, b : Placees(x, es, n, m, a, b)
    BY PlacesDe
  <1>3. CASE es = <<>>
    <2>1. rendu = Intact(d, x)
      BY <1>3 DEF appliquer
    <2>2. /\ Intact(d, x).texte = [p \in DOMAIN x.brut |-> p - 1]
          /\ Intact(d, x).nombre = 0 /\ Intact(d, x).remplaces = <<>>
      BY DEF Intact, Rendu
    <2>. HIDE DEF rendu
    <2>3. Compose(n, a, b, {}, n + 1, rendu.texte)
      <3>1. Compose(n, a, b, {}, n + 1, [p \in 1..n |-> p - 1])
        BY <1>1, ComposeDepart
      <3>. HIDE DEF n
      <3>. QED
        BY <1>1, <2>1, <2>2, <3>1
    <2>4. Range(rendu.remplaces) = {} /\ rendu.nombre = Cardinality({})
      <3>1. Cardinality({}) = 0
        BY FS_EmptySet
      <3>2. rendu.remplaces = <<>>
        BY <2>1, <2>2
      <3>. QED
        BY <2>1, <2>2, <3>1, <3>2 DEF Range
    <2>5. \A i \in 1..m : Traitee(a, b, {}, i)
      <3>1. m = 0
        BY <1>3
      <3>. QED
        BY <3>1
    <2>7. {} \in SUBSET (1..m)
      OBVIOUS
    <2>. HIDE DEF n
    <2>8. Len(x.brut) = n
      BY DEF n
    <2>9. TexteCompose(x, es, m, rendu)
      BY <1>2, <2>3, <2>4, <2>5, <2>7, <2>8, Zenon DEF TexteCompose
    <2>. QED
      BY <2>9 DEF rendu
  <1>4. CASE es # <<>>
    <2>1. rendu = AppliquerTexte(d, x, es)
      BY <1>4 DEF appliquer
    <2>. HIDE DEF rendu, n
    <2>2. Len(x.brut) = n
      BY DEF n
    <2>3. PICK acc : /\ TexteSuivi(n, m, a, b, acc)
                     /\ \A i \in 1..m : Traitee(a, b, Faites(acc), i)
                     /\ rendu.texte = acc.texte
                     /\ rendu.nombre = acc.nombre
                     /\ rendu.remplaces = acc.remplaces
      <3>1. \E acc : /\ TexteSuivi(n, m, a, b, acc)
                     /\ \A i \in 1..m : Traitee(a, b, Faites(acc), i)
                     /\ AppliquerTexte(d, x, es).texte = acc.texte
                     /\ AppliquerTexte(d, x, es).nombre = acc.nombre
                     /\ AppliquerTexte(d, x, es).remplaces = acc.remplaces
        BY <1>1, <1>2, <2>2, TexteApplique
      <3>. QED
        BY <2>1, <3>1, Zenon
    <2>4. /\ Faites(acc) \in SUBSET (1..m) /\ acc.nombre = Cardinality(Faites(acc))
          /\ Compose(n, a, b, Faites(acc), acc.fin, acc.texte)
      BY <2>3 DEF TexteSuivi
    <2>5. Range(rendu.remplaces) = Faites(acc)
      BY <2>3 DEF Faites, Range
    <2>. DEFINE F == Faites(acc)
                fin == acc.fin
    <2>6. /\ F \in SUBSET (1..m) /\ rendu.nombre = Cardinality(F) /\ Range(rendu.remplaces) = F
          /\ Compose(n, a, b, F, fin, rendu.texte) /\ \A i \in 1..m : Traitee(a, b, F, i)
      BY <2>3, <2>4, <2>5
    <2>. HIDE DEF F, fin
    <2>8. TexteCompose(x, es, m, rendu)
      BY <1>2, <2>2, <2>6, Zenon DEF TexteCompose
    <2>. QED
      BY <2>8 DEF rendu
  <1>. QED
    BY <1>3, <1>4

LEMMA TexteBonProtege ==
  ASSUME NEW d, deviner_type(d) = "texte", NEW x, ResultatBon(x), NEW es, NEW remplacements,
         NEW m \in Nat, DOMAIN es = 1..m, Len(es) = m,
         \A i \in 1..m : Detectee(x, es[i])
  PROVE  TexteBon(x, es, appliquer(d, x, es, remplacements))
  <1>. DEFINE n == Len(x.brut)
              rendu == appliquer(d, x, es, remplacements)
  <1>1. n \in Nat
    BY PlacesDe
  <1>2. TexteCompose(x, es, m, rendu)
    BY TexteProtege
  <1>. HIDE DEF rendu
  <1>3. PICK a, b, fin : \E F \in SUBSET (1..m) :
          /\ Placees(x, es, n, m, a, b)
          /\ Range(rendu.remplaces) = F /\ rendu.nombre = Cardinality(F)
          /\ Compose(n, a, b, F, fin, rendu.texte)
          /\ \A i \in 1..m : Traitee(a, b, F, i)
    BY <1>2, Zenon DEF TexteCompose
  <1>4. PICK F \in SUBSET (1..m) :
          /\ Placees(x, es, n, m, a, b)
          /\ Range(rendu.remplaces) = F /\ rendu.nombre = Cardinality(F)
          /\ Compose(n, a, b, F, fin, rendu.texte)
          /\ \A i \in 1..m : Traitee(a, b, F, i)
    BY <1>3, Zenon
  <1>5. Len(x.brut) = n
    OBVIOUS
  <1>. HIDE DEF n
  <1>6. TexteBon(x, es, rendu)
    BY <1>1, <1>4, <1>5, TexteBonDe
  <1>. QED
    BY <1>6 DEF rendu

-------------------------------------------------------------------------------
(* What is replaced *)

LEMMA TypeDevine ==
  ASSUME NEW d
  PROVE  deviner_type(d) \in {"pdf", "docx", "image", "texte"}
  BY DEF deviner_type, Familles

\* In every format, what has been replaced are entities of the list.
LEMMA RemplacesValides ==
  ASSUME NEW d, NEW x, ResultatBon(x), NEW es, NEW remplacements, Detectees(x, es)
  PROVE  appliquer(d, x, es, remplacements).remplaces \in Seq(DOMAIN es)
  <1>. DEFINE rendu == appliquer(d, x, es, remplacements)
              gardees == {i \in DOMAIN es : Depouille(es[i].valeur) # <<>>}
  <1>0. Len(es) \in Nat /\ DOMAIN es = 1..Len(es) /\ \A i \in 1..Len(es) : Detectee(x, es[i])
    BY DEF Detectees
  <1>1. EnOrdre(Len(es), gardees) \in Seq(DOMAIN es)
    <2>1. EnOrdre(Len(es), gardees) \in Seq(gardees \intersect (1..Len(es)))
      <3>. HIDE DEF gardees
      <3>. QED
        BY <1>0, EnOrdreBon
    <2>2. gardees \intersect (1..Len(es)) \subseteq DOMAIN es
      BY <1>0
    <2>. HIDE DEF gardees
    <2>. QED
      BY <2>1, <2>2
  <1>2. CASE es = <<>>
    <2>1. rendu = Intact(d, x)
      BY <1>2 DEF appliquer
    <2>2. Intact(d, x).remplaces = <<>>
      BY DEF Intact, Rendu
    <2>. QED
      BY <2>1, <2>2
  <1>3. CASE es # <<>> /\ deviner_type(d) = "pdf"
    <2>1. rendu = AppliquerPdf(d, x, es)
      BY <1>3 DEF appliquer
    <2>2. AppliquerPdf(d, x, es).remplaces = EnOrdre(Len(es), gardees)
      BY DEF AppliquerPdf, Rendu
    <2>. QED
      BY <1>1, <2>1, <2>2
  <1>4. CASE es # <<>> /\ deviner_type(d) = "docx"
    <2>1. rendu = AppliquerDocx(d, es, remplacements)
      BY <1>4 DEF appliquer
    <2>2. AppliquerDocx(d, es, remplacements).remplaces = EnOrdre(Len(es), gardees)
      BY DEF AppliquerDocx, Rendu
    <2>. QED
      BY <1>1, <2>1, <2>2
  <1>5. CASE es # <<>> /\ deviner_type(d) = "image"
    <2>1. rendu = AppliquerImage(d, x, es)
      BY <1>5 DEF appliquer
    <2>2. AppliquerImage(d, x, es).remplaces = <<>>
      BY DEF AppliquerImage, Rendu
    <2>. QED
      BY <2>1, <2>2
  <1>6. CASE es # <<>> /\ deviner_type(d) = "texte"
    <2>1. rendu = AppliquerTexte(d, x, es)
      BY <1>6 DEF appliquer
    <2>. DEFINE n == Len(x.brut)
                m == Len(es)
    <2>2. n \in Nat /\ DOMAIN x.brut = 1..n /\ \E a, b : Placees(x, es, n, m, a, b)
      BY <1>0, PlacesDe
    <2>. HIDE DEF rendu
    <2>3. AppliquerTexte(d, x, es).remplaces \in Seq(1..m)
      <3>1. PICK a, b : Placees(x, es, n, m, a, b)
        BY <2>2
      <3>2. m \in Nat /\ DOMAIN es = 1..m /\ Len(es) = m /\ Len(x.brut) = n
        BY <1>0
      <3>. HIDE DEF m, n
      <3>3. \E acc : /\ TexteSuivi(n, m, a, b, acc)
                     /\ \A i \in 1..m : Traitee(a, b, Faites(acc), i)
                     /\ AppliquerTexte(d, x, es).texte = acc.texte
                     /\ AppliquerTexte(d, x, es).nombre = acc.nombre
                     /\ AppliquerTexte(d, x, es).remplaces = acc.remplaces
        BY <2>2, <3>1, <3>2, TexteApplique, SMTT(30)
      <3>4. PICK acc : TexteSuivi(n, m, a, b, acc) /\ AppliquerTexte(d, x, es).remplaces = acc.remplaces
        BY <3>3, Zenon
      <3>. QED
        BY <3>4 DEF TexteSuivi
    <2>4. DOMAIN es = 1..m
      BY <1>0
    <2>. HIDE DEF m
    <2>5. rendu.remplaces \in Seq(DOMAIN es)
      BY <2>1, <2>3, <2>4
    <2>. QED
      BY <2>5 DEF rendu
  <1>. QED
    BY <1>2, <1>3, <1>4, <1>5, <1>6, TypeDevine

\* What is protected is a sequence of entities of the analysis.
LEMMA EntitesAProteger ==
  ASSUME NEW x, NEW detections \in Seq([debut : Nat, fin : Nat, type : STRING]), NEW seuil,
         \A k \in DOMAIN detections : Trouvable(x, detections[k])
  PROVE  Detectees(x, AProteger(x, detections, seuil))
  <1>. DEFINE entites == [i \in DOMAIN detections |->
                [debut |-> detections[i].debut, fin |-> detections[i].fin,
                 type |-> detections[i].type,
                 valeur |-> Tranche(x.texte.texte, detections[i].debut, detections[i].fin)]]
              P == {i \in DOMAIN entites : entites[i] \in filtrer_par_seuil(Range(entites), seuil)}
              gardees == EnOrdre(Len(entites), P)
              es == [k \in DOMAIN gardees |-> entites[gardees[k]]]
  <1>1. AProteger(x, detections, seuil) = es
    BY DEF AProteger
  <1>2. Len(entites) = Len(detections) /\ Len(detections) \in Nat
        /\ DOMAIN detections = 1..Len(detections)
    OBVIOUS
  <1>3. gardees \in Seq(1..Len(detections))
    <2>1. gardees \in Seq(P \intersect (1..Len(detections)))
      <3>. HIDE DEF P, entites
      <3>. QED
        BY <1>2, EnOrdreBon
    <2>. HIDE DEF P, gardees
    <2>. QED
      BY <2>1
  <1>4. ASSUME NEW i \in 1..Len(detections) PROVE Detectee(x, entites[i])
    <2>1. detections[i] \in [debut : Nat, fin : Nat, type : STRING]
      <3>. DEFINE S == [debut : Nat, fin : Nat, type : STRING]
      <3>1. detections \in Seq(S)
        OBVIOUS
      <3>. HIDE DEF S, entites
      <3>2. detections[i] \in S
        BY <3>1
      <3>. QED
        BY <3>2 DEF S
    <2>2. detections[i].debut \in Nat /\ detections[i].fin \in Nat
      BY <2>1
    <2>3. /\ entites[i].debut = detections[i].debut /\ entites[i].fin = detections[i].fin
          /\ entites[i].valeur = Tranche(x.texte.texte, entites[i].debut, entites[i].fin)
      BY <1>2
    <2>4. Trouvable(x, detections[i])
      BY <1>2
    <2>. HIDE DEF entites
    <2>5. Trouvable(x, entites[i])
      BY <2>3, <2>4 DEF Trouvable
    <2>. QED
      BY <2>2, <2>3, <2>5 DEF Detectee
  <1>5. /\ Len(gardees) \in Nat /\ DOMAIN es = 1..Len(gardees) /\ Len(es) = Len(gardees)
        /\ \A i \in 1..Len(gardees) : Detectee(x, es[i])
    <2>. HIDE DEF gardees, entites
    <2>1. Len(gardees) \in Nat /\ DOMAIN gardees = 1..Len(gardees)
          /\ \A k \in 1..Len(gardees) : gardees[k] \in 1..Len(detections)
      BY <1>2, <1>3
    <2>2. DOMAIN es = 1..Len(gardees) /\ \A k \in 1..Len(gardees) : es[k] = entites[gardees[k]]
      BY <2>1
    <2>. HIDE DEF es
    <2>3. Len(es) = Len(gardees)
      BY <2>1, <2>2
    <2>4. \A k \in 1..Len(gardees) : Detectee(x, es[k])
      BY <1>4, <2>1, <2>2
    <2>. QED
      BY <2>1, <2>2, <2>3, <2>4
  <1>. HIDE DEF es, gardees
  <1>. QED
    BY <1>1, <1>5 DEF Detectees

-------------------------------------------------------------------------------
(* The correspondences *)

LiensFideles(action, es, rs, C) ==
  LET lien(i) == correspondance(es[i].valeur, es[i].type, cle)
  IN /\ C \in Seq({C[n] : n \in DOMAIN C})
     /\ \A n \in DOMAIN C : \E k \in DOMAIN rs : C[n] = lien(rs[k])
     /\ Distincts(C) /\ (C # <<>> => action = "pseudonymise")
     /\ action = "pseudonymise" =>
          \A k \in DOMAIN rs : \E j \in DOMAIN rs, n \in DOMAIN C :
            C[n] = lien(rs[j]) /\ lien(rs[j]).jeton = lien(rs[k]).jeton

\* Each correspondence is the one of an entity replaced; with tokens, the token of an
\* entity replaced is the one of a correspondence.
LEMMA LiensDesRemplaces ==
  ASSUME NEW action \in Actions, NEW es, NEW rs \in Seq(DOMAIN es)
  PROVE  LiensFideles(action, es, rs, Correspondances(action, es, rs))
  <1>. DEFINE C == Correspondances(action, es, rs)
              lien(i) == correspondance(es[i].valeur, es[i].type, cle)
              jetons == [k \in DOMAIN rs |-> jeton(es[rs[k]].valeur, es[rs[k]].type)]
              P == {k \in DOMAIN rs : \A j \in 1..(k - 1) : jetons[j] # jetons[k]}
              nouveaux == EnOrdre(Len(rs), P)
  <1>1. CASE action = "masque"
    <2>1. C = <<>>
      BY <1>1 DEF Correspondances
    <2>2. LiensFideles(action, es, rs, <<>>)
      BY <1>1 DEF LiensFideles, Distincts
    <2>. HIDE DEF C
    <2>3. LiensFideles(action, es, rs, C)
      BY <2>1, <2>2
    <2>. QED
      BY <2>3 DEF C
  <1>2. CASE action = "pseudonymise"
    <2>1. C = [n \in DOMAIN nouveaux |-> lien(rs[nouveaux[n]])]
      BY <1>2 DEF Correspondances
    <2>2. Len(rs) \in Nat /\ DOMAIN rs = 1..Len(rs)
      OBVIOUS
    <2>3. P \subseteq DOMAIN rs
      OBVIOUS
    <2>4. /\ nouveaux \in Seq(DOMAIN rs)
          /\ \A k \in P : \E n \in DOMAIN nouveaux : nouveaux[n] = k
          /\ \A n \in DOMAIN nouveaux : nouveaux[n] \in P
          /\ \A m, n \in DOMAIN nouveaux : m < n => nouveaux[m] < nouveaux[n]
      <3>. HIDE DEF P
      <3>1. Len(rs) \in Nat
        BY <2>2
      <3>2. /\ nouveaux \in Seq(P \intersect (1..Len(rs)))
            /\ \A k \in P \intersect (1..Len(rs)) :
                 \E n \in DOMAIN nouveaux : nouveaux[n] = k
            /\ \A m, n \in DOMAIN nouveaux : m < n => nouveaux[m] < nouveaux[n]
        <4>1. ASSUME NEW m \in Nat
              PROVE  /\ EnOrdre(m, P) \in Seq(P \intersect (1..m))
                     /\ \A k \in P \intersect (1..m) :
                          \E n \in DOMAIN EnOrdre(m, P) : EnOrdre(m, P)[n] = k
          BY EnOrdreBon
        <4>2. \A m, n \in DOMAIN nouveaux : m < n => nouveaux[m] < nouveaux[n]
          BY <3>1, EnOrdreBon, Zenon
        <4>. QED
          BY <3>1, <4>1, <4>2
      <3>3. P \intersect (1..Len(rs)) = P /\ P \subseteq DOMAIN rs
        BY <2>2, <2>3
      <3>. HIDE DEF nouveaux
      <3>4. nouveaux \in Seq(P)
        BY <3>2, <3>3
      <3>. QED
        BY <3>2, <3>3, <3>4
    <2>5. ASSUME NEW k \in DOMAIN rs
          PROVE  \E j \in P : jetons[j] = jetons[k]
      <3>. DEFINE T == {j \in DOMAIN rs : jetons[j] = jetons[k]}
      <3>1. T \in SUBSET Nat /\ T # {}
        BY <2>2
      <3>2. PICK j \in T : \A y \in T : j <= y
        <4>. HIDE DEF T
        <4>. QED
          BY <3>1, NatMinimal
      <3>3. j \in DOMAIN rs /\ jetons[j] = jetons[k]
        OBVIOUS
      <3>4. ASSUME NEW y \in 1..(j - 1), jetons[y] = jetons[j] PROVE FALSE
        <4>1. y \in DOMAIN rs /\ ~ (j <= y)
          BY <2>2, <3>3
        <4>2. y \in T
          BY <3>3, <3>4, <4>1
        <4>. QED
          BY <3>2, <4>1, <4>2
      <3>. HIDE DEF jetons
      <3>5. j \in P
        BY <3>3, <3>4
      <3>. QED
        BY <3>3, <3>5
    <2>6. \A k \in DOMAIN rs : jetons[k] = lien(rs[k]).jeton
      BY DEF correspondance
    <2>7. \A n \in DOMAIN C : nouveaux[n] \in DOMAIN rs /\ C[n] = lien(rs[nouveaux[n]])
      <3>. HIDE DEF nouveaux, lien
      <3>. QED
        BY <2>1, <2>4
    <2>8. C \in Seq({C[n] : n \in DOMAIN C})
      <3>1. DOMAIN C = 1..Len(nouveaux) /\ Len(nouveaux) \in Nat
        <4>. HIDE DEF nouveaux, lien
        <4>. QED
          BY <2>1, <2>4
      <3>. DEFINE m == Len(nouveaux)
                  R == {C[n] : n \in DOMAIN C}
      <3>2. C = [n \in 1..m |-> C[n]]
        <4>. HIDE DEF lien, nouveaux
        <4>. QED
          BY <2>1, <3>1
      <3>. HIDE DEF C, m
      <3>3. \A n \in 1..m : C[n] \in R
        BY <3>1 DEF m
      <3>. HIDE DEF R
      <3>4. C \in [1..m -> R] /\ m \in Nat
        BY <3>1, <3>2, <3>3 DEF m
      <3>5. C \in Seq(R)
        BY <3>4
      <3>. QED
        BY <3>5 DEF R
    <2>9. ASSUME NEW k \in DOMAIN rs
          PROVE  \E j \in DOMAIN rs, n \in DOMAIN C :
                   C[n] = lien(rs[j]) /\ lien(rs[j]).jeton = lien(rs[k]).jeton
      <3>1. PICK j \in P : jetons[j] = jetons[k]
        BY <2>5
      <3>2. PICK n \in DOMAIN nouveaux : nouveaux[n] = j
        BY <2>4
      <3>3. j \in DOMAIN rs
        OBVIOUS
      <3>4. n \in DOMAIN C /\ C[n] = lien(rs[j])
        <4>. HIDE DEF nouveaux, lien
        <4>. QED
          BY <2>1, <3>2
      <3>5. lien(rs[j]).jeton = lien(rs[k]).jeton
        <4>. HIDE DEF jetons, lien, P
        <4>. QED
          BY <2>6, <3>1, <3>3
      <3>. HIDE DEF C, lien
      <3>. QED
        BY <3>3, <3>4, <3>5
    <2>10. \A n \in DOMAIN C : \E k \in DOMAIN rs : C[n] = lien(rs[k])
      <3>. HIDE DEF C, lien
      <3>. QED
        BY <2>7
    <2>11. Distincts(C)
      <3>1. ASSUME NEW m \in DOMAIN C, NEW n \in DOMAIN C, m < n PROVE C[m] # C[n]
        <4>1. m \in DOMAIN nouveaux /\ n \in DOMAIN nouveaux
          <5>. HIDE DEF nouveaux, lien
          <5>. QED
            BY <2>1
        <4>. DEFINE a == nouveaux[m]
                    b == nouveaux[n]
        <4>2. a \in P /\ b \in P /\ a < b
          <5>. HIDE DEF P, nouveaux
          <5>. QED
            BY <2>4, <3>1, <4>1
        <4>3. C[m] = lien(rs[a]) /\ C[n] = lien(rs[b])
          <5>. HIDE DEF C, lien, nouveaux
          <5>. QED
            BY <2>7
        <4>. HIDE DEF a, b, C
        <4>4. a \in DOMAIN rs /\ b \in DOMAIN rs /\ \A j \in 1..(b - 1) : jetons[j] # jetons[b]
          BY <4>2
        <4>5. a \in 1..(b - 1)
          BY <2>2, <4>2, <4>4
        <4>6. jetons[a] # jetons[b]
          BY <4>4, <4>5
        <4>7. jetons[a] = lien(rs[a]).jeton /\ jetons[b] = lien(rs[b]).jeton
          BY <2>6, <4>4
        <4>. HIDE DEF jetons, lien
        <4>. QED
          BY <4>3, <4>6, <4>7
      <3>2. DOMAIN C \subseteq Nat
        <4>. HIDE DEF lien
        <4>1. DOMAIN C = DOMAIN nouveaux
          BY <2>1
        <4>. HIDE DEF C, nouveaux
        <4>. QED
          BY <2>4, <4>1
      <3>. HIDE DEF C
      <3>3. \A m, n \in DOMAIN C : m = n \/ m < n \/ n < m
        BY <3>2
      <3>. QED
        BY <3>1, <3>3 DEF Distincts
    <2>12. LiensFideles(action, es, rs, C)
      <3>. HIDE DEF C
      <3>. QED
        BY <1>2, <2>8, <2>9, <2>10, <2>11 DEF LiensFideles
    <2>. QED
      BY <2>12
  <1>. QED
    BY <1>1, <1>2 DEF Actions

-------------------------------------------------------------------------------
(* The invariant *)

LEMMA InitInv == Init => IInv
  BY DEF Init, IInv, Table, Suivi, EchecParCollision, Repos

\* The steps leave the other requests as they are.
LEMMA AvancerUne ==
  ASSUME DOMAIN requetes = Requetes, NEW r \in Requetes, NEW q, Avancer(r, q)
  PROVE  /\ DOMAIN requetes' = Requetes
         /\ requetes'[r] = q
         /\ \A s \in Requetes : s # r => requetes'[s] = requetes[s]
  BY DEF Avancer

\* A request that waits stays followed while the table grows.
LEMMA SuiviReste ==
  ASSUME NEW q, NEW cl, NEW table, NEW suite, table \subseteq suite, Suivi(q, cl, table)
  PROVE  Suivi(q, cl, suite)
  <1>1. \A i : Gardee(q, i, table) => Gardee(q, i, suite)
    BY DEF Gardee
  <1>. QED
    BY <1>1 DEF Suivi

\* What a request is once it has gone on.
Apres(p, etape, liens, vue, cause) ==
  [etape |-> etape, document |-> p.document, extrait |-> p.extrait, entites |-> p.entites,
   action |-> p.action, rendu |-> p.rendu, liens |-> liens, vue |-> vue, cause |-> cause]

AvecEtape(p, e) == [p EXCEPT !.etape = e]
AvecLiens(p, l) == [p EXCEPT !.liens = l]
AvecVue(p, v) == [p EXCEPT !.vue = v]
AvecCause(p, c) == [p EXCEPT !.cause = c]

\* One change after another.
LEMMA Ecrit ==
  ASSUME NEW p, Champs(p), NEW e, NEW l, NEW v, NEW c
  PROVE  /\ AvecEtape(p, e) = Apres(p, e, p.liens, p.vue, p.cause)
         /\ AvecVue(AvecEtape(p, e), v) = Apres(p, e, p.liens, v, p.cause)
         /\ AvecCause(AvecEtape(p, e), c) = Apres(p, e, p.liens, p.vue, c)
         /\ AvecLiens(AvecEtape(p, e), l) = Apres(p, e, l, p.vue, p.cause)
         /\ AvecLiens(p, l) = Apres(p, p.etape, l, p.vue, p.cause)
  <1>1. p = Apres(p, p.etape, p.liens, p.vue, p.cause)
    BY DEF Champs, Apres
  <1>2. ASSUME NEW a, NEW b, NEW f, NEW g, NEW w
        PROVE  /\ AvecEtape(Apres(p, a, b, f, g), w) = Apres(p, w, b, f, g)
               /\ AvecLiens(Apres(p, a, b, f, g), w) = Apres(p, a, w, f, g)
               /\ AvecVue(Apres(p, a, b, f, g), w) = Apres(p, a, b, w, g)
               /\ AvecCause(Apres(p, a, b, f, g), w) = Apres(p, a, b, f, w)
    <2>1. AvecEtape(Apres(p, a, b, f, g), w) = Apres(p, w, b, f, g)
      BY DEF Apres, AvecEtape
    <2>2. AvecLiens(Apres(p, a, b, f, g), w) = Apres(p, a, w, f, g)
      BY DEF Apres, AvecLiens
    <2>3. AvecVue(Apres(p, a, b, f, g), w) = Apres(p, a, b, w, g)
      BY DEF Apres, AvecVue
    <2>4. AvecCause(Apres(p, a, b, f, g), w) = Apres(p, a, b, f, w)
      BY DEF Apres, AvecCause
    <2>. QED
      BY <2>1, <2>2, <2>3, <2>4
  <1>3. AvecEtape(p, e) = Apres(p, e, p.liens, p.vue, p.cause)
    BY <1>1, <1>2
  <1>. QED
    BY <1>1, <1>2, <1>3

\* The first link, and the others.
LEMMA ResteDesLiens ==
  ASSUME NEW R, NEW s \in Seq(R), s # <<>>, Distincts(s)
  PROVE  /\ Head(s) \in Elements(s) /\ Head(s) \notin Elements(Tail(s))
         /\ Elements(Tail(s)) \subseteq Elements(s)
         /\ \A l \in Elements(s) : l = Head(s) \/ l \in Elements(Tail(s))
         /\ Tail(s) \in Seq(Elements(Tail(s))) /\ Distincts(Tail(s))
  <1>. DEFINE t == Tail(s)
              m == Len(s) - 1
  <1>1. Len(s) \in Nat /\ Len(s) >= 1 /\ DOMAIN s = 1..Len(s) /\ Head(s) = s[1]
    OBVIOUS
  <1>2. t \in Seq(R) /\ Len(t) = m /\ m \in Nat /\ DOMAIN t = 1..m
    BY <1>1
  <1>3. \A k \in 1..m : t[k] = s[k + 1]
    BY <1>1, <1>2
  <1>. HIDE DEF t, m
  <1>4. ASSUME NEW k \in DOMAIN s, k # 1 PROVE k - 1 \in DOMAIN t /\ t[k - 1] = s[k]
    <2>1. k \in 1..Len(s) /\ k - 1 \in 1..m /\ (k - 1) + 1 = k
      BY <1>1, <1>4 DEF m
    <2>. QED
      BY <1>2, <1>3, <2>1
  <1>5. ASSUME NEW k \in DOMAIN t PROVE k + 1 \in DOMAIN s /\ k + 1 # 1 /\ t[k] = s[k + 1]
    <2>1. k \in 1..m /\ k + 1 \in 1..Len(s) /\ k + 1 # 1
      BY <1>1, <1>2 DEF m
    <2>. QED
      BY <1>1, <1>3, <2>1
  <1>6. Head(s) \in Elements(s) /\ Elements(t) \subseteq Elements(s)
    BY <1>1, <1>5 DEF Elements
  <1>7. \A l \in Elements(s) : l = Head(s) \/ l \in Elements(t)
    BY <1>1, <1>4 DEF Elements
  <1>8. Head(s) \notin Elements(t)
    BY <1>1, <1>5 DEF Elements, Distincts
  <1>9. Distincts(t)
    <2>1. ASSUME NEW k \in DOMAIN t, NEW l \in DOMAIN t, t[k] = t[l] PROVE k = l
      <3>1. k + 1 = l + 1
        BY <1>5, <2>1 DEF Distincts
      <3>2. k \in Nat /\ l \in Nat
        BY <1>2
      <3>. QED
        BY <3>1, <3>2
    <2>. QED
      BY <2>1 DEF Distincts
  <1>10. t \in Seq(Elements(t))
    <2>1. \A k \in 1..m : t[k] \in Elements(t)
      BY <1>2 DEF Elements
    <2>2. t = [k \in 1..m |-> t[k]]
      BY <1>2
    <2>. DEFINE E == Elements(t)
    <2>. HIDE DEF E
    <2>3. t \in Seq(E)
      BY <1>2, <2>1, <2>2 DEF E
    <2>. QED
      BY <2>3 DEF E
  <1>. QED
    BY <1>6, <1>7, <1>8, <1>9, <1>10 DEF t

\* A request that goes on keeps what it has protected; its links only leave.
Poursuit(p, q) ==
  /\ q # Repos /\ q.etape # "repos"
  /\ p # Repos => /\ p.etape # "erreur"
                  /\ q.action = p.action /\ q.rendu = p.rendu /\ q.entites = p.entites
                  /\ Restants(q) \subseteq Restants(p)

\* It stays followed: its first link leaves only once the table has the value.
LEMMA ApresSuivi ==
  ASSUME NEW p, NEW cl, NEW table, NEW suite, Suivi(p, cl, table), p # Repos,
         p.etape \in {"enregistre", "insere"}, table \subseteq suite,
         NEW etape \in {"enregistre", "insere", "servi", "erreur"},
         NEW liens, NEW vue, NEW cause,
         \/ liens = p.liens
         \/ /\ p.liens # <<>> /\ liens = Tail(p.liens)
            /\ cl = "valide" => \E a \in suite : a.empreinte = Head(p.liens).empreinte,
         etape = "servi" => liens = <<>>,
         etape = "insere" =>
           liens # <<>> /\ \A a \in vue : a.empreinte # Head(liens).empreinte
  PROVE  /\ Suivi(Apres(p, etape, liens, vue, cause), cl, suite)
         /\ Poursuit(p, Apres(p, etape, liens, vue, cause))
  <1>. DEFINE q == Apres(p, etape, liens, vue, cause)
  <1>1. /\ q.etape = etape /\ q.document = p.document /\ q.extrait = p.extrait
        /\ q.entites = p.entites /\ q.action = p.action /\ q.rendu = p.rendu
        /\ q.liens = liens /\ q.vue = vue /\ q.cause = cause /\ Champs(q)
    BY DEF Apres, Champs
  <1>. HIDE DEF q
  <1>2. /\ Protege(q) /\ Remplaces(q) = Remplaces(p)
        /\ \A i : Entite(q, i) = Entite(p, i) /\ LienDe(q, i, cl) = LienDe(p, i, cl)
    <2>1. Protege(p)
      BY DEF Suivi
    <2>. QED
      BY <1>1, <2>1 DEF Protege, Remplaces, Entite, LienDe
  <1>3. /\ liens \in Seq(Elements(liens)) /\ Distincts(liens)
        /\ Elements(liens) \subseteq Elements(p.liens)
        /\ \A l \in Elements(p.liens) : l \in Elements(liens)
              \/ /\ p.liens # <<>> /\ l = Head(p.liens)
                 /\ cl = "valide" => \E a \in suite : a.empreinte = l.empreinte
        /\ liens # <<>> => p.liens # <<>>
    <2>1. p.liens \in Seq(Elements(p.liens)) /\ Distincts(p.liens)
      BY DEF Suivi, Restants
    <2>2. CASE liens = p.liens
      BY <2>1, <2>2
    <2>3. CASE /\ p.liens # <<>> /\ liens = Tail(p.liens)
               /\ cl = "valide" => \E a \in suite : a.empreinte = Head(p.liens).empreinte
      <3>. DEFINE s == p.liens
                  R == Elements(p.liens)
      <3>1. s \in Seq(R) /\ s # <<>> /\ Distincts(s)
        BY <2>1, <2>3
      <3>. HIDE DEF s, R
      <3>2. /\ Elements(Tail(s)) \subseteq Elements(s)
            /\ \A l \in Elements(s) : l = Head(s) \/ l \in Elements(Tail(s))
            /\ Tail(s) \in Seq(Elements(Tail(s))) /\ Distincts(Tail(s))
        BY <3>1, ResteDesLiens
      <3>. QED
        BY <2>3, <3>2 DEF s
    <2>. QED
      BY <2>2, <2>3
  <1>4. Restants(q) = Elements(liens) /\ Restants(p) = Elements(p.liens)
    BY <1>1 DEF Restants
  <1>5. etape = "insere" => Cherchee(q)
    BY <1>1 DEF Cherchee
  <1>6. liens # <<>> => q.action = "pseudonymise"
    BY <1>1, <1>3 DEF Suivi
  <1>7. \A lien \in Restants(q) : \E i \in Remplaces(q) : lien = LienDe(q, i, cl)
    <2>1. \A lien \in Restants(p) : \E i \in Remplaces(p) : lien = LienDe(p, i, cl)
      BY DEF Suivi
    <2>. QED
      BY <1>2, <1>3, <1>4, <2>1
  <1>8. Remplaces(q) \subseteq DOMAIN q.entites
    BY <1>1, <1>2 DEF Suivi
  <1>9. ASSUME q.action = "pseudonymise", cl = "valide", NEW i \in Remplaces(q)
        PROVE  \E j \in Remplaces(q) :
                 /\ LienDe(q, j, cl).jeton = LienDe(q, i, cl).jeton
                 /\ LienDe(q, j, cl) \in Restants(q) \/ Gardee(q, j, suite)
    <2>1. PICK j \in Remplaces(p) :
            /\ LienDe(p, j, cl).jeton = LienDe(p, i, cl).jeton
            /\ LienDe(p, j, cl) \in Restants(p) \/ Gardee(p, j, table)
      BY <1>1, <1>2, <1>9 DEF Suivi
    <2>2. CASE Gardee(p, j, table)
      <3>1. Gardee(q, j, suite)
        BY <1>2, <2>2 DEF Gardee
      <3>. QED
        BY <1>2, <2>1, <3>1
    <2>3. CASE LienDe(p, j, cl) \in Restants(q)
      BY <1>2, <2>1, <2>3
    <2>4. CASE \E a \in suite : a.empreinte = LienDe(p, j, cl).empreinte
      <3>1. LienDe(p, j, cl).empreinte = empreinte(Entite(p, j).valeur)
        BY DEF LienDe, correspondance
      <3>2. Gardee(q, j, suite)
        BY <1>2, <2>4, <3>1 DEF Gardee
      <3>. QED
        BY <1>2, <2>1, <3>2
    <2>. QED
      BY <1>3, <1>4, <1>9, <2>1, <2>2, <2>3, <2>4
  <1>10. Suivi(q, cl, suite)
    BY <1>1, <1>2, <1>3, <1>4, <1>5, <1>6, <1>7, <1>8, <1>9 DEF Suivi
  <1>11. Poursuit(p, q)
    <2>1. etape # "repos" /\ Repos.etape = "repos"
      BY DEF Repos
    <2>. QED
      BY <1>1, <1>3, <1>4, <2>1 DEF Poursuit
  <1>. QED
    BY <1>10, <1>11 DEF q

\* What an error on a duplicate comes from, with this table and these other requests.
Justifie(q, table, autres) ==
  LET lien == Head(q.liens)
  IN \/ \E rangee \in table :
          rangee.jeton = lien.jeton /\ rangee.empreinte # lien.empreinte
     \/ /\ Rangee(lien) \in table \ q.vue
        /\ \E p \in autres : APseudonymise(p, lien)

Doublon(q) == q.etape = "erreur" /\ q.cause = "doublon"

\* A step of one request.
LEMMA EtapeInv ==
  ASSUME IInv, NEW r \in Requetes, NEW q, Avancer(r, q), charge' = charge, cle' = cle,
         pseudonymes \subseteq pseudonymes', Table',
         Suivi(q, cle, pseudonymes'), Poursuit(requetes[r], q),
         \A a \in pseudonymes' : a \in pseudonymes \/ Inserante(q, cle, a),
         Doublon(q) => Justifie(q, pseudonymes', {requetes[s] : s \in Requetes \ {r}})
  PROVE  IInv'
  <1>1. /\ DOMAIN requetes' = Requetes /\ requetes'[r] = q
        /\ \A s \in Requetes : s # r => requetes'[s] = requetes[s]
    BY AvancerUne DEF IInv
  <1>2. ASSUME NEW s \in Requetes PROVE Suivi(requetes'[s], cle', pseudonymes')
    <2>1. CASE s = r
      BY <1>1, <2>1
    <2>2. CASE s # r
      <3>1. Suivi(requetes[s], cle, pseudonymes)
        BY DEF IInv
      <3>2. Suivi(requetes[s], cle, pseudonymes')
        BY <3>1, SuiviReste
      <3>. QED
        BY <1>1, <2>2, <3>2
    <2>. QED
      BY <2>1, <2>2
  <1>3. ASSUME NEW a \in pseudonymes'
        PROVE  \E s \in Requetes : Inserante(requetes'[s], cle', a)
    <2>1. CASE Inserante(q, cle, a)
      BY <1>1, <2>1
    <2>2. CASE a \in pseudonymes
      <3>1. PICK s \in Requetes : Inserante(requetes[s], cle, a)
        BY <2>2 DEF IInv
      <3>2. CASE s # r
        BY <1>1, <3>1, <3>2
      <3>3. CASE s = r
        <4>. DEFINE p == requetes[r]
        <4>1. Inserante(p, cle, a) /\ Poursuit(p, q)
          BY <3>1, <3>3
        <4>. HIDE DEF p
        <4>2. /\ p # Repos /\ p.etape # "erreur" /\ q # Repos /\ q.action = "pseudonymise"
              /\ q.rendu = p.rendu /\ q.entites = p.entites /\ Restants(q) \subseteq Restants(p)
          BY <4>1 DEF Inserante, Poursuit
        <4>3. Remplaces(q) = Remplaces(p) /\ \A i : LienDe(q, i, cle) = LienDe(p, i, cle)
          BY <4>2 DEF Remplaces, LienDe, Entite
        <4>4. Inserante(q, cle, a)
          BY <4>1, <4>2, <4>3 DEF Inserante
        <4>. QED
          BY <1>1, <4>4
      <3>. QED
        BY <3>2, <3>3
    <2>. QED
      BY <2>1, <2>2
  <1>4. ASSUME NEW s \in Requetes, NEW lien, APseudonymise(requetes[s], lien)
        PROVE  APseudonymise(requetes'[s], lien)
    <2>1. CASE s # r
      BY <1>1, <1>4, <2>1
    <2>2. CASE s = r
      <3>. DEFINE p == requetes[r]
      <3>1. APseudonymise(p, lien) /\ Poursuit(p, q)
        BY <1>4, <2>2
      <3>. HIDE DEF p
      <3>2. p # Repos /\ p.etape # "repos"
        BY <3>1 DEF APseudonymise, Repos
      <3>3. APseudonymise(q, lien)
        BY <3>1, <3>2 DEF APseudonymise, Poursuit
      <3>. QED
        BY <1>1, <2>2, <3>3
    <2>. QED
      BY <2>1, <2>2
  <1>5. ASSUME NEW t \in Requetes, Doublon(requetes'[t])
        PROVE  Justifie(requetes'[t], pseudonymes', {requetes'[s] : s \in Requetes \ {t}})
    <2>1. CASE t = r
      <3>1. {requetes'[s] : s \in Requetes \ {r}} = {requetes[s] : s \in Requetes \ {r}}
        BY <1>1
      <3>. QED
        BY <1>1, <1>5, <2>1, <3>1
    <2>2. CASE t # r
      <3>. DEFINE p == requetes[t]
                  lien == Head(p.liens)
      <3>1. requetes'[t] = p /\ Doublon(p)
        BY <1>1, <1>5, <2>2
      <3>2. \/ \E rangee \in pseudonymes :
                 rangee.jeton = lien.jeton /\ rangee.empreinte # lien.empreinte
            \/ /\ Rangee(lien) \in pseudonymes \ p.vue
               /\ \E s \in Requetes \ {t} : APseudonymise(requetes[s], lien)
        BY <3>1 DEF IInv, EchecParCollision, Doublon
      <3>. HIDE DEF p, lien
      <3>3. \/ \E rangee \in pseudonymes' :
                 rangee.jeton = lien.jeton /\ rangee.empreinte # lien.empreinte
            \/ /\ Rangee(lien) \in pseudonymes' \ p.vue
               /\ \E s \in Requetes \ {t} : APseudonymise(requetes'[s], lien)
        BY <1>4, <3>2
      <3>4. Justifie(p, pseudonymes', {requetes'[s] : s \in Requetes \ {t}})
        BY <3>3 DEF Justifie, lien
      <3>. QED
        BY <3>1, <3>4
    <2>. QED
      BY <2>1, <2>2
  <1>6. EchecParCollision'
    <2>1. ASSUME NEW t \in Requetes, Doublon(requetes'[t])
          PROVE  LET lien == Head(requetes'[t].liens)
                 IN \/ \E rangee \in pseudonymes' :
                         rangee.jeton = lien.jeton /\ rangee.empreinte # lien.empreinte
                    \/ /\ Rangee(lien) \in pseudonymes' \ requetes'[t].vue
                       /\ \E s \in Requetes \ {t} : APseudonymise(requetes'[s], lien)
      BY <1>5, <2>1 DEF Justifie
    <2>. QED
      BY <2>1 DEF EchecParCollision, Doublon
  <1>. QED
    BY <1>1, <1>2, <1>3, <1>6 DEF IInv

\* The step of a request for these arguments.
Demande(r, d, action, seuil, detections) ==
  LET x == extraire(d)
      es == AProteger(x, detections, seuil)
      rendu == appliquer(d, x, es, RemplacementDe(action, es))
  IN Avancer(r, [etape |-> "enregistre", document |-> d, extrait |-> x,
                 entites |-> es, action |-> action, rendu |-> rendu,
                 liens |-> Correspondances(action, es, rendu.remplaces),
                 vue |-> {}, cause |-> "aucune"])

LEMMA ProtegerInv ==
  ASSUME IInv, NEW r \in Requetes, Proteger(r)
  PROVE  IInv'
  <1>1. PICK d \in Demandables(charge, r), action \in Actions, seuil \in {"moyen", "critique"} :
          LET x == extraire(d)
          IN /\ x.methode # "erreur"
             /\ \E detections \in Detections(d, x.texte.texte) :
                  LET es == AProteger(x, detections, seuil)
                      remplacements == RemplacementDe(action, es)
                      rendu == appliquer(d, x, es, remplacements)
                  IN /\ es = <<>> \/ Ouvrable(d)
                     /\ Avancer(r, [etape |-> "enregistre", document |-> d, extrait |-> x,
                                    entites |-> es, action |-> action, rendu |-> rendu,
                                    liens |-> Correspondances(action, es, rendu.remplaces),
                                    vue |-> {}, cause |-> "aucune"])
    BY DEF Proteger
  <1>2. PICK detections \in Detections(d, extraire(d).texte.texte) :
          Demande(r, d, action, seuil, detections)
    BY <1>1, Zenon DEF Demande
  <1>. DEFINE x == extraire(d)
              es == AProteger(x, detections, seuil)
              rendu == appliquer(d, x, es, RemplacementDe(action, es))
              rs == rendu.remplaces
              C == Correspondances(action, es, rs)
              q == [etape |-> "enregistre", document |-> d, extrait |-> x, entites |-> es,
                    action |-> action, rendu |-> rendu, liens |-> C,
                    vue |-> {}, cause |-> "aucune"]
  <1>3. charge' = charge /\ cle' = cle /\ pseudonymes' = pseudonymes
    BY DEF Proteger
  <1>4. DocumentPossible(d) /\ Detectees(x, es) /\ ResultatBon(x)
    <2>1. /\ DocumentPossible(d) /\ detections \in Seq([debut : Nat, fin : Nat, type : STRING])
          /\ \A k \in DOMAIN detections : Trouvable(x, detections[k])
      BY DetectionsPossibles DEF IInv
    <2>2. ResultatBon(x)
      BY <2>1, ExtraireBon
    <2>. HIDE DEF x
    <2>. QED
      BY <2>1, <2>2, EntitesAProteger
  <1>5. rs \in Seq(DOMAIN es)
    <2>. HIDE DEF x, es
    <2>. QED
      BY <1>4, RemplacesValides
  <1>6. LiensFideles(action, es, rs, C)
    <2>. HIDE DEF es, rs
    <2>. QED
      BY <1>5, LiensDesRemplaces
  <1>. HIDE DEF x, es, rendu, C
  <1>7. Avancer(r, q)
    BY <1>2 DEF Demande, x, es, rendu, C
  <1>8. Suivi(q, cle, pseudonymes)
    <2>0. q.liens = C /\ q.rendu = rendu /\ q.entites = es /\ q.action = action
      OBVIOUS
    <2>1. /\ Remplaces(q) = {rs[k] : k \in DOMAIN rs} /\ Restants(q) = {C[n] : n \in DOMAIN C}
          /\ \A i : LienDe(q, i, cle) = correspondance(es[i].valeur, es[i].type, cle)
      <3>. HIDE DEF q
      <3>. QED
        BY <2>0 DEF Remplaces, Restants, Elements, LienDe, Entite
    <2>2. Remplaces(q) \subseteq DOMAIN q.entites
      <3>. HIDE DEF q, rs
      <3>. QED
        BY <1>5, <2>0, <2>1
    <2>3. /\ q.liens \in Seq(Restants(q)) /\ Distincts(q.liens)
          /\ q.liens # <<>> => q.action = "pseudonymise"
      <3>. HIDE DEF q
      <3>. QED
        BY <1>6, <2>0, <2>1 DEF LiensFideles
    <2>4. \A lien \in Restants(q) : \E i \in Remplaces(q) : lien = LienDe(q, i, cle)
      <3>1. \A n \in DOMAIN C : \E k \in DOMAIN rs :
              C[n] = correspondance(es[rs[k]].valeur, es[rs[k]].type, cle)
        BY <1>6 DEF LiensFideles
      <3>. HIDE DEF q, rs
      <3>. QED
        BY <2>1, <3>1
    <2>5. q.action = "pseudonymise" =>
            \A i \in Remplaces(q) : \E j \in Remplaces(q) :
              LienDe(q, j, cle).jeton = LienDe(q, i, cle).jeton /\ LienDe(q, j, cle) \in Restants(q)
      <3>1. ASSUME action = "pseudonymise", NEW k \in DOMAIN rs
            PROVE  \E j \in DOMAIN rs, n \in DOMAIN C :
                     C[n] = LienDe(q, rs[j], cle)
                       /\ LienDe(q, rs[j], cle).jeton = LienDe(q, rs[k], cle).jeton
        <4>. DEFINE lien(i) == correspondance(es[i].valeur, es[i].type, cle)
        <4>1. \E j \in DOMAIN rs, n \in DOMAIN C :
                C[n] = lien(rs[j]) /\ lien(rs[j]).jeton = lien(rs[k]).jeton
          BY <1>6, <3>1 DEF LiensFideles
        <4>2. \A i : LienDe(q, i, cle) = lien(i)
          BY <2>1
        <4>. HIDE DEF lien, q, rs
        <4>. QED
          BY <4>1, <4>2
      <3>2. q.action = action
        OBVIOUS
      <3>. HIDE DEF q, rs
      <3>. QED
        BY <2>1, <3>1, <3>2
    <2>6. Champs(q) /\ q.etape = "enregistre"
      BY DEF Champs
    <2>7. Protege(q)
      <3>1. /\ q.document = d /\ q.extrait = x /\ q.entites = es /\ q.action = action
            /\ q.rendu = rendu
        OBVIOUS
      <3>2. x = extraire(d) /\ rendu = appliquer(d, x, es, RemplacementDe(action, es))
        BY DEF x, rendu
      <3>. HIDE DEF q
      <3>. QED
        BY <1>4, <3>1, <3>2 DEF Protege
    <2>. HIDE DEF q
    <2>. QED
      BY <2>2, <2>3, <2>4, <2>5, <2>6, <2>7 DEF Suivi
  <1>9. q.etape = "enregistre" /\ Repos.etape = "repos"
    BY DEF Repos
  <1>. HIDE DEF q
  <1>10. requetes[r] = Repos
    <2>1. requetes[r].etape = "repos" /\ Suivi(requetes[r], cle, pseudonymes)
      BY DEF Proteger, IInv
    <2>. QED
      BY <2>1 DEF Suivi
  <1>11. Poursuit(requetes[r], q)
    BY <1>9, <1>10 DEF Poursuit
  <1>12. Table' /\ ~Doublon(q)
    BY <1>3, <1>9 DEF IInv, Table, Doublon
  <1>. QED
    BY <1>3, <1>7, <1>8, <1>11, <1>12, EtapeInv

\* Keeping a correspondence: its value gets a row.
LEMMA InsererTable ==
  ASSUME Table, NEW lien, pseudonymes' = pseudonymes \union {Rangee(lien)},
         "inseree" \in Issues(pseudonymes, lien)
  PROVE  Table'
  <1>1. \A a \in pseudonymes : a.empreinte # lien.empreinte /\ a.jeton # lien.jeton
    BY DEF Issues, Connue
  <1>2. Rangee(lien).empreinte = lien.empreinte /\ Rangee(lien).jeton = lien.jeton
        /\ Rangee(lien) = [empreinte |-> Rangee(lien).empreinte, jeton |-> Rangee(lien).jeton]
    BY DEF Rangee
  <1>. QED
    BY <1>1, <1>2 DEF Table

\* The link at hand is the one of an entity replaced.
LEMMA LienCourant ==
  ASSUME NEW p, NEW cl, NEW table, Suivi(p, cl, table), p # Repos, p.liens # <<>>
  PROVE  /\ Head(p.liens) \in Restants(p) /\ Head(p.liens) \notin Elements(Tail(p.liens))
         /\ \E i \in Remplaces(p) : Head(p.liens) = LienDe(p, i, cl)
         /\ Head(p.liens).chiffree <=> cl = "valide"
         /\ p.action = "pseudonymise" /\ Champs(p)
  <1>. DEFINE s == p.liens
              R == Restants(p)
  <1>1. s \in Seq(R) /\ s # <<>> /\ Distincts(s)
    BY DEF Suivi
  <1>. HIDE DEF s, R
  <1>2. Head(s) \in Elements(s) /\ Head(s) \notin Elements(Tail(s))
    BY <1>1, ResteDesLiens
  <1>3. Head(p.liens) \in Restants(p)
    BY <1>2 DEF s, Restants
  <1>4. PICK i \in Remplaces(p) : Head(p.liens) = LienDe(p, i, cl)
    BY <1>3 DEF Suivi
  <1>5. LienDe(p, i, cl).chiffree <=> cl = "valide"
    BY DEF LienDe, correspondance, chiffrement_disponible
  <1>. QED
    BY <1>2, <1>3, <1>4, <1>5 DEF s, Suivi

LEMMA EnregistrerInv ==
  ASSUME IInv, NEW r \in Requetes, Enregistrer(r)
  PROVE  IInv'
  <1>. DEFINE p == requetes[r]
              lien == Head(p.liens)
  <1>1. /\ p.etape = "enregistre" /\ p.liens # <<>>
        /\ charge' = charge /\ cle' = cle /\ pseudonymes' = pseudonymes
        /\ IF lien.chiffree /\ ~Connue(pseudonymes, lien)
           THEN Avancer(r, [p EXCEPT !.etape = "insere", !.vue = pseudonymes])
           ELSE Avancer(r, [p EXCEPT !.liens = Tail(p.liens)])
    BY DEF Enregistrer
  <1>2. Suivi(p, cle, pseudonymes) /\ p # Repos
    BY <1>1 DEF IInv, Repos
  <1>3. Champs(p) /\ (lien.chiffree <=> cle = "valide")
    BY <1>1, <1>2, LienCourant
  <1>4. Table'
    BY <1>1 DEF IInv, Table
  <1>5. CASE lien.chiffree /\ ~Connue(pseudonymes, lien)
    <2>. DEFINE q == Apres(p, "insere", p.liens, pseudonymes, p.cause)
    <2>1. Avancer(r, q)
      <3>1. [p EXCEPT !.etape = "insere", !.vue = pseudonymes] = q
        <4>. HIDE DEF p, lien
        <4>1. AvecVue(AvecEtape(p, "insere"), pseudonymes) = q
          BY <1>3, Ecrit
        <4>. QED
          BY <4>1 DEF AvecEtape, AvecVue
      <3>. HIDE DEF p, q, lien
      <3>. QED
        BY <1>1, <1>5, <3>1
    <2>2. \A a \in pseudonymes : a.empreinte # Head(p.liens).empreinte
      BY <1>5 DEF Connue
    <2>3. Suivi(q, cle, pseudonymes) /\ Poursuit(p, q)
      <3>. HIDE DEF p, lien
      <3>. QED
        BY <1>1, <1>2, <2>2, ApresSuivi
    <2>4. q.etape = "insere"
      BY DEF Apres
    <2>. HIDE DEF q
    <2>. QED
      BY <1>1, <1>4, <2>1, <2>3, <2>4, EtapeInv DEF Doublon
  <1>6. CASE ~(lien.chiffree /\ ~Connue(pseudonymes, lien))
    <2>. DEFINE q == Apres(p, p.etape, Tail(p.liens), p.vue, p.cause)
    <2>1. Avancer(r, q)
      <3>1. [p EXCEPT !.liens = Tail(p.liens)] = q
        <4>. HIDE DEF p, lien
        <4>1. AvecLiens(p, Tail(p.liens)) = q
          BY <1>3, Ecrit
        <4>. QED
          BY <4>1 DEF AvecLiens
      <3>. HIDE DEF p, q, lien
      <3>. QED
        BY <1>1, <1>6, <3>1
    <2>2. cle = "valide" => \E a \in pseudonymes : a.empreinte = Head(p.liens).empreinte
      BY <1>3, <1>6 DEF Connue
    <2>3. Suivi(q, cle, pseudonymes) /\ Poursuit(p, q)
      <3>. HIDE DEF p, lien
      <3>. QED
        BY <1>1, <1>2, <2>2, ApresSuivi
    <2>4. q.etape = "enregistre"
      BY <1>1 DEF Apres
    <2>. HIDE DEF q
    <2>. QED
      BY <1>1, <1>4, <2>1, <2>3, <2>4, EtapeInv DEF Doublon
  <1>. QED
    BY <1>5, <1>6

\* What a row in the way of an insertion comes from.
LEMMA EnTravers ==
  ASSUME IInv, NEW r \in Requetes, requetes[r].etape = "insere",
         "doublon" \in Issues(pseudonymes, Head(requetes[r].liens))
  PROVE  Justifie(requetes[r], pseudonymes, {requetes[s] : s \in Requetes \ {r}})
  <1>. DEFINE p == requetes[r]
              lien == Head(p.liens)
  <1>1. Suivi(p, cle, pseudonymes) /\ p # Repos /\ p.etape = "insere"
    BY DEF IInv, Repos
  <1>2. p.liens # <<>> /\ \A a \in p.vue : a.empreinte # lien.empreinte
    BY <1>1 DEF Suivi, Cherchee
  <1>3. lien \in Restants(p) /\ \E i \in Remplaces(p) : lien = LienDe(p, i, cle)
    BY <1>1, <1>2, LienCourant
  <1>4. PICK a \in pseudonymes : a.jeton = lien.jeton
    BY DEF Issues
  <1>5. CASE a.empreinte # lien.empreinte
    BY <1>4, <1>5 DEF Justifie
  <1>6. CASE a.empreinte = lien.empreinte
    <2>1. a = Rangee(lien)
      BY <1>4, <1>6 DEF IInv, Table, Rangee
    <2>2. a \notin p.vue
      BY <1>2, <1>6
    <2>3. PICK s \in Requetes : Inserante(requetes[s], cle, a)
      BY DEF IInv
    <2>. DEFINE q == requetes[s]
    <2>4. PICK i \in Remplaces(q) :
            /\ Rangee(LienDe(q, i, cle)) = a
            /\ q.etape = "erreur" \/ LienDe(q, i, cle) \notin Restants(q)
      BY <2>3 DEF Inserante
    <2>5. LienDe(q, i, cle) = lien
      <3>1. PICK j \in Remplaces(p) : lien = LienDe(p, j, cle)
        BY <1>3
      <3>. HIDE DEF p, q, lien
      <3>2. Rangee(LienDe(q, i, cle)) = Rangee(LienDe(p, j, cle))
        BY <2>1, <2>4, <3>1
      <3>3. /\ LienDe(q, i, cle).empreinte = LienDe(p, j, cle).empreinte
            /\ LienDe(q, i, cle).jeton = LienDe(p, j, cle).jeton
        BY <3>2 DEF Rangee
      <3>4. LienDe(q, i, cle) = LienDe(p, j, cle)
        BY <3>3 DEF LienDe, correspondance
      <3>. QED
        BY <3>1, <3>4
    <2>6. s # r
      BY <1>1, <1>3, <2>4, <2>5
    <2>7. APseudonymise(q, lien)
      <3>1. q # Repos /\ q.action = "pseudonymise" /\ Suivi(q, cle, pseudonymes)
        BY <2>3 DEF Inserante, IInv
      <3>. HIDE DEF q, p, lien
      <3>2. q.etape # "repos"
        BY <3>1 DEF Suivi
      <3>3. i \in Range(q.rendu.remplaces)
        BY <2>4 DEF Range, Remplaces
      <3>4. /\ lien.empreinte = empreinte(q.entites[i].valeur)
            /\ lien.jeton = jeton(q.entites[i].valeur, q.entites[i].type)
        BY <2>5 DEF LienDe, Entite, correspondance
      <3>. QED
        BY <3>1, <3>2, <3>3, <3>4 DEF APseudonymise
    <2>8. q \in {requetes[t] : t \in Requetes \ {r}}
      BY <2>6
    <2>. QED
      BY <2>1, <2>2, <2>7, <2>8 DEF Justifie
  <1>. QED
    BY <1>5, <1>6

LEMMA InsererInv ==
  ASSUME IInv, NEW r \in Requetes, Inserer(r)
  PROVE  IInv'
  <1>. DEFINE p == requetes[r]
              lien == Head(p.liens)
              fini == Apres(p, "enregistre", Tail(p.liens), p.vue, p.cause)
  <1>1. PICK issue \in Issues(pseudonymes, lien) :
          /\ IF issue = "doublon" THEN Echouer(r, "doublon")
             ELSE Avancer(r, [p EXCEPT !.etape = "enregistre", !.liens = Tail(p.liens)])
          /\ pseudonymes' = IF issue = "inseree" THEN pseudonymes \union {Rangee(lien)}
                            ELSE pseudonymes
    BY DEF Inserer
  <1>2. p.etape = "insere" /\ charge' = charge /\ cle' = cle
    BY DEF Inserer
  <1>3. Suivi(p, cle, pseudonymes) /\ p # Repos
    BY <1>2 DEF IInv, Repos
  <1>4. p.liens # <<>>
    BY <1>2, <1>3 DEF Suivi, Cherchee
  <1>5. /\ lien \in Restants(p) /\ lien \notin Elements(Tail(p.liens))
        /\ \E i \in Remplaces(p) : lien = LienDe(p, i, cle)
        /\ p.action = "pseudonymise" /\ Champs(p)
    BY <1>3, <1>4, LienCourant
  <1>6. issue \in {"inseree", "connue", "doublon"}
    BY DEF Issues
  <1>7. [p EXCEPT !.etape = "enregistre", !.liens = Tail(p.liens)] = fini
    <2>. HIDE DEF p
    <2>1. AvecLiens(AvecEtape(p, "enregistre"), Tail(p.liens)) = fini
      BY <1>5, Ecrit
    <2>. QED
      BY <2>1 DEF AvecEtape, AvecLiens
  <1>8. /\ fini.etape = "enregistre" /\ fini.action = p.action /\ fini.liens = Tail(p.liens)
        /\ fini.rendu = p.rendu /\ fini.entites = p.entites
    BY DEF Apres
  <1>. HIDE DEF fini
  <1>9. CASE issue = "doublon"
    <2>. DEFINE q == Apres(p, "erreur", p.liens, p.vue, "doublon")
    <2>1. Avancer(r, q) /\ pseudonymes' = pseudonymes
      <3>1. [p EXCEPT !.etape = "erreur", !.cause = "doublon"] = q
        <4>. HIDE DEF p, lien
        <4>1. AvecCause(AvecEtape(p, "erreur"), "doublon") = q
          BY <1>5, Ecrit
        <4>. QED
          BY <4>1 DEF AvecEtape, AvecCause
      <3>2. Avancer(r, [p EXCEPT !.etape = "erreur", !.cause = "doublon"])
        BY <1>1, <1>9 DEF Echouer
      <3>. HIDE DEF p, q, lien
      <3>. QED
        BY <1>1, <1>9, <3>1, <3>2
    <2>2. Suivi(q, cle, pseudonymes) /\ Poursuit(p, q)
      <3>. HIDE DEF p, lien
      <3>. QED
        BY <1>2, <1>3, ApresSuivi
    <2>3. Justifie(p, pseudonymes, {requetes[s] : s \in Requetes \ {r}})
      BY <1>1, <1>2, <1>9, EnTravers
    <2>4. q.liens = p.liens /\ q.vue = p.vue
      BY DEF Apres
    <2>. HIDE DEF q
    <2>5. Justifie(q, pseudonymes, {requetes[s] : s \in Requetes \ {r}})
      BY <2>3, <2>4 DEF Justifie
    <2>6. Table'
      BY <2>1 DEF IInv, Table
    <2>. QED
      BY <1>2, <2>1, <2>2, <2>5, <2>6, EtapeInv
  <1>10. CASE issue = "connue"
    <2>1. Avancer(r, fini) /\ pseudonymes' = pseudonymes
      <3>. HIDE DEF p, lien
      <3>. QED
        BY <1>1, <1>7, <1>10
    <2>2. \E a \in pseudonymes : a.empreinte = Head(p.liens).empreinte
      BY <1>10 DEF Issues, Connue
    <2>3. Suivi(fini, cle, pseudonymes) /\ Poursuit(p, fini)
      <3>. HIDE DEF p, lien
      <3>. QED
        BY <1>2, <1>3, <1>4, <2>2, ApresSuivi DEF fini
    <2>4. Table'
      BY <2>1 DEF IInv, Table
    <2>. QED
      BY <1>2, <1>8, <2>1, <2>3, <2>4, EtapeInv DEF Doublon
  <1>11. CASE issue = "inseree"
    <2>1. Avancer(r, fini) /\ pseudonymes' = pseudonymes \union {Rangee(lien)}
      <3>. HIDE DEF p, lien
      <3>. QED
        BY <1>1, <1>7, <1>11
    <2>2. \E a \in pseudonymes' : a.empreinte = Head(p.liens).empreinte
      <3>1. Rangee(lien) \in pseudonymes' /\ Rangee(lien).empreinte = lien.empreinte
        BY <2>1 DEF Rangee
      <3>. QED
        BY <3>1
    <2>3. Suivi(fini, cle, pseudonymes') /\ Poursuit(p, fini)
      <3>1. pseudonymes \subseteq pseudonymes'
        BY <2>1
      <3>. HIDE DEF p, lien
      <3>. QED
        BY <1>2, <1>3, <1>4, <2>2, <3>1, ApresSuivi, ZenonT(60) DEF fini
    <2>4. Table'
      <3>. HIDE DEF lien
      <3>. QED
        BY <1>1, <1>11, <2>1, InsererTable DEF IInv
    <2>5. Inserante(fini, cle, Rangee(lien))
      <3>1. PICK i \in Remplaces(p) : lien = LienDe(p, i, cle)
        BY <1>5
      <3>. HIDE DEF p, lien
      <3>2. Remplaces(fini) = Remplaces(p) /\ LienDe(fini, i, cle) = LienDe(p, i, cle)
        BY <1>8 DEF Remplaces, LienDe, Entite
      <3>3. Restants(fini) = Elements(Tail(p.liens)) /\ fini # Repos
        BY <1>8, <2>3 DEF Restants, Poursuit
      <3>. QED
        BY <1>5, <1>8, <3>1, <3>2, <3>3 DEF Inserante
    <2>. QED
      BY <1>2, <1>8, <2>1, <2>3, <2>4, <2>5, EtapeInv DEF Doublon
  <1>. QED
    BY <1>6, <1>9, <1>10, <1>11

LEMMA RequeteEchoueInv ==
  ASSUME IInv, NEW r \in Requetes, RequeteEchoue(r)
  PROVE  IInv'
  <1>. DEFINE p == requetes[r]
              lien == Head(p.liens)
              q == Apres(p, "erreur", p.liens, p.vue, "panne")
  <1>1. /\ p.etape \in {"enregistre", "insere"} /\ p.liens # <<>>
        /\ charge' = charge /\ cle' = cle
        /\ Avancer(r, [p EXCEPT !.etape = "erreur", !.cause = "panne"])
        /\ \/ pseudonymes' = pseudonymes
           \/ /\ "inseree" \in Issues(pseudonymes, lien)
              /\ pseudonymes' = pseudonymes \union {Rangee(lien)}
    BY DEF RequeteEchoue, Echouer
  <1>2. Suivi(p, cle, pseudonymes) /\ p # Repos
    BY <1>1 DEF IInv, Repos
  <1>3. /\ \E i \in Remplaces(p) : lien = LienDe(p, i, cle)
        /\ p.action = "pseudonymise" /\ Champs(p)
    BY <1>1, <1>2, LienCourant
  <1>4. Avancer(r, q)
    <2>1. [p EXCEPT !.etape = "erreur", !.cause = "panne"] = q
      <3>. HIDE DEF p, lien
      <3>1. AvecCause(AvecEtape(p, "erreur"), "panne") = q
        BY <1>3, Ecrit
      <3>. QED
        BY <3>1 DEF AvecEtape, AvecCause
    <2>. HIDE DEF p, q, lien
    <2>. QED
      BY <1>1, <2>1
  <1>5. /\ q.etape = "erreur" /\ q.cause = "panne" /\ q.action = p.action
        /\ q.rendu = p.rendu /\ q.entites = p.entites
    BY DEF Apres
  <1>6. pseudonymes \subseteq pseudonymes'
    BY <1>1
  <1>7. Suivi(q, cle, pseudonymes') /\ Poursuit(p, q)
    <2>. HIDE DEF p, lien
    <2>. QED
      BY <1>1, <1>2, <1>6, ApresSuivi
  <1>. HIDE DEF q
  <1>8. Table'
    <2>. HIDE DEF lien
    <2>1. CASE pseudonymes' = pseudonymes
      BY <2>1 DEF IInv, Table
    <2>2. CASE /\ "inseree" \in Issues(pseudonymes, lien)
               /\ pseudonymes' = pseudonymes \union {Rangee(lien)}
      BY <2>2, InsererTable DEF IInv
    <2>. QED
      BY <1>1, <2>1, <2>2
  <1>9. Inserante(q, cle, Rangee(lien))
    <2>1. PICK i \in Remplaces(p) : lien = LienDe(p, i, cle)
      BY <1>3
    <2>. HIDE DEF p, lien
    <2>2. Remplaces(q) = Remplaces(p) /\ LienDe(q, i, cle) = LienDe(p, i, cle)
      BY <1>5 DEF Remplaces, LienDe, Entite
    <2>. QED
      BY <1>3, <1>5, <1>7, <2>1, <2>2 DEF Inserante, Poursuit
  <1>10. ~Doublon(q)
    BY <1>5 DEF Doublon
  <1>11. \A a \in pseudonymes' : a \in pseudonymes \/ Inserante(q, cle, a)
    <2>. HIDE DEF p, lien
    <2>. QED
      BY <1>1, <1>9
  <1>. QED
    BY <1>1, <1>4, <1>6, <1>7, <1>8, <1>10, <1>11, EtapeInv

LEMMA ServirInv ==
  ASSUME IInv, NEW r \in Requetes, Servir(r)
  PROVE  IInv'
  <1>. DEFINE p == requetes[r]
              q == Apres(p, "servi", p.liens, p.vue, p.cause)
  <1>1. /\ p.etape = "enregistre" /\ p.liens = <<>>
        /\ Avancer(r, [p EXCEPT !.etape = "servi"])
        /\ charge' = charge /\ cle' = cle /\ pseudonymes' = pseudonymes
    BY DEF Servir
  <1>2. Suivi(p, cle, pseudonymes) /\ p # Repos
    BY <1>1 DEF IInv, Repos
  <1>3. Avancer(r, q)
    <2>1. Champs(p)
      BY <1>2 DEF Suivi
    <2>2. [p EXCEPT !.etape = "servi"] = q
      <3>. HIDE DEF p
      <3>1. AvecEtape(p, "servi") = q
        BY <2>1, Ecrit
      <3>. QED
        BY <3>1 DEF AvecEtape
    <2>. HIDE DEF p, q
    <2>. QED
      BY <1>1, <2>2
  <1>4. Suivi(q, cle, pseudonymes) /\ Poursuit(p, q)
    <2>. HIDE DEF p
    <2>. QED
      BY <1>1, <1>2, ApresSuivi
  <1>5. q.etape = "servi"
    BY DEF Apres
  <1>. HIDE DEF q
  <1>6. Table'
    BY <1>1 DEF IInv, Table
  <1>. QED
    BY <1>1, <1>3, <1>4, <1>5, <1>6, EtapeInv DEF Doublon

\* Along every behaviour of the protection the invariant holds.
THEOREM Invariant == Spec => []IInv
  <1>1. IInv /\ [Next]_vars => IInv'
    <2>. SUFFICES ASSUME IInv, [Next]_vars PROVE IInv'
      OBVIOUS
    <2>1. CASE UNCHANGED vars
      BY <2>1 DEF vars, IInv, Table, EchecParCollision
    <2>2. CASE Termine
      BY <2>1, <2>2 DEF Termine
    <2>3. ASSUME NEW r \in Requetes, Proteger(r) PROVE IInv'
      BY <2>3, ProtegerInv
    <2>4. ASSUME NEW r \in Requetes, Enregistrer(r) PROVE IInv'
      BY <2>4, EnregistrerInv
    <2>5. ASSUME NEW r \in Requetes, Inserer(r) PROVE IInv'
      BY <2>5, InsererInv
    <2>6. ASSUME NEW r \in Requetes, RequeteEchoue(r) PROVE IInv'
      BY <2>6, RequeteEchoueInv
    <2>7. ASSUME NEW r \in Requetes, Servir(r) PROVE IInv'
      BY <2>7, ServirInv
    <2>. QED
      BY <2>1, <2>2, <2>3, <2>4, <2>5, <2>6, <2>7 DEF Next
  <1>. QED
    BY InitInv, <1>1, PTL DEF Spec

-------------------------------------------------------------------------------
(* What can still be read *)

\* What a text is read from, by the way it was read (router.py): nothing when there is no
\* text, one layer, the pages of a PDF, or OCR.
LEMMA MethodeDe ==
  ASSUME NEW d, DocumentPossible(d)
  PROVE  LET x == extraire(d)
         IN /\ x.methode \in {"aucune", "erreur"} => x.brut = <<>>
            /\ deviner_type(d) = "texte" => x.methode \in {"aucune", "plain"}
            /\ deviner_type(d) = "image" => x.methode \in {"aucune", "erreur", "ocr"}
            /\ deviner_type(d) = "docx" => x.methode \in {"aucune", "erreur", "docx"}
            /\ deviner_type(d) = "pdf" => x.methode \in {"aucune", "pdf", "ocr"}
            /\ deviner_type(d) = "pdf" /\ x.methode = "pdf" =>
                 /\ x.brut = FlattenSeq(AvecSeparateurs(d.couches))
                 /\ x.pagesBrutes = AvecSeparateurs(d.couches)
  <1>. DEFINE x == extraire(d)
  <1>1. /\ SansTexte("aucune").methode = "aucune" /\ SansTexte("aucune").brut = <<>>
        /\ SansTexte("ocr").methode = "ocr" /\ Echec.methode = "erreur" /\ Echec.brut = <<>>
    BY DEF SansTexte, Resultat, Echec
  <1>2. CASE d.vide
    <2>1. x = SansTexte("aucune")
      BY <1>2 DEF extraire
    <2>. HIDE DEF x
    <2>2. x.methode = "aucune" /\ x.brut = <<>>
      BY <1>1, <2>1
    <2>. QED
      BY <2>2 DEF x
  <1>3. CASE ~d.vide /\ deviner_type(d) = "pdf"
    <2>. DEFINE separees == AvecSeparateurs(d.couches)
    <2>1. x = IF d.lecteurs = {} \/ Scanne(d.couches) THEN OcrPdf(d)
              ELSE Resultat(FlattenSeq(separees), "pdf", separees)
      BY <1>3 DEF extraire, ExtrairePdf
    <2>2. OcrPdf(d).methode = "ocr"
      BY <1>1 DEF OcrPdf, Resultat
    <2>3. \A u, v : /\ Resultat(u, "pdf", v).methode = "pdf" /\ Resultat(u, "pdf", v).brut = u
                    /\ Resultat(u, "pdf", v).pagesBrutes = v
      BY DEF Resultat
    <2>. HIDE DEF x, separees
    <2>4. /\ x.methode \in {"pdf", "ocr"}
          /\ x.methode = "pdf" => x.brut = FlattenSeq(separees) /\ x.pagesBrutes = separees
      <3>1. CASE d.lecteurs = {} \/ Scanne(d.couches)
        BY <2>1, <2>2, <3>1
      <3>2. CASE ~(d.lecteurs = {} \/ Scanne(d.couches))
        BY <2>1, <2>3, <3>2
      <3>. QED
        BY <3>1, <3>2
    <2>. QED
      BY <1>3, <2>4 DEF x, separees
  <1>4. CASE ~d.vide /\ deviner_type(d) = "docx"
    <2>1. x = ExtraireDocx(d)
      BY <1>4 DEF extraire
    <2>2. \A u, v : Resultat(u, "docx", v).methode = "docx"
      BY DEF Resultat
    <2>3. ExtraireDocx(d).methode = "docx" \/ ExtraireDocx(d) = Echec
      BY <2>2, Zenon DEF ExtraireDocx
    <2>. HIDE DEF x
    <2>4. x.methode = "docx" \/ (x.methode = "erreur" /\ x.brut = <<>>)
      BY <1>1, <2>1, <2>3
    <2>. QED
      BY <1>4, <2>4 DEF x
  <1>5. CASE ~d.vide /\ deviner_type(d) = "image"
    <2>1. x = ExtraireImage(d)
      BY <1>5 DEF extraire
    <2>2. \A u, v, b : [Resultat(u, "ocr", v) EXCEPT !.boites = b].methode = "ocr"
      BY DEF Resultat
    <2>3. ExtraireImage(d).methode = "ocr" \/ ExtraireImage(d) = Echec
      BY <2>2, ZenonT(60) DEF ExtraireImage
    <2>. HIDE DEF x
    <2>4. x.methode = "ocr" \/ (x.methode = "erreur" /\ x.brut = <<>>)
      BY <1>1, <2>1, <2>3
    <2>. QED
      BY <1>5, <2>4 DEF x
  <1>6. CASE ~d.vide /\ deviner_type(d) = "texte"
    <2>1. x = ExtraireTexte(d)
      BY <1>6 DEF extraire
    <2>2. ExtraireTexte(d).methode = "plain"
      BY DEF ExtraireTexte, Resultat
    <2>. HIDE DEF x
    <2>3. x.methode = "plain"
      BY <2>1, <2>2
    <2>. QED
      BY <1>6, <2>3 DEF x
  <1>. QED
    BY <1>2, <1>3, <1>4, <1>5, <1>6, TypeDevine

\* Something was found only in a text that has something.
LEMMA QuelqueChose ==
  ASSUME NEW x, ResultatBon(x), NEW e, Detectee(x, e)
  PROVE  x.brut # <<>> /\ Depouille(e.valeur) # <<>> /\ e.valeur \in Seq(Car)
  <1>. DEFINE s == x.brut
              t == TexteDe(s)
              v == e.valeur
  <1>1. /\ s \in Seq(Car) /\ x.texte.texte = t /\ e.debut \in Nat /\ e.fin \in Nat
        /\ e.debut < e.fin /\ e.fin <= Len(t)
    BY PlaceDe
  <1>2. PICK p \in (e.debut + 1)..e.fin : t[p] \notin Blancs
    BY <1>1 DEF Detectee, Trouvable
  <1>3. v = SubSeq(t, e.debut + 1, e.fin)
    BY <1>1 DEF Detectee, Tranche
  <1>. HIDE DEF v
  <1>4. t \in Seq(Car) /\ Len(t) \in Nat /\ \A q \in 1..Len(t) : TableDe(s)[q] \in 0..(Len(s) - 1)
    BY <1>1, NormaliserBon
  <1>. HIDE DEF t
  <1>5. s # <<>>
    <2>1. SUFFICES ASSUME Len(s) = 0 PROVE FALSE
      BY <1>1
    <2>2. 1 \in 1..Len(t)
      BY <1>1, <1>4
    <2>3. TableDe(s)[1] \in 0..(0 - 1)
      BY <1>4, <2>1, <2>2
    <2>. QED
      BY <2>3
  <1>6. /\ v \in Seq(Car) /\ Len(v) = e.fin - e.debut
        /\ \A k \in 1..Len(v) : v[k] = t[e.debut + k]
    <2>. DEFINE de == e.debut
                jusque == e.fin
    <2>1. de \in Nat /\ jusque \in Nat /\ de <= jusque /\ jusque <= Len(t)
      BY <1>1
    <2>2. v = SubSeq(t, de + 1, jusque)
      BY <1>3
    <2>. HIDE DEF de, jusque
    <2>3. /\ v \in Seq(Car) /\ Len(v) = jusque - de
          /\ \A k \in 1..((jusque - (de + 1)) + 1) : v[k] = t[(de + 1) + k - 1]
      BY <1>4, <2>1, <2>2, TrancheDe
    <2>4. /\ (jusque - (de + 1)) + 1 = jusque - de
          /\ \A k \in 1..(jusque - de) : (de + 1) + k - 1 = de + k
      BY <2>1
    <2>5. \A k \in 1..(jusque - de) : v[k] = t[de + k]
      BY <2>3, <2>4
    <2>. QED
      BY <2>3, <2>5 DEF de, jusque
  <1>7. p - e.debut \in 1..Len(v) /\ v[p - e.debut] \notin Blancs
    <2>1. p - e.debut \in 1..Len(v) /\ e.debut + (p - e.debut) = p
      BY <1>1, <1>6
    <2>. QED
      BY <1>2, <1>6, <2>1
  <1>8. Depouille(v) # <<>>
    <2>. DEFINE pleins == {k \in DOMAIN v : v[k] \notin Blancs}
    <2>1. DOMAIN v = 1..Len(v) /\ Len(v) \in Nat /\ pleins # {} /\ pleins \in SUBSET Nat
      BY <1>6, <1>7
    <2>2. \E k \in pleins : \A j \in pleins : k <= j
      BY <2>1, NatMinimal
    <2>3. \E k \in pleins : \A j \in pleins : k >= j
      <3>. DEFINE T == {n \in Nat : \E k \in pleins : n = Len(v) - k}
      <3>1. T # {} /\ T \in SUBSET Nat
        <4>1. PICK k \in pleins : TRUE
          BY <2>1
        <4>2. Len(v) - k \in T
          BY <2>1
        <4>. QED
          BY <4>2
      <3>2. PICK n \in T : \A y \in T : n <= y
        BY <3>1, NatMinimal
      <3>3. PICK k \in pleins : n = Len(v) - k
        BY <3>2
      <3>4. ASSUME NEW j \in pleins PROVE k >= j
        <4>1. Len(v) - j \in T
          BY <2>1
        <4>. QED
          BY <2>1, <3>2, <3>3, <4>1
      <3>. QED
        BY <3>4
    <2>. DEFINE a == CHOOSE i \in pleins : \A j \in pleins : i <= j
                b == CHOOSE i \in pleins : \A j \in pleins : i >= j
    <2>4. a \in pleins /\ b \in pleins /\ a <= b
      <3>1. a \in pleins /\ \A j \in pleins : a <= j
        BY <2>2
      <3>2. b \in pleins
        BY <2>3
      <3>. QED
        BY <3>1, <3>2
    <2>5. Depouille(v) = SubSeq(v, a, b)
      BY <2>1 DEF Depouille
    <2>6. a \in Nat /\ b \in Nat /\ a >= 1 /\ b <= Len(v) /\ a <= b + 1
      BY <2>1, <2>4
    <2>. HIDE DEF a, b
    <2>7. Len(SubSeq(v, a, b)) = b + 1 - a
      BY <1>6, <2>6, PartieDe
    <2>. QED
      BY <2>4, <2>5, <2>6, <2>7
  <1>. QED
    BY <1>5, <1>6, <1>8 DEF v

\* The page of each box is a page of the document.
LEMMA PagesDesBoites ==
  ASSUME NEW d, NEW x, BoitesBonnes(d, x)
  PROVE  \A b \in DOMAIN x.boites : x.boites[b].page \in DOMAIN d.scans
  <1>1. PICK scans, L, B :
          /\ \A k \in 1..Len(scans) : k \in DOMAIN d.scans
          /\ BoitesLues(x.brut, L, scans, B)
          /\ x.boites = reprojeter_boites(x.texte, B)
    BY Zenon DEF BoitesBonnes
  <1>2. ASSUME NEW b \in DOMAIN x.boites PROVE x.boites[b].page \in DOMAIN d.scans
    <2>1. b \in DOMAIN B /\ x.boites[b] =
            [B[b] EXCEPT !.debut = Traduire(x.texte, @), !.fin = Traduire(x.texte, @)]
      BY <1>1 DEF reprojeter_boites
    <2>2. B[b] \in LesBoites /\ B[b].page \in 1..Len(scans)
      BY <1>1, <2>1 DEF BoitesLues, BoiteBrute
    <2>3. \A c, u, v : c \in LesBoites => [c EXCEPT !.debut = u, !.fin = v].page = c.page
      BY DEF LesBoites
    <2>4. x.boites[b].page = B[b].page
      BY <2>1, <2>2, <2>3
    <2>. QED
      BY <1>1, <2>2, <2>4
  <1>. QED
    BY <1>2

\* The words of an entity whose boxes are filled are hidden, on every page that was not
\* straightened.
LEMMA MotsRecouverts ==
  ASSUME NEW d, NEW x, NEW es, NEW cibles, NEW i \in cibles, NEW b \in BoitesDe(x, es[i]),
         x.boites[b].page \in DOMAIN d.scans, ~redressee(d.angles[x.boites[b].page])
  PROVE  x.boites[b].mot \notin Recouvrir(d, x, es, cibles)[x.boites[b].page]
  <1>. DEFINE boites == UNION {Touchees(x, es[j]) : j \in cibles}
              k == x.boites[b].page
  <1>1. b \in boites
    BY DEF Touchees
  <1>2. Recouvrir(d, x, es, cibles)[k] =
          DOMAIN d.scans[k] \ {x.boites[a].mot : a \in {c \in boites : x.boites[c].page = k}}
    BY DEF Recouvrir
  <1>. HIDE DEF boites
  <1>. QED
    BY <1>1, <1>2

\* What search_for covers of a page of a PDF for entity i, and the entities it finds.
Utiles(es) == {i \in DOMAIN es : Depouille(es[i].valeur) # <<>>}
CouvertPar(d, x, es, i, k) ==
  IF k \in PagesCandidates(d, x, es[i])
  THEN Occurrences(Depouille(es[i].valeur), d.couches[k]) ELSE {}
Trouvees(d, x, es) ==
  {i \in Utiles(es) : \E k \in DOMAIN d.couches : CouvertPar(d, x, es, i, k) # {}}

LEMMA MotsAppliques ==
  ASSUME NEW d, NEW x, NEW es
  PROVE  AppliquerPdf(d, x, es).mots = Recouvrir(d, x, es, Utiles(es) \ Trouvees(d, x, es))
  BY DEF AppliquerPdf, Rendu, Utiles, Trouvees, CouvertPar

\* The words of the entities of an image, or of a scan whose text layer has none of them,
\* are all covered.
LEMMA OcrIllisible ==
  ASSUME NEW q, Protege(q), deviner_type(q.document) \in {"image", "pdf"},
         q.extrait.methode = "ocr", Protegeable(q.document, q.extrait, q.entites),
         NEW i \in DOMAIN q.entites
  PROVE  ~Lisible(q, q.extrait, i)
  <1>. DEFINE d == q.document
              x == q.extrait
              es == q.entites
              rendu == q.rendu
  <1>1. /\ DocumentPossible(d) /\ x = extraire(d) /\ Detectees(x, es)
        /\ rendu = appliquer(d, x, es, RemplacementDe(q.action, es))
    BY DEF Protege
  <1>2. ResultatBon(x)
    BY <1>1, ExtraireBon
  <1>3. /\ \A k \in DOMAIN d.scans : ~redressee(d.angles[k])
        /\ deviner_type(d) = "image" => d.decodable
        /\ deviner_type(d) = "pdf" => \A j \in DOMAIN es, k \in DOMAIN d.couches :
             Occurrences(Depouille(es[j].valeur), d.couches[k]) = {}
    BY DEF Protegeable
  <1>4. \A b \in DOMAIN x.boites : x.boites[b].page \in DOMAIN d.scans
    <2>1. extraire(d).methode = "ocr"
      BY <1>1
    <2>2. BoitesBonnes(d, x)
      BY <1>1, <2>1, BoitesExtraites
    <2>. QED
      BY <2>2, PagesDesBoites
  <1>5. es # <<>>
    <2>1. i \in DOMAIN es
      OBVIOUS
    <2>. HIDE DEF es
    <2>. QED
      BY <2>1
  <1>. HIDE DEF d, x, es, rendu
  <1>6. \E cibles : i \in cibles /\ rendu.mots = Recouvrir(d, x, es, cibles)
    <2>1. CASE deviner_type(d) = "image"
      <3>1. rendu = [Rendu(d) EXCEPT !.mots = Recouvrir(d, x, es, DOMAIN es),
                                     !.nombre = Cardinality(Localisees(x, es, DOMAIN es))]
        BY <1>1, <1>3, <1>5, <2>1 DEF appliquer, AppliquerImage
      <3>2. \A u, v : [Rendu(d) EXCEPT !.mots = u, !.nombre = v].mots = u
        BY DEF Rendu
      <3>3. rendu.mots = Recouvrir(d, x, es, DOMAIN es)
        BY <3>1, <3>2
      <3>. QED
        BY <3>3 DEF es
    <2>2. CASE deviner_type(d) = "pdf"
      <3>1. rendu.mots = Recouvrir(d, x, es, Utiles(es) \ Trouvees(d, x, es))
        <4>1. rendu = AppliquerPdf(d, x, es)
          BY <1>1, <1>5, <2>2 DEF appliquer
        <4>. QED
          BY <4>1, MotsAppliques
      <3>2. i \in Utiles(es)
        <4>1. i \in DOMAIN es /\ Detectee(x, es[i])
          BY <1>1 DEF es, Detectees
        <4>2. Depouille(es[i].valeur) # <<>>
          BY <1>2, <4>1, QuelqueChose
        <4>. QED
          BY <4>1, <4>2 DEF Utiles
      <3>3. \A k \in DOMAIN d.couches : CouvertPar(d, x, es, i, k) = {}
        BY <1>3, <2>2, <3>2 DEF CouvertPar, Utiles
      <3>4. i \in Utiles(es) \ Trouvees(d, x, es)
        BY <3>2, <3>3 DEF Trouvees
      <3>. QED
        BY <3>1, <3>4
    <2>. QED
      BY <2>1, <2>2 DEF d
  <1>7. PICK cibles : i \in cibles /\ rendu.mots = Recouvrir(d, x, es, cibles)
    BY <1>6
  <1>8. ASSUME NEW b \in BoitesDe(x, es[i])
        PROVE  ~MotVisible(d, rendu, x.boites[b].page, x.boites[b].mot)
    <2>1. x.boites[b].page \in DOMAIN d.scans
      BY <1>4 DEF BoitesDe
    <2>2. ~redressee(d.angles[x.boites[b].page])
      BY <1>3, <2>1
    <2>3. x.boites[b].mot \notin rendu.mots[x.boites[b].page]
      BY <1>7, <2>1, <2>2, MotsRecouverts
    <2>. QED
      BY <2>3 DEF MotVisible
  <1>9. Lisible(q, x, i) <=> \E b \in BoitesDe(x, es[i]) :
          MotVisible(d, rendu, x.boites[b].page, x.boites[b].mot)
    BY DEF Lisible, d, x, es, rendu
  <1>. QED
    BY <1>8, <1>9 DEF x

\* The sequence of the members of a finite set has no other element.
LEMMA SuiteDesMembres ==
  ASSUME NEW S, IsFiniteSet(S)
  PROVE  /\ Len(SetToSeq(S)) \in Nat /\ DOMAIN SetToSeq(S) = 1..Len(SetToSeq(S))
         /\ \A k \in DOMAIN SetToSeq(S) : SetToSeq(S)[k] \in S
         /\ SetToSeq(S) \in Seq(S)
  <1>. DEFINE c == Cardinality(S)
  <1>1. c \in Nat /\ ExistsBijection(1..c, S)
    BY FS_CardinalityType
  <1>. HIDE DEF c
  <1>2. \E f \in [1..c -> S] : IsInjective(f)
    BY <1>1 DEF ExistsBijection, Bijection, Injection
  <1>3. SetToSeq(S) \in [1..c -> S]
    <2>1. SetToSeq(S) = CHOOSE f \in [1..c -> S] : IsInjective(f)
      BY DEF SetToSeq, c
    <2>. QED
      BY <1>2, <2>1
  <1>4. SetToSeq(S) = [k \in 1..c |-> SetToSeq(S)[k]] /\ \A k \in 1..c : SetToSeq(S)[k] \in S
    BY <1>3
  <1>5. SetToSeq(S) \in Seq(S) /\ Len(SetToSeq(S)) = c /\ DOMAIN SetToSeq(S) = 1..c
    BY <1>1, <1>4, FaitUneSuite
  <1>. QED
    BY <1>1, <1>4, <1>5

\* A position of the source still in the text is in none of the places replaced.
LEMMA ResteHors ==
  ASSUME NEW n \in Nat, NEW m \in Nat, NEW a, NEW b, NEW F \in SUBSET (1..m), NEW fin, NEW t,
         Compose(n, a, b, F, fin, t), NEW p \in Nat, p \in Range(t)
  PROVE  /\ p + 1 \in 1..n
         /\ ~(\E i \in F : a[i] < p + 1 /\ p + 1 <= b[i])
  <1>. DEFINE M == Morceaux(n, a, b, F)
              A(k) == {-i : i \in {j \in F : a[j] = k - 1}}
              R(k) == \E i \in F : a[i] < k /\ k <= b[i]
              Fin(k) == IF k > n \/ R(k) THEN <<>> ELSE <<k - 1>>
  <1>1. M \in Seq(Seq(Int)) /\ Len(M) = n + 1 /\ \A k \in 1..(n + 1) : M[k] = SetToSeq(A(k)) \o Fin(k)
    <2>1. M \in Seq(Seq(Int)) /\ DOMAIN M = 1..(n + 1)
      BY DEF Compose, Morceaux
    <2>2. \A k \in 1..(n + 1) : M[k] = SetToSeq(A(k)) \o Fin(k)
      BY DEF Morceaux, Morceau
    <2>. HIDE DEF M, A, Fin
    <2>. QED
      BY <2>1, <2>2
  <1>2. PICK L : Cumul(L, M) /\ EnPlace(Int, t, M, L, n + 1)
    BY DEF Compose
  <1>. HIDE DEF M
  <1>3. PICK j \in 1..Len(t) : t[j] = p
    BY <1>2 DEF EnPlace, Range
  <1>4. /\ t \in Seq(Int) /\ Len(t) = L[n + 1]
        /\ \A k \in 1..(n + 1) : \A r \in 1..Len(M[k]) : t[L[k - 1] + r] = M[k][r]
    BY <1>2 DEF EnPlace
  <1>5. PICK k \in 1..(n + 1) : j - L[k - 1] \in 1..Len(M[k])
    <2>1. j \in 1..L[Len(M)]
      BY <1>1, <1>3, <1>4
    <2>. QED
      BY <1>1, <1>2, <2>1, CumulBloc, SMTT(30)
  <1>6. p = M[k][j - L[k - 1]]
    <2>1. L[k - 1] \in Nat
      <3>1. k - 1 \in 0..(n + 1)
        OBVIOUS
      <3>. QED
        BY <1>1, <1>2, <3>1 DEF Cumul
    <2>2. L[k - 1] + (j - L[k - 1]) = j
      BY <1>3, <1>4, <2>1
    <2>. QED
      BY <1>3, <1>4, <1>5, <2>2
  <1>. DEFINE r == j - L[k - 1]
  <1>7. r \in 1..Len(M[k]) /\ p = M[k][r]
    BY <1>5, <1>6
  <1>. HIDE DEF r
  <1>8. /\ A(k) \subseteq (-m)..(-1) /\ IsFiniteSet(A(k))
    <2>1. A(k) \subseteq (-m)..(-1)
      OBVIOUS
    <2>. HIDE DEF A
    <2>2. IsFiniteSet((-m)..(-1))
      <3>1. -m \in Int /\ -1 \in Int
        OBVIOUS
      <3>. QED
        BY <3>1, FS_Interval
    <2>. QED
      BY <2>1, <2>2, FS_Subset
  <1>. DEFINE S == A(k)
              u == SetToSeq(S)
              v == Fin(k)
  <1>9. /\ u \in Seq(Int) /\ \A x \in 1..Len(u) : u[x] \in S
    <2>0. IsFiniteSet(S) /\ S \subseteq (-m)..(-1)
      BY <1>8
    <2>. HIDE DEF S
    <2>1. Len(u) \in Nat /\ DOMAIN u = 1..Len(u) /\ (\A x \in DOMAIN u : u[x] \in S) /\ u \in Seq(S)
      BY <2>0, SuiteDesMembres
    <2>2. S \subseteq Int
      BY <2>0
    <2>3. u \in Seq(Int)
      BY <2>1, <2>2, SousSuites
    <2>. HIDE DEF u
    <2>. QED
      BY <2>1, <2>3
  <1>10. /\ v \in Seq(Int) /\ \A x \in 1..Len(v) : v[x] = k - 1 /\ ~(k > n) /\ ~R(k)
    <2>. HIDE DEF R
    <2>1. CASE k > n \/ R(k)
      BY <2>1
    <2>2. CASE ~(k > n \/ R(k))
      <3>1. v = <<k - 1>>
        BY <2>2
      <3>. HIDE DEF v
      <3>. QED
        BY <2>2, <3>1
    <2>. QED
      BY <2>1, <2>2
  <1>11. M[k] = u \o v
    BY <1>1
  <1>. HIDE DEF u, v, R
  <1>12. /\ Len(u \o v) = Len(u) + Len(v) /\ Len(u) \in Nat /\ Len(v) \in Nat
         /\ \A x \in 1..Len(u) : (u \o v)[x] = u[x]
         /\ \A x \in 1..Len(v) : (u \o v)[Len(u) + x] = v[x]
    BY <1>9, <1>10, MisALaSuite
  <1>13. ~(r \in 1..Len(u))
    <2>1. SUFFICES ASSUME r \in 1..Len(u) PROVE FALSE
      OBVIOUS
    <2>2. p = u[r]
      BY <1>7, <1>11, <1>12, <2>1
    <2>3. p \in (-m)..(-1)
      BY <1>8, <1>9, <2>1, <2>2
    <2>. QED
      BY <2>3
  <1>14. r - Len(u) \in 1..Len(v) /\ Len(u) + (r - Len(u)) = r
    BY <1>7, <1>11, <1>12, <1>13
  <1>15. p = v[r - Len(u)]
    BY <1>7, <1>11, <1>12, <1>14
  <1>16. p = k - 1 /\ ~(k > n) /\ ~R(k)
    BY <1>10, <1>14, <1>15
  <1>17. p + 1 = k /\ k \in 1..n
    BY <1>16
  <1>. QED
    BY <1>16, <1>17 DEF R

\* In a text whose entities do not overlap, nothing of them is left.
LEMMA TexteIllisible ==
  ASSUME NEW q, Protege(q), deviner_type(q.document) = "texte",
         Protegeable(q.document, q.extrait, q.entites), NEW i \in DOMAIN q.entites
  PROVE  ~Lisible(q, q.extrait, i)
  <1>. DEFINE d == q.document
              x == q.extrait
              es == q.entites
              rendu == q.rendu
              n == Len(x.brut)
              m == Len(es)
  <1>1. /\ DocumentPossible(d) /\ x = extraire(d) /\ Detectees(x, es)
        /\ rendu = appliquer(d, x, es, RemplacementDe(q.action, es))
    BY DEF Protege
  <1>2. ResultatBon(x)
    BY <1>1, ExtraireBon
  <1>a. /\ d = q.document /\ x = q.extrait /\ es = q.entites /\ rendu = q.rendu
        /\ deviner_type(d) = "texte" /\ Protegeable(d, x, es)
    OBVIOUS
  <1>b. x.methode # "pdf"
    BY <1>1, <1>a, MethodeDe
  <1>3. Disjointes(x, es)
    <2>. HIDE DEF d, x, es
    <2>. QED
      BY <1>a, <1>b DEF Protegeable, Disjointes
  <1>4. Lisible(q, x, i) <=> \E p \in SpanDe(x, es[i])[1]..(SpanDe(x, es[i])[2] - 1) : p \in Range(rendu.texte)
    <2>. HIDE DEF d, x, es, rendu
    <2>. QED
      BY <1>a, <1>b DEF Lisible
  <1>5. m \in Nat /\ DOMAIN es = 1..m /\ Len(es) = m /\ \A j \in 1..m : Detectee(x, es[j])
    BY <1>1 DEF Detectees
  <1>6. n \in Nat
    BY <1>2, <1>5, PlacesDe
  <1>7. TexteCompose(x, es, m, rendu)
    <2>1. deviner_type(d) = "texte"
      OBVIOUS
    <2>. HIDE DEF d, x, es, rendu, m
    <2>. QED
      BY <1>1, <1>2, <1>5, <2>1, TexteProtege
  <1>. HIDE DEF d, x, es, rendu, m
  <1>8. PICK a, b, fin : \E F \in SUBSET (1..m) :
          /\ Placees(x, es, n, m, a, b)
          /\ Compose(n, a, b, F, fin, rendu.texte)
          /\ \A j \in 1..m : Traitee(a, b, F, j)
    BY <1>7, Zenon DEF TexteCompose
  <1>9. PICK F \in SUBSET (1..m) :
          /\ Placees(x, es, n, m, a, b)
          /\ Compose(n, a, b, F, fin, rendu.texte)
          /\ \A j \in 1..m : Traitee(a, b, F, j)
    BY <1>8, Zenon
  <1>. HIDE DEF n
  <1>10. /\ a \in [1..m -> 0..n] /\ b \in [1..m -> 0..n]
         /\ \A j \in 1..m : SpanDe(x, es[j])[1] = a[j] /\ SpanDe(x, es[j])[2] = b[j]
    BY <1>9 DEF Placees
  <1>11. i \in 1..m
    BY <1>5 DEF es
  <1>12. \A j, k \in 1..m : j # k => b[j] <= a[k] \/ b[k] <= a[j]
    <2>1. \A j, k \in 1..m : j # k => \/ SpanDe(x, es[j])[2] <= SpanDe(x, es[k])[1]
                                     \/ SpanDe(x, es[k])[2] <= SpanDe(x, es[j])[1]
      BY <1>3, <1>5, Zenon DEF Disjointes
    <2>. QED
      BY <1>10, <2>1, Zenon
  <1>13. ASSUME NEW p \in a[i]..(b[i] - 1), p \in Range(rendu.texte) PROVE FALSE
    <2>1. a[i] \in 0..n /\ b[i] \in 0..n /\ p \in Nat /\ a[i] < p + 1 /\ p + 1 <= b[i] /\ a[i] # b[i]
      BY <1>10, <1>11
    <2>2. ~(\E k \in F : a[k] < p + 1 /\ p + 1 <= b[k])
      BY <1>5, <1>6, <1>9, <1>13, <2>1, ResteHors
    <2>3. i \notin F
      BY <2>1, <2>2
    <2>4. PICK j \in F : a[i] < b[j] /\ a[j] < b[i]
      BY <1>9, <1>11, <2>1, <2>3 DEF Traitee
    <2>5. j \in 1..m /\ i # j /\ a[j] \in 0..n /\ b[j] \in 0..n
      BY <1>10, <2>3
    <2>6. b[i] <= a[j] \/ b[j] <= a[i]
      BY <1>11, <1>12, <2>5
    <2>. QED
      BY <2>1, <2>4, <2>5, <2>6
  <1>. QED
    BY <1>4, <1>10, <1>11, <1>13 DEF x

\* A blank of the source is in a run that begins at or before it, and that has its place in
\* the text.
LEMMA DebutDuBlanc ==
  ASSUME NEW s \in Seq(Car), NEW pos \in 1..Len(s), s[pos] \in Blancs
  PROVE  \E j \in 1..pos : /\ \A q \in j..pos : s[q] \in Blancs
                           /\ \E p \in 1..Len(TexteDe(s)) : TableDe(s)[p] = j - 1
  <1>. DEFINE T == {j \in 1..pos : \A q \in j..pos : s[q] \in Blancs}
  <1>1. pos \in T /\ T \in SUBSET Nat
    OBVIOUS
  <1>2. PICK j \in T : \A y \in T : j <= y
    <2>. HIDE DEF T
    <2>1. T # {}
      BY <1>1
    <2>. QED
      BY <1>1, <2>1, NatMinimal
  <1>3. j \in 1..Len(s) /\ s[j] \in Blancs
    OBVIOUS
  <1>4. Commence(s, j)
    <2>1. CASE j = 1
      BY <2>1 DEF Commence
    <2>2. CASE j # 1
      <3>1. j - 1 \in 1..pos /\ ~(j <= j - 1)
        BY <2>2
      <3>2. j - 1 \notin T
        BY <1>2, <3>1
      <3>3. PICK q \in (j - 1)..pos : s[q] \notin Blancs
        BY <3>1, <3>2
      <3>4. q = j - 1
        BY <1>2, <3>3
      <3>. QED
        BY <1>3, <3>3, <3>4 DEF Commence, EstBlanc
    <2>. QED
      BY <2>1, <2>2
  <1>5. s[j] # "bom"
    BY <1>3 DEF Blancs
  <1>6. \E p \in 1..Len(TexteDe(s)) : TableDe(s)[p] = j - 1
    BY <1>3, <1>4, <1>5, OffsetAtteint
  <1>. QED
    BY <1>6

\* A source that ends with a blank has a text that does.
LEMMA FinitParUnBlanc ==
  ASSUME NEW u \in Seq(Car), Len(u) >= 1, u[Len(u)] \in Blancs
  PROVE  Len(TexteDe(u)) >= 1 /\ TexteDe(u)[Len(TexteDe(u))] \in Blancs
  <1>. DEFINE n == Len(u)
              t == TexteDe(u)
              m == Len(t)
  <1>1. /\ m \in Nat /\ n \in Nat /\ n \in 1..n
        /\ \A p \in 1..m : TableDe(u)[p] \in 0..(n - 1)
        /\ \A p, q \in 1..(m + 1) : p <= q => TableDe(u)[p] <= TableDe(u)[q]
    BY NormaliserBon
  <1>2. PICK j \in 1..n : /\ \A q \in j..n : u[q] \in Blancs
                          /\ \E p \in 1..m : TableDe(u)[p] = j - 1
    BY <1>1, DebutDuBlanc
  <1>3. PICK p \in 1..m : TableDe(u)[p] = j - 1
    BY <1>2
  <1>4. m \in 1..m /\ p \in 1..(m + 1) /\ m \in 1..(m + 1) /\ p <= m
    BY <1>1
  <1>. HIDE DEF m, n, t
  <1>5. TableDe(u)[m] \in 0..(n - 1) /\ j - 1 <= TableDe(u)[m]
    BY <1>1, <1>3, <1>4
  <1>6. TableDe(u)[m] + 1 \in j..n
    BY <1>1, <1>5
  <1>7. u[TableDe(u)[m] + 1] \in Blancs
    BY <1>2, <1>6
  <1>8. t[m] \in Blancs
    BY <1>4, <1>7, VientDUnePleine DEF t, m
  <1>. QED
    BY <1>4, <1>8 DEF t, m

\* u is what w has after x, up to y; its two ends are those of w.
EstTranche(u, w, x, y) ==
  u \in Seq(Car) /\ Len(u) = y - x /\ \A q \in 1..(y - x) : u[q] = w[x + q]

BoutsEgaux(u, w, x, y) ==
  u \in Seq(Car) /\ Len(u) >= 1 /\ u[1] = w[x + 1] /\ u[Len(u)] = w[y]

LEMMA UneTranche ==
  ASSUME NEW w \in Seq(Car), NEW x \in Nat, NEW y \in Nat, x <= y, y <= Len(w),
         NEW u, u = SubSeq(w, x + 1, y)
  PROVE  EstTranche(u, w, x, y)
  <1>1. /\ SubSeq(w, x + 1, y) \in Seq(Car) /\ Len(SubSeq(w, x + 1, y)) = y - x
        /\ \A q \in 1..((y - (x + 1)) + 1) : SubSeq(w, x + 1, y)[q] = w[(x + 1) + q - 1]
    BY TrancheDe
  <1>2. (y - (x + 1)) + 1 = y - x /\ \A q \in 1..(y - x) : (x + 1) + q - 1 = x + q
    OBVIOUS
  <1>3. \A q \in 1..(y - x) : SubSeq(w, x + 1, y)[q] = w[x + q]
    BY <1>1, <1>2
  <1>. QED
    BY <1>1, <1>3 DEF EstTranche

\* The two ends of a slice.
LEMMA BoutsDeTranche ==
  ASSUME NEW w \in Seq(Car), NEW x \in Nat, NEW y \in Nat, x < y, y <= Len(w),
         NEW u, u = SubSeq(w, x + 1, y)
  PROVE  BoutsEgaux(u, w, x, y)
  <1>1. x <= y /\ y - x >= 1 /\ y - x \in 1..(y - x) /\ 1 \in 1..(y - x) /\ x + (y - x) = y
    OBVIOUS
  <1>2. EstTranche(u, w, x, y)
    BY <1>1, UneTranche
  <1>3. u[1] = w[x + 1] /\ u[y - x] = w[y]
    BY <1>1, <1>2 DEF EstTranche
  <1>. QED
    BY <1>1, <1>2, <1>3 DEF EstTranche, BoutsEgaux

\* What a span of the text that neither begins nor ends with a blank has in the source,
\* when it is what that place normalises to: it neither begins nor ends there with a blank,
\* and there is none between its last character and its end.
LEMMA PlaceSansBlanc ==
  ASSUME NEW s \in Seq(Car), NEW debut \in Nat, NEW fin \in Nat,
         debut < fin, fin <= Len(TexteDe(s)),
         TexteDe(s)[debut + 1] \notin Blancs, TexteDe(s)[fin] \notin Blancs,
         NEW a \in 0..Len(s), NEW b \in 0..Len(s), a < b,
         a = TableDe(s)[debut + 1], b = TableDe(s)[fin + 1],
         TexteDe(SubSeq(s, a + 1, b)) = SubSeq(TexteDe(s), debut + 1, fin)
  PROVE  /\ s[a + 1] \notin Blancs /\ s[b] \notin Blancs
         /\ TableDe(s)[fin] \in 0..(Len(s) - 1)
         /\ \A pos \in (TableDe(s)[fin] + 1)..b : s[pos] \notin Blancs
  <1>. DEFINE t == TexteDe(s)
              T == TableDe(s)
              m == Len(t)
              n == Len(s)
              u == SubSeq(s, a + 1, b)
  <1>1. /\ t \in Seq(Car) /\ m \in Nat /\ n \in Nat
        /\ \A p \in 1..m : T[p] \in 0..(n - 1)
        /\ \A p, q \in 1..(m + 1) : p <= q => T[p] <= T[q]
    <2>1. n \in Nat
      OBVIOUS
    <2>2. /\ t \in Seq(Car) /\ m \in Nat /\ \A p \in 1..m : T[p] \in 0..(n - 1)
          /\ \A p, q \in 1..(m + 1) : p <= q => T[p] <= T[q]
      BY NormaliserBon
    <2>. QED
      BY <2>1, <2>2
  <1>2. /\ debut + 1 \in 1..m /\ fin \in 1..m /\ fin \in 1..(m + 1) /\ fin + 1 \in 1..(m + 1)
    BY <1>1
  <1>3. s[a + 1] \notin Blancs /\ s[T[fin] + 1] \notin Blancs
    BY <1>2, VientDUnePleine
  <1>4. T[fin] \in 0..(n - 1)
    BY <1>1, <1>2
  <1>. DEFINE v == SubSeq(t, debut + 1, fin)
  <1>5. u \in Seq(Car) /\ Len(u) >= 1 /\ u[Len(u)] = s[b]
    <2>1. a \in Nat /\ b \in Nat /\ b <= Len(s) /\ u = SubSeq(s, a + 1, b)
      BY <1>1
    <2>. HIDE DEF u
    <2>2. BoutsEgaux(u, s, a, b)
      BY <2>1, BoutsDeTranche
    <2>. QED
      BY <2>2 DEF BoutsEgaux
  <1>6. v[Len(v)] = t[fin]
    <2>1. fin <= Len(t) /\ t \in Seq(Car) /\ v = SubSeq(t, debut + 1, fin)
      BY <1>1
    <2>. HIDE DEF t, v
    <2>2. BoutsEgaux(v, t, debut, fin)
      BY <2>1, BoutsDeTranche
    <2>. QED
      BY <2>2 DEF BoutsEgaux
  <1>a. TexteDe(u) = v
    OBVIOUS
  <1>b. t[fin] \notin Blancs
    OBVIOUS
  <1>. HIDE DEF u, v, t
  <1>7. s[b] \notin Blancs
    <2>1. SUFFICES ASSUME s[b] \in Blancs PROVE FALSE
      OBVIOUS
    <2>2. u[Len(u)] \in Blancs
      BY <1>5, <2>1
    <2>3. TexteDe(u)[Len(TexteDe(u))] \in Blancs
      BY <1>5, <2>2, FinitParUnBlanc
    <2>. QED
      BY <1>6, <1>a, <1>b, <2>3
  <1>. HIDE DEF T, m, n
  <1>8. ASSUME NEW pos \in (T[fin] + 1)..b PROVE s[pos] \notin Blancs
    <2>1. SUFFICES ASSUME s[pos] \in Blancs PROVE FALSE
      OBVIOUS
    <2>. DEFINE c == T[fin]
    <2>a. c \in Nat /\ n \in Nat /\ b <= n /\ pos \in (c + 1)..b
      BY <1>1, <1>4 DEF n
    <2>. HIDE DEF c
    <2>2. pos \in 1..n
      BY <2>a
    <2>. USE DEF c
    <2>3. PICK j \in 1..pos : /\ \A q \in j..pos : s[q] \in Blancs
                              /\ \E p \in 1..m : T[p] = j - 1
      BY <2>1, <2>2, DebutDuBlanc DEF n, m, T, t
    <2>4. PICK p \in 1..m : T[p] = j - 1
      BY <2>3
    <2>5. T[fin] + 1 < j
      <3>1. T[fin] + 1 <= pos /\ T[fin] \in Int
        BY <1>4
      <3>. QED
        BY <1>3, <2>3, <3>1
    <2>6. p \in 1..(m + 1) /\ p \in Nat
      BY <1>1
    <2>7. ~(p <= fin)
      <3>1. p <= fin => T[p] <= T[fin]
        BY <1>1, <1>2, <2>6
      <3>. QED
        BY <1>4, <2>4, <2>5, <3>1
    <2>8. fin + 1 <= p
      BY <2>6, <2>7
    <2>9. T[fin + 1] <= T[p]
      BY <1>1, <1>2, <2>6, <2>8
    <2>10. T[fin + 1] = b
      BY DEF T
    <2>. QED
      BY <2>4, <2>9, <2>10
  <1>. QED
    BY <1>3, <1>4, <1>7, <1>8 DEF T, n

\* A value that neither begins nor ends with a blank is looked for as it is.
LEMMA DepouilleEntiere ==
  ASSUME NEW v \in Seq(Car), Len(v) >= 1, v[1] \notin Blancs, v[Len(v)] \notin Blancs
  PROVE  Depouille(v) = v
  <1>. DEFINE pleins == {i \in DOMAIN v : v[i] \notin Blancs}
              n == Len(v)
              a == CHOOSE i \in pleins : \A j \in pleins : i <= j
              b == CHOOSE i \in pleins : \A j \in pleins : i >= j
  <1>1. n \in Nat /\ DOMAIN v = 1..n /\ 1 \in pleins /\ n \in pleins
    OBVIOUS
  <1>2. \A i \in pleins : 1 <= i /\ i <= n /\ i \in Nat
    BY <1>1
  <1>3. pleins # {}
    BY <1>1
  <1>4. Depouille(v) = SubSeq(v, a, b)
    BY <1>3 DEF Depouille
  <1>. HIDE DEF pleins
  <1>5. a = 1
    <2>1. a \in pleins /\ \A j \in pleins : a <= j
      <3>1. 1 \in pleins /\ \A j \in pleins : 1 <= j
        BY <1>1, <1>2
      <3>. QED
        BY <3>1
    <2>. HIDE DEF a
    <2>. QED
      BY <1>1, <1>2, <2>1
  <1>6. b = n
    <2>1. b \in pleins /\ \A j \in pleins : b >= j
      <3>1. n \in pleins /\ \A j \in pleins : n >= j
        BY <1>1, <1>2
      <3>. QED
        BY <3>1
    <2>. HIDE DEF b, n
    <2>. QED
      BY <1>1, <1>2, <2>1
  <1>. HIDE DEF a, b
  <1>7. SubSeq(v, 1, n) = v
    BY DEF n
  <1>. QED
    BY <1>4, <1>5, <1>6, <1>7

\* A value found in what is not a scan has no blank at its ends: it is looked for as it is.
LEMMA ValeurEntiere ==
  ASSUME NEW x, ResultatBon(x), x.methode # "ocr", NEW e, Detectee(x, e)
  PROVE  Depouille(e.valeur) = e.valeur /\ e.valeur \in Seq(Car) /\ Len(e.valeur) >= 1
  <1>. DEFINE t == TexteDe(x.brut)
              v == e.valeur
              debut == e.debut
              fin == e.fin
  <1>1. /\ x.brut \in Seq(Car) /\ x.texte.texte = t
        /\ debut \in Nat /\ fin \in Nat /\ debut < fin /\ fin <= Len(t)
    BY PlaceDe
  <1>2. t[debut + 1] \notin Blancs /\ t[fin] \notin Blancs
    <2>1. {debut + 1, fin} \subseteq {p \in (debut + 1)..fin : t[p] \notin Blancs}
      BY <1>1 DEF Detectee, Trouvable
    <2>. QED
      BY <2>1
  <1>3. v = SubSeq(t, debut + 1, fin)
    BY <1>1 DEF Detectee, Tranche
  <1>4. t \in Seq(Car)
    BY <1>1, NormaliserBon
  <1>5. v \in Seq(Car)
    BY QuelqueChose
  <1>. HIDE DEF t, debut, fin, v
  <1>6. BoutsEgaux(v, t, debut, fin)
    BY <1>1, <1>3, <1>4, BoutsDeTranche
  <1>7. Len(v) >= 1 /\ v[1] \notin Blancs /\ v[Len(v)] \notin Blancs
    BY <1>2, <1>6 DEF BoutsEgaux
  <1>8. Depouille(v) = v
    BY <1>5, <1>7, DepouilleEntiere
  <1>. QED
    BY <1>5, <1>7, <1>8 DEF v

\* Each page but the last one is followed by two blanks.
LEMMA PageSeparee ==
  ASSUME NEW pages \in Seq(Seq(Car))
  PROVE  LET P == AvecSeparateurs(pages)
         IN /\ P \in Seq(Seq(Car)) /\ Len(P) = Len(pages) /\ Len(pages) \in Nat
            /\ DOMAIN P = 1..Len(pages) /\ DOMAIN pages = 1..Len(pages)
            /\ \A k \in 1..Len(pages) :
                 /\ Len(pages[k]) \in Nat /\ pages[k] \in Seq(Car)
                 /\ DOMAIN pages[k] = 1..Len(pages[k])
                 /\ \A r \in 1..Len(pages[k]) : P[k][r] = pages[k][r]
                 /\ k = Len(pages) => Len(P[k]) = Len(pages[k])
                 /\ k < Len(pages) => /\ Len(P[k]) = Len(pages[k]) + 2
                                      /\ P[k][Len(pages[k]) + 1] \in Blancs
                                      /\ P[k][Len(pages[k]) + 2] \in Blancs
  <1>. DEFINE P == AvecSeparateurs(pages)
              n == Len(pages)
  <1>1. /\ n \in Nat /\ DOMAIN pages = 1..n
        /\ \A k \in 1..n : /\ pages[k] \in Seq(Car) /\ Len(pages[k]) \in Nat
                           /\ DOMAIN pages[k] = 1..Len(pages[k])
    BY SuitesDeSuites
  <1>2. Separateur \in Seq(Car) /\ Len(Separateur) = 2
        /\ Separateur[1] \in Blancs /\ Separateur[2] \in Blancs
    <2>1. Len(<<"lf", "lf">>) = 2 /\ <<"lf", "lf">>[1] = "lf" /\ <<"lf", "lf">>[2] = "lf"
      OBVIOUS
    <2>. QED
      BY <2>1, SeparateurTypee DEF Separateur, Blancs
  <1>3. P = [k \in 1..n |-> IF k < n THEN pages[k] \o Separateur ELSE pages[k]]
    BY <1>1 DEF AvecSeparateurs
  <1>. HIDE DEF P, n
  <1>4. ASSUME NEW k \in 1..n
        PROVE  /\ P[k] \in Seq(Car)
               /\ \A r \in 1..Len(pages[k]) : P[k][r] = pages[k][r]
               /\ k = n => Len(P[k]) = Len(pages[k])
               /\ k < n => /\ Len(P[k]) = Len(pages[k]) + 2
                           /\ P[k][Len(pages[k]) + 1] \in Blancs
                           /\ P[k][Len(pages[k]) + 2] \in Blancs
    <2>. DEFINE u == pages[k]
                c == Len(u)
    <2>1. u \in Seq(Car) /\ c \in Nat
      BY <1>1
    <2>2. CASE k < n
      <3>1. P[k] = u \o Separateur
        BY <1>3, <2>2
      <3>. HIDE DEF u
      <3>. DEFINE v == Separateur
      <3>a. u \in Seq(Car) /\ v \in Seq(Car)
        BY <1>2, <2>1
      <3>. HIDE DEF v
      <3>b. /\ u \o v \in Seq(Car) /\ Len(u \o v) = Len(u) + Len(v)
            /\ \A p \in 1..Len(u) : (u \o v)[p] = u[p]
            /\ \A p \in 1..Len(v) : (u \o v)[Len(u) + p] = v[p]
        BY <3>a, MisALaSuite
      <3>2. /\ u \o Separateur \in Seq(Car) /\ Len(u \o Separateur) = c + Len(Separateur)
            /\ \A p \in 1..c : (u \o Separateur)[p] = u[p]
            /\ \A p \in 1..Len(Separateur) : (u \o Separateur)[c + p] = Separateur[p]
        BY <3>b DEF v
      <3>. HIDE DEF c
      <3>3. /\ P[k] \in Seq(Car) /\ Len(P[k]) = c + 2 /\ \A p \in 1..c : P[k][p] = u[p]
            /\ P[k][c + 1] \in Blancs /\ P[k][c + 2] \in Blancs
        <4>1. 1 \in 1..Len(Separateur) /\ 2 \in 1..Len(Separateur)
          BY <1>2
        <4>. QED
          BY <1>2, <3>1, <3>2, <4>1
      <3>4. ~(k = n)
        BY <1>1, <2>2
      <3>. QED
        BY <2>1, <3>3, <3>4 DEF u, c
    <2>3. CASE ~(k < n)
      <3>1. P[k] = u
        BY <1>3, <2>3
      <3>. QED
        BY <2>1, <2>3, <3>1
    <2>. QED
      BY <2>2, <2>3
  <1>5. P \in Seq(Seq(Car)) /\ Len(P) = n /\ DOMAIN P = 1..n
    <2>1. P = [k \in 1..n |-> P[k]]
      BY <1>3
    <2>2. \A k \in 1..n : P[k] \in Seq(Car)
      BY <1>4
    <2>. QED
      BY <1>1, <2>1, <2>2, FaitUneSuite
  <1>. QED
    BY <1>1, <1>4, <1>5 DEF P, n

\* The characters of page k in the source; a place that ends in no blank, and begins there,
\* does not reach what separates the page from the next.
PlacesDesPages(pages, s, L) ==
  /\ pages \in Seq(Seq(Car)) /\ s \in Seq(Car)
  /\ s = FlattenSeq(AvecSeparateurs(pages)) /\ Cumul(L, AvecSeparateurs(pages))

CommenceDans(s, L, k, c, b) ==
  /\ b \in 0..Len(s) /\ c \in Nat /\ c < L[k] /\ s[b] \notin Blancs
  /\ \A pos \in (c + 1)..b : s[pos] \notin Blancs

FinitDans(pages, s, L, k, b) ==
  /\ L[k - 1] \in Nat
  /\ \A r \in 1..Len(pages[k]) : s[L[k - 1] + r] = pages[k][r]
  /\ b <= L[k - 1] + Len(pages[k])

LEMMA BoutDePage ==
  ASSUME NEW pages, NEW s, NEW L, PlacesDesPages(pages, s, L), NEW k \in 1..Len(pages),
         NEW c, NEW b, CommenceDans(s, L, k, c, b)
  PROVE  FinitDans(pages, s, L, k, b)
  <1>. DEFINE P == AvecSeparateurs(pages)
              n == Len(pages)
              l == Len(pages[k])
              o == L[k - 1]
  <1>0. /\ pages \in Seq(Seq(Car)) /\ b \in 0..Len(s) /\ Len(s) \in Nat /\ c \in Nat /\ c < L[k]
        /\ s[b] \notin Blancs /\ \A pos \in (c + 1)..b : s[pos] \notin Blancs
    BY DEF PlacesDesPages, CommenceDans
  <1>1. /\ P \in Seq(Seq(Car)) /\ Len(P) = n /\ n \in Nat /\ l \in Nat
        /\ \A r \in 1..l : P[k][r] = pages[k][r]
        /\ k = n => Len(P[k]) = l
        /\ k < n => Len(P[k]) = l + 2 /\ P[k][l + 1] \in Blancs /\ P[k][l + 2] \in Blancs
    BY <1>0, PageSeparee
  <1>2. /\ Cumul(L, P) /\ s = FlattenSeq(P) /\ k \in 1..n
    BY DEF PlacesDesPages
  <1>. HIDE DEF P, n, l
  <1>3. /\ Len(s) = L[n]
        /\ \A j \in 1..n : \A r \in 1..Len(P[j]) : s[L[j - 1] + r] = P[j][r]
    <2>1. EnPlace(Car, FlattenSeq(P), P, L, Len(P))
      BY <1>1, <1>2, BoutABout
    <2>. QED
      BY <1>1, <1>2, <2>1 DEF EnPlace
  <1>4. o \in Nat /\ L[k] = o + Len(P[k])
    <2>1. k - 1 \in 0..n
      BY <1>1, <1>2
    <2>. QED
      BY <1>1, <1>2, <2>1 DEF Cumul
  <1>. HIDE DEF o
  <1>5. \A r \in 1..Len(P[k]) : s[o + r] = P[k][r]
    BY <1>2, <1>3 DEF o
  <1>6. l <= Len(P[k]) /\ Len(P[k]) \in Nat
    BY <1>1, <1>2
  <1>7. \A r \in 1..l : s[o + r] = pages[k][r]
    <2>1. \A r \in 1..l : r \in 1..Len(P[k])
      BY <1>1, <1>6
    <2>. QED
      BY <1>1, <1>5, <2>1
  <1>8. b <= o + l
    <2>1. SUFFICES ASSUME ~(b <= o + l) PROVE FALSE
      OBVIOUS
    <2>2. CASE k = n
      <3>1. Len(s) = o + l
        BY <1>1, <1>3, <1>4, <2>2
      <3>. QED
        BY <1>0, <1>1, <1>4, <2>1, <3>1
    <2>3. CASE k # n
      <3>1. k < n
        BY <1>1, <1>2, <2>3
      <3>2. /\ Len(P[k]) = l + 2 /\ L[k] = o + (l + 2)
            /\ l + 1 \in 1..Len(P[k]) /\ l + 2 \in 1..Len(P[k])
        <4>1. Len(P[k]) = l + 2
          BY <1>1, <3>1
        <4>2. l + 1 \in 1..(l + 2) /\ l + 2 \in 1..(l + 2)
          BY <1>1
        <4>. QED
          BY <1>4, <4>1, <4>2
      <3>3. s[o + (l + 1)] \in Blancs /\ s[o + (l + 2)] \in Blancs
        BY <1>1, <1>5, <3>1, <3>2
      <3>4. b # o + (l + 1) /\ b # o + (l + 2)
        BY <1>0, <3>3
      <3>5. o + (l + 2) \in (c + 1)..b
        BY <1>0, <1>1, <1>4, <2>1, <3>2, <3>4
      <3>. QED
        BY <1>0, <3>3, <3>5
    <2>. QED
      BY <2>2, <2>3
  <1>. QED
    BY <1>4, <1>7, <1>8 DEF FinitDans, o, l

\* The place of an entity in its page is one search_for finds.
LEMMA PlaceCherchee ==
  ASSUME NEW s \in Seq(Car), NEW u \in Seq(Car), NEW o \in Nat,
         \A r \in 1..Len(u) : s[o + r] = u[r],
         NEW a \in Nat, NEW b \in Nat, o <= a, a < b, b <= o + Len(u), b <= Len(s),
         s[a + 1] \notin Blancs, s[b] \notin Blancs,
         NEW v, Replier(SubSeq(s, a + 1, b)) = Replier(v),
         NEW p \in (a + 1)..b
  PROVE  p - o \in Occurrences(v, u)
  <1>. DEFINE i == (a - o) + 1
              j == b - o
              l == Len(u)
  <1>1. l \in Nat /\ DOMAIN u = 1..l
    OBVIOUS
  <1>. HIDE DEF l
  <1>2. /\ p - o \in 1..l /\ i \in 1..(p - o) /\ j \in (p - o)..l
        /\ i \in 1..l /\ j \in 1..l /\ o + i = a + 1 /\ o + j = b /\ a - o \in Nat /\ j \in Nat
        /\ a - o < j /\ j <= l /\ j - (a - o) = b - a
    BY <1>1 DEF l
  <1>3. u[i] \notin Blancs /\ u[j] \notin Blancs
    BY <1>2 DEF l
  <1>4. SubSeq(u, i, j) = SubSeq(s, a + 1, b)
    <2>. DEFINE y == SubSeq(u, i, j)
                z == SubSeq(s, a + 1, b)
                w == a - o
    <2>1. a <= b /\ z = SubSeq(s, a + 1, b)
      OBVIOUS
    <2>2. w \in Nat /\ j \in Nat /\ w <= j /\ j <= Len(u) /\ y = SubSeq(u, w + 1, j)
      BY <1>2 DEF l
    <2>. HIDE DEF w, j, z, y, i
    <2>3. EstTranche(z, s, a, b)
      BY <2>1, UneTranche
    <2>4. EstTranche(y, u, w, j)
      BY <2>2, UneTranche
    <2>5. Len(y) = Len(z) /\ Len(y) = b - a
      BY <1>2, <2>3, <2>4 DEF w, EstTranche
    <2>6. ASSUME NEW q \in 1..Len(y) PROVE y[q] = z[q]
      <3>1. q \in 1..(j - w) /\ q \in 1..(b - a) /\ w + q \in 1..Len(u) /\ o + (w + q) = a + q
        BY <1>2, <2>2, <2>5 DEF w
      <3>2. y[q] = u[w + q] /\ z[q] = s[a + q]
        BY <2>3, <2>4, <3>1 DEF EstTranche
      <3>. QED
        BY <3>1, <3>2
    <2>7. y = z
      BY <2>3, <2>4, <2>5, <2>6, MemesCaracteres DEF EstTranche
    <2>. QED
      BY <2>7 DEF y, z
  <1>. HIDE DEF i, j
  <1>. QED
    BY <1>1, <1>2, <1>3, <1>4 DEF Occurrences, l

\* The characters of a page of the text layer that the passages found remove, and those
\* that stay.
RetiresDe(d, x, es, k) == UNION {CouvertPar(d, x, es, i, k) : i \in Trouvees(d, x, es)}

LEMMA PageAppliquee ==
  ASSUME NEW d, NEW x, NEW es, NEW k \in DOMAIN d.couches
  PROVE  AppliquerPdf(d, x, es).pages[k] = DOMAIN d.couches[k] \ RetiresDe(d, x, es, k)
  <1>1. AppliquerPdf(d, x, es).pages =
          [m \in DOMAIN d.couches |-> DOMAIN d.couches[m] \ RetiresDe(d, x, es, m)]
    BY DEF AppliquerPdf, Rendu, Utiles, Trouvees, CouvertPar, RetiresDe
  <1>. QED
    BY <1>1

\* An entity on one page of the text layer of a PDF is found there, and removed.
LEMMA PdfIllisible ==
  ASSUME NEW q, Protege(q), deviner_type(q.document) = "pdf", q.extrait.methode = "pdf",
         Protegeable(q.document, q.extrait, q.entites), NEW i \in DOMAIN q.entites
  PROVE  ~Lisible(q, q.extrait, i)
  <1>. DEFINE d == q.document
              x == q.extrait
              es == q.entites
              rendu == q.rendu
              e == es[i]
              s == x.brut
              t == TexteDe(s)
              T == TableDe(s)
              a == T[e.debut + 1]
              b == T[e.fin + 1]
              c == T[e.fin]
              v == e.valeur
              pages == d.couches
              separees == AvecSeparateurs(pages)
              k == page_de(x.pages, e.debut)
              o == BornesSource(x.pagesBrutes)[k].debut
  <1>1. /\ DocumentPossible(d) /\ x = extraire(d) /\ Detectees(x, es)
        /\ rendu = appliquer(d, x, es, RemplacementDe(q.action, es))
        /\ deviner_type(d) = "pdf" /\ x.methode = "pdf" /\ Protegeable(d, x, es)
        /\ d = q.document /\ x = q.extrait /\ es = q.entites /\ rendu = q.rendu
        /\ i \in DOMAIN es
    BY DEF Protege
  <1>. HIDE DEF d, x, es, rendu
  <1>2. ResultatBon(x) /\ Detectee(x, e)
    BY <1>1, ExtraireBon DEF Detectees
  <1>3. /\ Alignee(x, e) /\ page_de(x.pages, e.debut) = page_de(x.pages, e.fin - 1)
        /\ Replier(SourceDe(x, e)) = Replier(v)
    BY <1>1 DEF Protegeable, Alignee
  <1>4. /\ s = FlattenSeq(separees) /\ x.pagesBrutes = separees
    BY <1>1, MethodeDe
  <1>5. /\ s \in Seq(Car) /\ x.texte = normaliser(s) /\ x.texte.texte = t
        /\ e.debut \in Nat /\ e.fin \in Nat /\ e.debut < e.fin /\ e.fin <= Len(t)
        /\ a \in 0..Len(s) /\ b \in 0..Len(s) /\ SpanDe(x, e) = <<a, b>>
    BY <1>2, PlaceDe
  <1>6. t[e.debut + 1] \notin Blancs /\ t[e.fin] \notin Blancs
    <2>1. {e.debut + 1, e.fin} \subseteq {p \in (e.debut + 1)..e.fin : t[p] \notin Blancs}
      BY <1>1, <1>2, <1>5 DEF Detectee, Trouvable
    <2>. QED
      BY <2>1
  <1>7. v = SubSeq(t, e.debut + 1, e.fin)
    BY <1>2, <1>5 DEF Detectee, Tranche
  <1>8. /\ a < b /\ normaliser(SubSeq(s, a + 1, b)).texte = v
        /\ Replier(SubSeq(s, a + 1, b)) = Replier(v)
    BY <1>3, <1>5 DEF Alignee, SourceDe
  <1>9. TexteDe(SubSeq(s, a + 1, b)) = SubSeq(t, e.debut + 1, e.fin)
    BY <1>7, <1>8 DEF TexteDe
  <1>10. /\ s[a + 1] \notin Blancs /\ s[b] \notin Blancs /\ c \in 0..(Len(s) - 1)
         /\ \A pos \in (c + 1)..b : s[pos] \notin Blancs
    BY <1>5, <1>6, <1>8, <1>9, PlaceSansBlanc
  <1>11. s # <<>> /\ Depouille(v) # <<>> /\ v \in Seq(Car)
    BY <1>2, QuelqueChose
  <1>12. Depouille(v) = v
    BY <1>1, <1>2, ValeurEntiere
  <1>. HIDE DEF v
  <1>13. pages \in Seq(Seq(Car)) /\ separees \in Seq(Seq(Car)) /\ Len(separees) = Len(pages)
         /\ Len(pages) \in Nat /\ DOMAIN pages = 1..Len(pages)
         /\ DOMAIN separees = 1..Len(pages)
         /\ \A j \in 1..Len(pages) : DOMAIN pages[j] = 1..Len(pages[j])
    <2>1. pages \in Seq(Seq(Car))
      BY <1>1, DeCaracteres
    <2>. HIDE DEF pages
    <2>. QED
      BY <2>1, PageSeparee
  <1>14. separees # <<>>
    <2>1. FlattenSeq(<<>>) = <<>>
      BY DEF FlattenSeq
    <2>. HIDE DEF separees
    <2>. QED
      BY <1>4, <1>11, <2>1
  <1>15. PICK L : Cumul(L, separees)
    BY <1>13, CumulExiste
  <1>16. x.pages = BornesPages(normaliser(s), separees)
    BY <1>2, <1>4, <1>5 DEF ResultatBon
  <1>17. k \in 1..Len(pages)
    <2>. HIDE DEF separees, pages, s
    <2>. QED
      BY <1>13, <1>14, <1>16, PageExiste
  <1>18. /\ BornesSource(separees)[k].debut = L[k - 1] /\ BornesSource(separees)[k].fin = L[k]
    <2>. HIDE DEF separees, pages, s, k
    <2>1. BornesSource(separees)[k] = [debut |-> LongueurDe(SubSeq(separees, 1, k - 1)),
                                       fin |-> LongueurDe(SubSeq(separees, 1, k))]
      BY <1>13, <1>17 DEF BornesSource
    <2>2. k - 1 \in 0..Len(separees) /\ k \in 0..Len(separees)
      BY <1>13, <1>17
    <2>3. LongueurDe(SubSeq(separees, 1, k - 1)) = L[k - 1] /\ LongueurDe(SubSeq(separees, 1, k)) = L[k]
      BY <1>13, <1>15, <2>2, LongueurPrefixe
    <2>. QED
      BY <2>1, <2>3
  <1>19. o = L[k - 1]
    BY <1>4, <1>18
  <1>20. L[k - 1] <= a /\ c < L[k]
    <2>. DEFINE debut == e.debut
                fin == e.fin
    <2>1. /\ debut \in 0..(Len(t) - 1) /\ fin - 1 \in 0..(Len(t) - 1) /\ Len(t) \in Nat
          /\ (fin - 1) + 1 = fin
      <3>1. Len(t) \in Nat
        BY <1>5, NormaliserBon
      <3>2. debut \in Nat /\ fin \in Nat /\ debut < fin /\ fin <= Len(t)
        BY <1>5
      <3>. HIDE DEF t, debut, fin
      <3>. QED
        BY <3>1, <3>2
    <2>2. ASSUME NEW p \in 0..(Len(t) - 1) PROVE vers_source(normaliser(s), p) = T[p + 1]
      <3>1. Len(T) = Len(t) + 1 /\ Len(t) \in Nat
        BY <1>5, NormaliserBon
      <3>2. ~(p < 0) /\ ~(p >= Len(T))
        BY <3>1
      <3>3. normaliser(s).table = T
        BY DEF TableDe
      <3>. HIDE DEF T, t
      <3>. QED
        BY <3>2, <3>3 DEF vers_source
    <2>3. ASSUME NEW p \in 0..(Len(t) - 1)
          PROVE  LET bo == BornesSource(separees)[page_de(BornesPages(normaliser(s), separees), p)]
                     offset == vers_source(normaliser(s), p)
                 IN bo.debut <= offset /\ offset < bo.fin
      <3>. HIDE DEF separees
      <3>. QED
        BY <1>4, <1>5, <1>13, <1>14, PageDeLaSource
    <2>. DEFINE page(p) == page_de(BornesPages(normaliser(s), separees), p)
    <2>4. k = page(debut) /\ k = page(fin - 1)
      BY <1>3, <1>16
    <2>5. /\ BornesSource(separees)[page(debut)].debut <= T[debut + 1]
          /\ T[(fin - 1) + 1] < BornesSource(separees)[page(fin - 1)].fin
      BY <2>1, <2>2, <2>3
    <2>. HIDE DEF page, separees, T, k
    <2>6. BornesSource(separees)[k].debut <= T[debut + 1] /\ T[fin] < BornesSource(separees)[k].fin
      BY <2>1, <2>4, <2>5
    <2>. QED
      BY <1>18, <2>6
  <1>21. /\ \A r \in 1..Len(pages[k]) : s[L[k - 1] + r] = pages[k][r]
         /\ L[k - 1] \in Nat /\ b <= L[k - 1] + Len(pages[k])
    <2>1. c \in Nat /\ c < L[k] /\ b \in 0..Len(s)
      <3>. HIDE DEF s, b, c, k
      <3>. QED
        BY <1>5, <1>10, <1>20
    <2>2. s = FlattenSeq(AvecSeparateurs(pages)) /\ Cumul(L, AvecSeparateurs(pages))
      BY <1>4, <1>15
    <2>. HIDE DEF s, b, c, k, pages, separees
    <2>3. k \in 1..Len(pages)
      BY <1>17
    <2>4. PlacesDesPages(pages, s, L)
      BY <1>5, <1>13, <2>2 DEF PlacesDesPages
    <2>5. CommenceDans(s, L, k, c, b)
      BY <1>10, <2>1 DEF CommenceDans
    <2>6. FinitDans(pages, s, L, k, b)
      BY <2>3, <2>4, <2>5, BoutDePage
    <2>. QED
      BY <2>6 DEF FinitDans
  <1>22. ASSUME NEW p \in (a + 1)..b
         PROVE  p - o \in Occurrences(v, pages[k])
    <2>. DEFINE u == pages[k]
                w == L[k - 1]
    <2>1. u \in Seq(Car)
      <3>. HIDE DEF pages, k
      <3>. QED
        BY <1>13, <1>17, ElementsDe
    <2>2. /\ w \in Nat /\ (\A r \in 1..Len(u) : s[w + r] = u[r])
          /\ a \in Nat /\ b \in Nat /\ w <= a /\ a < b /\ b <= w + Len(u) /\ b <= Len(s)
          /\ s \in Seq(Car) /\ s[a + 1] \notin Blancs /\ s[b] \notin Blancs
          /\ Replier(SubSeq(s, a + 1, b)) = Replier(v)
      <3>. HIDE DEF pages, k, s, a, b
      <3>1. Len(s) \in Nat
        BY <1>5
      <3>. QED
        BY <1>5, <1>8, <1>10, <1>20, <1>21, <3>1
    <2>. HIDE DEF u, w, a, b, s
    <2>3. p - w \in Occurrences(v, u)
      BY <2>1, <2>2, PlaceCherchee
    <2>. QED
      BY <1>19, <2>3 DEF u, w
  <1>23. rendu.pages[k] = DOMAIN pages[k] \ RetiresDe(d, x, es, k)
    <2>1. es # <<>>
      BY <1>1
    <2>2. rendu = AppliquerPdf(d, x, es)
      BY <1>1, <2>1 DEF appliquer
    <2>3. k \in DOMAIN d.couches
      BY <1>13, <1>17
    <2>. HIDE DEF k
    <2>4. AppliquerPdf(d, x, es).pages[k] = DOMAIN d.couches[k] \ RetiresDe(d, x, es, k)
      BY <2>3, PageAppliquee
    <2>. QED
      BY <2>2, <2>4
  <1>24. ASSUME NEW p \in (a + 1)..b PROVE p - o \notin rendu.pages[k]
    <2>1. k \in DOMAIN pages
      BY <1>13, <1>17
    <2>2. i \in Utiles(es)
      BY <1>1, <1>11 DEF Utiles, v
    <2>3. CouvertPar(d, x, es, i, k) = Occurrences(v, pages[k])
      <3>1. k \in PagesCandidates(d, x, e)
        BY <2>1 DEF PagesCandidates
      <3>. QED
        BY <1>12, <3>1, Zenon DEF CouvertPar, v
    <2>. HIDE DEF k, v, o
    <2>4. p - o \in CouvertPar(d, x, es, i, k)
      BY <1>22, <2>3
    <2>5. i \in Trouvees(d, x, es)
      BY <2>1, <2>2, <2>4 DEF Trouvees
    <2>. QED
      BY <1>23, <2>4, <2>5 DEF RetiresDe
  <1>25. Lisible(q, x, i) => \E p \in (a + 1)..b : p - o \in rendu.pages[k]
    <2>1. q.document = d /\ q.entites = es /\ q.rendu = rendu
      BY <1>1
    <2>2. SpanDe(x, e)[1] = a /\ SpanDe(x, e)[2] = b
      BY <1>5
    <2>3. Lisible(q, x, i) =>
            \E p \in (SpanDe(x, e)[1] + 1)..SpanDe(x, e)[2] :
              p - BornesSource(x.pagesBrutes)[page_de(x.pages, e.debut)].debut
                \in rendu.pages[page_de(x.pages, e.debut)]
      BY <1>1, <2>1 DEF Lisible
    <2>. QED
      BY <2>2, <2>3
  <1>26. x = q.extrait
    BY <1>1
  <1>. QED
    BY <1>24, <1>25, <1>26

-------------------------------------------------------------------------------
(* A value replaced in a paragraph *)

\* v is at place i of s.
Est(s, v, i) ==
  /\ i \in Nat /\ 1 <= i /\ i + Len(v) - 1 <= Len(s)
  /\ \A k \in 1..Len(v) : s[i + k - 1] = v[k]

\* Nothing of u is a sign of O.
Sans(u, O) == \A k \in 1..Len(u) : u[k] \notin O

\* As long as t has no sign of O, it is what s has from place i on.
Prolonge(t, s, i, O) ==
  \A b \in 1..Len(t) : (\A k \in 1..b : t[k] \notin O) =>
    i + b - 1 <= Len(s) /\ \A k \in 1..b : t[k] = s[i + k - 1]

\* Where t has v, v comes from a place of s where w is not.
VientDe(t, v, s, w) ==
  \A p \in Nat : Est(t, v, p) => \E j \in Nat : Est(s, v, j) /\ ~Est(s, w, j)

\* A slice is v when v is there.
LEMMA EstTrouve ==
  ASSUME NEW S, NEW s \in Seq(S), NEW v \in Seq(S), NEW i \in Nat,
         1 <= i, i + Len(v) - 1 <= Len(s)
  PROVE  SubSeq(s, i, i + Len(v) - 1) = v <=> Est(s, v, i)
  <1>. DEFINE n == Len(v)
              t == SubSeq(s, i, i + n - 1)
  <1>1. n \in Nat /\ DOMAIN v = 1..n /\ i - 1 \in Nat /\ (i - 1) + 1 = i /\ Len(s) \in Nat
    OBVIOUS
  <1>2. i - 1 <= i + n - 1 /\ i + n - 1 \in Nat /\ i + n - 1 <= Len(s)
        /\ (i + n - 1) - (i - 1) = n /\ ((i + n - 1) - i) + 1 = n
    BY <1>1
  <1>3. t \in Seq(S) /\ Len(t) = n /\ \A q \in 1..n : t[q] = s[i + q - 1]
    <2>1. /\ SubSeq(s, (i - 1) + 1, i + n - 1) \in Seq(S)
          /\ Len(SubSeq(s, (i - 1) + 1, i + n - 1)) = (i + n - 1) - (i - 1)
          /\ \A q \in 1..(((i + n - 1) - ((i - 1) + 1)) + 1) :
               SubSeq(s, (i - 1) + 1, i + n - 1)[q] = s[((i - 1) + 1) + q - 1]
      <3>. HIDE DEF n
      <3>. QED
        BY <1>1, <1>2, TrancheDe
    <2>. QED
      BY <1>1, <1>2, <2>1
  <1>. HIDE DEF t
  <1>4. t = v <=> \A q \in 1..n : s[i + q - 1] = v[q]
    <2>1. v \in Seq(S) /\ Len(v) = n
      OBVIOUS
    <2>. HIDE DEF n
    <2>2. ASSUME \A q \in 1..n : s[i + q - 1] = v[q] PROVE t = v
      <3>1. DOMAIN t = 1..n /\ DOMAIN v = 1..n /\ \A q \in 1..n : t[q] = v[q]
        BY <1>3, <2>1, <2>2
      <3>. QED
        BY <1>3, <2>1, <3>1
    <2>. QED
      BY <1>3, <2>2
  <1>. QED
    BY <1>4 DEF t, Est

\* Contient, place by place.
LEMMA ContientEst ==
  ASSUME NEW S, NEW s \in Seq(S), NEW v \in Seq(S)
  PROVE  Contient(s, v) <=> \E i \in Nat : Est(s, v, i)
  <1>1. Len(s) \in Nat /\ Len(v) \in Nat
    OBVIOUS
  <1>2. ASSUME NEW i \in 1..(Len(s) - Len(v) + 1)
        PROVE  SubSeq(s, i, i + Len(v) - 1) = v <=> Est(s, v, i)
    <2>1. i \in Nat /\ 1 <= i /\ i + Len(v) - 1 <= Len(s)
      BY <1>1
    <2>. QED
      BY <2>1, EstTrouve
  <1>3. ASSUME NEW i \in Nat, Est(s, v, i) PROVE i \in 1..(Len(s) - Len(v) + 1)
    BY <1>1, <1>3 DEF Est
  <1>4. \A i \in 1..(Len(s) - Len(v) + 1) : i \in Nat
    BY <1>1
  <1>. QED
    BY <1>2, <1>3, <1>4 DEF Contient

\* A character that is kept: what comes after it is still what s has there.
LEMMA UneCopie ==
  ASSUME NEW S, NEW s \in Seq(S), NEW i \in 1..Len(s), NEW t \in Seq(S),
         NEW v \in Seq(S), Len(v) >= 1, NEW w \in Seq(S), NEW O, Sans(v, O),
         ~Est(s, w, i), Prolonge(t, s, i + 1, O), VientDe(t, v, s, w)
  PROVE  Prolonge(<<s[i]>> \o t, s, i, O) /\ VientDe(<<s[i]>> \o t, v, s, w)
  <1>. DEFINE u == <<s[i]>> \o t
  <1>1. /\ u \in Seq(S) /\ Len(u) = 1 + Len(t) /\ Len(t) \in Nat /\ u[1] = s[i]
        /\ \A p \in 1..Len(t) : u[1 + p] = t[p]
    <2>1. <<s[i]>> \in Seq(S) /\ Len(<<s[i]>>) = 1 /\ <<s[i]>>[1] = s[i]
      OBVIOUS
    <2>. QED
      BY <2>1, MisALaSuite
  <1>. HIDE DEF u
  <1>2. Len(s) \in Nat /\ i \in Nat /\ Len(v) \in Nat
    OBVIOUS
  <1>3. ASSUME NEW b \in 1..Len(u), \A k \in 1..b : u[k] \notin O
        PROVE  i + b - 1 <= Len(s) /\ \A k \in 1..b : u[k] = s[i + k - 1]
    <2>1. CASE b = 1
      BY <1>1, <1>2, <2>1
    <2>2. CASE b # 1
      <3>1. b - 1 \in 1..Len(t)
        BY <1>1, <2>2
      <3>2. \A k \in 1..(b - 1) : t[k] \notin O
        <4>1. ASSUME NEW k \in 1..(b - 1) PROVE t[k] \notin O
          <5>1. k \in 1..Len(t) /\ 1 + k \in 1..b
            BY <1>1, <3>1
          <5>. QED
            BY <1>1, <1>3, <5>1
        <4>. QED
          BY <4>1
      <3>3. (i + 1) + (b - 1) - 1 <= Len(s) /\ \A k \in 1..(b - 1) : t[k] = s[(i + 1) + k - 1]
        BY <3>1, <3>2 DEF Prolonge
      <3>4. ASSUME NEW k \in 1..b PROVE u[k] = s[i + k - 1]
        <4>1. CASE k = 1
          BY <1>1, <1>2, <4>1
        <4>2. CASE k # 1
          <5>1. k - 1 \in 1..(b - 1) /\ k - 1 \in 1..Len(t) /\ 1 + (k - 1) = k
                /\ (i + 1) + (k - 1) - 1 = i + k - 1
            BY <1>1, <1>2, <3>1, <4>2
          <5>2. u[1 + (k - 1)] = t[k - 1] /\ t[k - 1] = s[(i + 1) + (k - 1) - 1]
            BY <1>1, <3>3, <5>1
          <5>. QED
            BY <5>1, <5>2
        <4>. QED
          BY <4>1, <4>2
      <3>. QED
        BY <1>2, <3>3, <3>4
    <2>. QED
      BY <2>1, <2>2
  <1>4. Prolonge(u, s, i, O)
    BY <1>3 DEF Prolonge
  <1>5. ASSUME NEW p \in Nat, Est(u, v, p) PROVE \E j \in Nat : Est(s, v, j) /\ ~Est(s, w, j)
    <2>1. 1 <= p /\ p + Len(v) - 1 <= Len(u) /\ \A k \in 1..Len(v) : u[p + k - 1] = v[k]
      BY <1>5 DEF Est
    <2>2. CASE p = 1
      <3>1. \A k \in 1..Len(v) : u[k] = v[k] /\ u[k] \notin O
        <4>1. ASSUME NEW k \in 1..Len(v) PROVE u[k] = v[k] /\ u[k] \notin O
          <5>1. p + k - 1 = k
            BY <2>2
          <5>. QED
            BY <2>1, <5>1 DEF Sans
        <4>. QED
          BY <4>1
      <3>2. Len(v) \in 1..Len(u)
        BY <1>1, <1>2, <2>1, <2>2
      <3>3. i + Len(v) - 1 <= Len(s) /\ \A k \in 1..Len(v) : u[k] = s[i + k - 1]
        BY <1>3, <3>1, <3>2
      <3>4. Est(s, v, i)
        BY <1>2, <3>1, <3>3 DEF Est
      <3>. QED
        BY <1>2, <3>4
    <2>3. CASE p # 1
      <3>1. p - 1 \in Nat /\ 1 <= p - 1 /\ (p - 1) + Len(v) - 1 <= Len(t)
        BY <1>1, <1>2, <2>1, <2>3
      <3>2. ASSUME NEW k \in 1..Len(v) PROVE t[(p - 1) + k - 1] = v[k]
        <4>1. (p - 1) + k - 1 \in 1..Len(t) /\ 1 + ((p - 1) + k - 1) = p + k - 1
          BY <1>1, <1>2, <3>1
        <4>. QED
          BY <1>1, <2>1, <4>1
      <3>3. Est(t, v, p - 1)
        BY <3>1, <3>2 DEF Est
      <3>. QED
        BY <3>1, <3>3 DEF VientDe
    <2>. QED
      BY <2>2, <2>3
  <1>6. VientDe(u, v, s, w)
    BY <1>5 DEF VientDe
  <1>. QED
    BY <1>4, <1>6 DEF u

\* A replacement, whose last sign is in O: no value goes past its end, and what comes before
\* that is the beginning of w, which was there.
LEMMA UnRemplacement ==
  ASSUME NEW S, NEW s \in Seq(S), NEW i \in 1..Len(s), NEW t \in Seq(S),
         NEW v \in Seq(S), Len(v) >= 1, NEW w \in Seq(S), NEW O, Sans(v, O),
         Est(s, w, i), NEW r \in Seq(S), Len(r) >= 1, r[Len(r)] \in O,
         Prolonge(r, w, 1, O), \A p \in Nat : ~Est(r, v, p), VientDe(t, v, s, w)
  PROVE  Prolonge(r \o t, s, i, O) /\ VientDe(r \o t, v, s, w)
  <1>. DEFINE u == r \o t
              n == Len(r)
  <1>1. /\ u \in Seq(S) /\ Len(u) = n + Len(t) /\ Len(t) \in Nat /\ n \in Nat
        /\ \A p \in 1..n : u[p] = r[p]
        /\ \A q \in 1..Len(t) : u[n + q] = t[q]
    BY MisALaSuite
  <1>. HIDE DEF u
  <1>2. Len(s) \in Nat /\ i \in Nat /\ Len(v) \in Nat /\ Len(w) \in Nat /\ n \in 1..n
    OBVIOUS
  <1>3. u[n] \in O
    BY <1>1, <1>2
  <1>4. ASSUME NEW b \in 1..Len(u), \A k \in 1..b : u[k] \notin O
        PROVE  i + b - 1 <= Len(s) /\ \A k \in 1..b : u[k] = s[i + k - 1]
    <2>1. b < n
      <3>1. n \notin 1..b
        BY <1>3, <1>4
      <3>. QED
        BY <1>1, <1>2, <3>1
    <2>2. b \in 1..n /\ \A k \in 1..b : u[k] = r[k] /\ r[k] \notin O
      <3>1. \A k \in 1..b : k \in 1..n
        BY <1>1, <2>1
      <3>. QED
        BY <1>1, <1>4, <2>1, <3>1
    <2>3. 1 + b - 1 <= Len(w) /\ \A k \in 1..b : r[k] = w[1 + k - 1]
      BY <2>2 DEF Prolonge
    <2>4. i + Len(w) - 1 <= Len(s) /\ \A k \in 1..Len(w) : s[i + k - 1] = w[k]
      BY DEF Est
    <2>5. ASSUME NEW k \in 1..b PROVE u[k] = s[i + k - 1]
      <3>1. k \in 1..Len(w) /\ 1 + k - 1 = k
        BY <1>2, <2>3
      <3>. QED
        BY <2>2, <2>3, <2>4, <3>1
    <2>6. b \in Nat /\ b <= Len(w)
      BY <2>3
    <2>. QED
      BY <1>2, <2>4, <2>5, <2>6
  <1>5. Prolonge(u, s, i, O)
    BY <1>4 DEF Prolonge
  <1>6. ASSUME NEW p \in Nat, Est(u, v, p) PROVE \E j \in Nat : Est(s, v, j) /\ ~Est(s, w, j)
    <2>1. 1 <= p /\ p + Len(v) - 1 <= Len(u) /\ \A k \in 1..Len(v) : u[p + k - 1] = v[k]
      BY <1>6 DEF Est
    <2>2. CASE p <= n
      <3>1. p + Len(v) - 1 < n
        <4>1. ASSUME n <= p + Len(v) - 1 PROVE FALSE
          <5>1. n - p + 1 \in 1..Len(v) /\ p + (n - p + 1) - 1 = n
            BY <1>1, <1>2, <2>1, <2>2, <4>1
          <5>2. u[n] = v[n - p + 1]
            BY <2>1, <5>1
          <5>. QED
            BY <1>3, <5>1, <5>2 DEF Sans
        <4>. QED
          BY <1>1, <1>2, <4>1
      <3>2. ASSUME NEW k \in 1..Len(v) PROVE r[p + k - 1] = v[k]
        <4>1. p + k - 1 \in 1..n
          BY <1>1, <1>2, <2>1, <3>1
        <4>. QED
          BY <1>1, <2>1, <4>1
      <3>3. Est(r, v, p)
        BY <1>1, <1>2, <2>1, <3>1, <3>2 DEF Est
      <3>. QED
        BY <3>3
    <2>3. CASE n < p
      <3>1. p - n \in Nat /\ 1 <= p - n /\ (p - n) + Len(v) - 1 <= Len(t)
        BY <1>1, <1>2, <2>1, <2>3, SMTT(30)
      <3>2. ASSUME NEW k \in 1..Len(v) PROVE t[(p - n) + k - 1] = v[k]
        <4>. DEFINE q == (p - n) + k - 1
        <4>1. q \in 1..Len(t) /\ n + q = p + k - 1
          BY <1>1, <1>2, <3>1
        <4>2. u[n + q] = t[q] /\ u[p + k - 1] = v[k]
          <5>. HIDE DEF q, n
          <5>. QED
            BY <1>1, <2>1, <4>1
        <4>. QED
          BY <4>1, <4>2
      <3>3. Est(t, v, p - n)
        BY <3>1, <3>2 DEF Est
      <3>. QED
        BY <3>1, <3>3 DEF VientDe
    <2>. QED
      BY <1>1, <2>2, <2>3
  <1>7. VientDe(u, v, s, w)
    BY <1>6 DEF VientDe
  <1>. QED
    BY <1>5, <1>7 DEF u

\* What is left from place i on, f being what is left from the places after.
LaSuite(s, v, r, f, i) ==
  IF i > Len(s) THEN <<>>
  ELSE IF i + Len(v) - 1 <= Len(s) /\ SubSeq(s, i, i + Len(v) - 1) = v
       THEN r \o (IF i + Len(v) > Len(s) THEN <<>> ELSE f[i + Len(v)])
       ELSE <<s[i]>> \o f[i + 1]

SuiteFaite(s, v, r, m) ==
  \E f : f = [i \in m..(Len(s) + 1) |-> LaSuite(s, v, r, f, i)]

\* The paragraph can be gone through.
LEMMA SuiteRecursive ==
  ASSUME NEW S, NEW s \in Seq(S), NEW v \in Seq(S), Len(v) >= 1, NEW r
  PROVE  SuiteFaite(s, v, r, 1)
  <1>. DEFINE n == Len(s)
              l == Len(v)
              Tour(f, i) == LaSuite(s, v, r, f, i)
              Existe(m) == \E f : f = [i \in m..(n + 1) |-> Tour(f, i)]
              T == {k \in 0..n : ~Existe(n + 1 - k)}
  <1>0. n \in Nat /\ l \in Nat /\ l >= 1
    OBVIOUS
  <1>. HIDE DEF n, l
  <1>a. ASSUME NEW f, NEW g, NEW i, \A j \in (i + 1)..(n + 1) : f[j] = g[j], i \in 1..(n + 1)
        PROVE  Tour(f, i) = Tour(g, i)
    <2>1. CASE i > n
      BY <2>1 DEF LaSuite, n
    <2>2. CASE ~(i > n)
      <3>1. i + 1 \in (i + 1)..(n + 1) /\ (~(i + l > n) => i + l \in (i + 1)..(n + 1))
        BY <1>0, <1>a, <2>2
      <3>2. f[i + 1] = g[i + 1] /\ (~(i + l > n) => f[i + l] = g[i + l])
        BY <1>a, <3>1
      <3>. QED
        BY <3>2 DEF LaSuite, n, l
    <2>. QED
      BY <2>1, <2>2
  <1>1. ASSUME NEW k \in T, \A y \in T : k <= y PROVE FALSE
    <2>. DEFINE m == n + 1 - k
    <2>0. k \in 0..n /\ ~Existe(m) /\ m \in 1..(n + 1)
      BY <1>0
    <2>1. \E g : g = [i \in (m + 1)..(n + 1) |-> Tour(g, i)]
      <3>1. CASE k = 0
        <4>1. (m + 1)..(n + 1) = {}
          BY <1>0, <3>1
        <4>. DEFINE g == [i \in {} |-> 0]
        <4>2. g = [i \in (m + 1)..(n + 1) |-> Tour(g, i)]
          <5>. HIDE DEF Tour, m
          <5>. QED
            BY <4>1
        <4>. QED
          BY <4>2
      <3>2. CASE k # 0
        <4>1. k - 1 \in 0..n /\ ~(k <= k - 1) /\ n + 1 - (k - 1) = m + 1
          BY <1>0, <2>0, <3>2
        <4>2. k - 1 \notin T
          <5>. HIDE DEF T, m
          <5>. QED
            BY <1>1, <4>1
        <4>3. Existe(n + 1 - (k - 1))
          <5>. HIDE DEF Existe
          <5>. QED
            BY <4>1, <4>2
        <4>. HIDE DEF Tour, m
        <4>. QED
          BY <4>1, <4>3
      <3>. QED
        BY <3>1, <3>2
    <2>2. PICK g : g = [i \in (m + 1)..(n + 1) |-> Tour(g, i)]
      BY <2>1
    <2>. DEFINE f == [i \in m..(n + 1) |-> IF i > m THEN g[i] ELSE Tour(g, m)]
    <2>. HIDE DEF m
    <2>3. ASSUME NEW i \in m..(n + 1) PROVE f[i] = Tour(f, i)
      <3>1. i \in 1..(n + 1)
        BY <1>0, <2>0
      <3>2. \A j \in (i + 1)..(n + 1) : f[j] = g[j]
        <4>1. \A j \in (i + 1)..(n + 1) : j \in m..(n + 1) /\ j > m
          BY <1>0, <2>0, <3>1
        <4>. HIDE DEF Tour
        <4>. QED
          BY <4>1
      <3>3. Tour(f, i) = Tour(g, i)
        <4>. HIDE DEF Tour, f
        <4>. QED
          BY <1>a, <3>1, <3>2
      <3>4. CASE i > m
        <4>1. i \in (m + 1)..(n + 1) /\ f[i] = g[i]
          BY <1>0, <2>0, <3>4
        <4>. HIDE DEF Tour, f
        <4>2. g[i] = Tour(g, i)
          <5>1. \A j \in (m + 1)..(n + 1) : g[j] = Tour(g, j)
            BY <2>2
          <5>. QED
            BY <4>1, <5>1
        <4>. QED
          BY <3>3, <4>1, <4>2
      <3>5. CASE ~(i > m)
        <4>1. i = m /\ f[i] = Tour(g, m)
          BY <2>0, <3>5
        <4>. HIDE DEF Tour, f
        <4>. QED
          BY <3>3, <4>1
      <3>. QED
        BY <3>4, <3>5
    <2>4. f = [i \in m..(n + 1) |-> Tour(f, i)]
      <3>. HIDE DEF Tour
      <3>1. f = [i \in m..(n + 1) |-> f[i]]
        OBVIOUS
      <3>. HIDE DEF f
      <3>. QED
        BY <2>3, <3>1
    <2>5. Existe(m)
      <3>. HIDE DEF f, Tour
      <3>. QED
        BY <2>4
    <2>. QED
      BY <2>0, <2>5
  <1>2. T = {}
    <2>1. T \in SUBSET Nat
      OBVIOUS
    <2>. HIDE DEF T
    <2>. QED
      BY <1>1, <2>1, NatMinimal
  <1>3. Existe(1)
    <2>1. n \in 0..n /\ n + 1 - n = 1
      BY <1>0
    <2>2. Existe(n + 1 - n)
      <3>. HIDE DEF Existe
      <3>. QED
        BY <1>2, <2>1
    <2>. HIDE DEF Tour
    <2>. QED
      BY <2>1, <2>2
  <1>. QED
    BY <1>3 DEF SuiteFaite, n

\* The replacement from place i on, for every place.
Parcours(s, v, r, S, D) ==
  /\ \A i \in 1..(Len(s) + 1) : D[i] \in Seq(S)
  /\ D[Len(s) + 1] = <<>>
  /\ \A i \in 1..Len(s) :
       D[i] = IF Est(s, v, i) THEN r \o D[i + Len(v)] ELSE <<s[i]>> \o D[i + 1]

\* Remplacer goes through the paragraph from its beginning.
LEMMA RemplacerParcourt ==
  ASSUME NEW S, NEW s \in Seq(S), NEW v \in Seq(S), Len(v) >= 1, NEW r \in Seq(S)
  PROVE  \E D : Parcours(s, v, r, S, D) /\ Remplacer(s, v, r) = D[1]
  <1>. DEFINE n == Len(s)
              l == Len(v)
              D == CHOOSE f : f = [i \in 1..(n + 1) |-> LaSuite(s, v, r, f, i)]
  <1>1. n \in Nat /\ l \in Nat /\ l >= 1
    OBVIOUS
  <1>2. Remplacer(s, v, r) = D[1]
    BY DEF Remplacer, LaSuite
  <1>3. D = [i \in 1..(n + 1) |-> LaSuite(s, v, r, D, i)]
    <2>1. \E f : f = [i \in 1..(n + 1) |-> LaSuite(s, v, r, f, i)]
      BY SuiteRecursive DEF SuiteFaite
    <2>. HIDE DEF n
    <2>. QED
      BY <2>1
  <1>. HIDE DEF D
  <1>4. \A i \in 1..(n + 1) : D[i] = LaSuite(s, v, r, D, i)
    BY <1>3
  <1>5. D[n + 1] = <<>>
    <2>1. n + 1 \in 1..(n + 1) /\ n + 1 > n
      BY <1>1
    <2>. QED
      BY <1>4, <2>1 DEF LaSuite
  <1>6. ASSUME NEW i \in 1..n
        PROVE  D[i] = IF Est(s, v, i) THEN r \o D[i + l] ELSE <<s[i]>> \o D[i + 1]
    <2>1. i \in 1..(n + 1) /\ ~(i > n) /\ i \in Nat /\ 1 <= i
      BY <1>1
    <2>2. Est(s, v, i) <=> i + l - 1 <= n /\ SubSeq(s, i, i + l - 1) = v
      <3>1. Est(s, v, i) => i + l - 1 <= n
        BY DEF Est
      <3>. QED
        BY <2>1, <3>1, EstTrouve
    <2>3. D[i] = IF Est(s, v, i) THEN r \o (IF i + l > n THEN <<>> ELSE D[i + l])
                 ELSE <<s[i]>> \o D[i + 1]
      BY <1>4, <2>1, <2>2 DEF LaSuite
    <2>4. CASE Est(s, v, i)
      <3>1. i + l > n => i + l = n + 1
        BY <1>1, <2>2, <2>4
      <3>2. (IF i + l > n THEN <<>> ELSE D[i + l]) = D[i + l]
        BY <1>5, <3>1
      <3>. HIDE DEF n, l
      <3>. QED
        BY <2>3, <2>4, <3>2
    <2>5. CASE ~Est(s, v, i)
      BY <2>3, <2>5
    <2>. QED
      BY <2>4, <2>5
  <1>7. \A i \in 1..(n + 1) : D[i] \in Seq(S)
    <2>. DEFINE T == {k \in 0..n : D[n + 1 - k] \notin Seq(S)}
    <2>1. ASSUME NEW k \in T, \A y \in T : k <= y PROVE FALSE
      <3>0. k \in 0..n /\ D[n + 1 - k] \notin Seq(S)
        OBVIOUS
      <3>1. CASE k = 0
        <4>1. n + 1 - k = n + 1 /\ <<>> \in Seq(S)
          BY <1>1, <3>1
        <4>. QED
          BY <1>5, <3>0, <4>1
      <3>2. CASE k # 0
        <4>. DEFINE i == n + 1 - k
        <4>1. i \in 1..n
          BY <1>1, <3>0, <3>2
        <4>2. ASSUME NEW j \in (i + 1)..(n + 1) PROVE D[j] \in Seq(S)
          <5>1. n + 1 - j \in 0..n /\ ~(k <= n + 1 - j) /\ n + 1 - (n + 1 - j) = j
            BY <1>1, <3>0, <4>1
          <5>2. n + 1 - j \notin T
            <6>. HIDE DEF T, i
            <6>. QED
              BY <2>1, <5>1
          <5>. QED
            BY <5>1, <5>2
        <4>. HIDE DEF i
        <4>3. CASE Est(s, v, i)
          <5>1. i + l \in (i + 1)..(n + 1)
            BY <1>1, <4>1, <4>3 DEF Est
          <5>2. D[i + l] \in Seq(S) /\ D[i] = r \o D[i + l]
            BY <1>6, <4>1, <4>2, <4>3, <5>1
          <5>3. r \o D[i + l] \in Seq(S)
            BY <5>2, MisALaSuite
          <5>. QED
            BY <3>0, <5>2, <5>3 DEF i
        <4>4. CASE ~Est(s, v, i)
          <5>1. i + 1 \in (i + 1)..(n + 1) /\ <<s[i]>> \in Seq(S)
            BY <1>1, <4>1
          <5>2. D[i + 1] \in Seq(S) /\ D[i] = <<s[i]>> \o D[i + 1]
            BY <1>6, <4>1, <4>2, <4>4, <5>1
          <5>3. <<s[i]>> \o D[i + 1] \in Seq(S)
            BY <5>1, <5>2, MisALaSuite
          <5>. QED
            BY <3>0, <5>2, <5>3 DEF i
        <4>. QED
          BY <4>3, <4>4
      <3>. QED
        BY <3>1, <3>2
    <2>2. T = {}
      <3>1. T \in SUBSET Nat
        BY <1>1
      <3>. HIDE DEF T
      <3>. QED
        BY <2>1, <3>1, NatMinimal
    <2>3. ASSUME NEW i \in 1..(n + 1) PROVE D[i] \in Seq(S)
      <3>1. n + 1 - i \in 0..n /\ n + 1 - (n + 1 - i) = i
        BY <1>1
      <3>. QED
        BY <2>2, <3>1
    <2>. QED
      BY <2>3
  <1>8. Parcours(s, v, r, S, D)
    BY <1>5, <1>6, <1>7 DEF Parcours
  <1>. QED
    BY <1>2, <1>8

\* Replacing w by r makes no value appear, and leaves none where w was.
LEMMA RemplacerBon ==
  ASSUME NEW S, NEW s \in Seq(S), NEW v \in Seq(S), Len(v) >= 1,
         NEW w \in Seq(S), Len(w) >= 1, NEW O, Sans(v, O),
         NEW r \in Seq(S), Len(r) >= 1, r[Len(r)] \in O,
         Prolonge(r, w, 1, O), \A p \in Nat : ~Est(r, v, p)
  PROVE  Remplacer(s, w, r) \in Seq(S) /\ VientDe(Remplacer(s, w, r), v, s, w)
  <1>. DEFINE n == Len(s)
              l == Len(w)
  <1>1. n \in Nat /\ l \in Nat /\ l >= 1
    OBVIOUS
  <1>2. PICK D : Parcours(s, w, r, S, D) /\ Remplacer(s, w, r) = D[1]
    BY RemplacerParcourt
  <1>3. /\ \A i \in 1..(n + 1) : D[i] \in Seq(S)
        /\ D[n + 1] = <<>>
        /\ \A i \in 1..n : D[i] = IF Est(s, w, i) THEN r \o D[i + l] ELSE <<s[i]>> \o D[i + 1]
    BY <1>2 DEF Parcours
  <1>. DEFINE Bon(i) == Prolonge(D[i], s, i, O) /\ VientDe(D[i], v, s, w)
              T == {k \in 0..n : ~Bon(n + 1 - k)}
  <1>4. ASSUME NEW k \in T, \A y \in T : k <= y PROVE FALSE
    <2>0. k \in 0..n /\ ~Bon(n + 1 - k)
      OBVIOUS
    <2>1. CASE k = 0
      <3>1. n + 1 - k = n + 1 /\ D[n + 1 - k] = <<>>
        BY <1>1, <1>3, <2>1
      <3>2. Prolonge(<<>>, s, n + 1, O) /\ VientDe(<<>>, v, s, w)
        <4>1. \A p \in Nat : ~Est(<<>>, v, p)
          <5>1. Len(v) \in Nat
            OBVIOUS
          <5>. QED
            BY <5>1 DEF Est
        <4>. QED
          BY <4>1 DEF Prolonge, VientDe
      <3>. QED
        BY <2>0, <3>1, <3>2
    <2>2. CASE k # 0
      <3>. DEFINE i == n + 1 - k
      <3>1. i \in 1..n /\ i + 1 \in 1..(n + 1)
        BY <1>1, <2>0, <2>2
      <3>2. ASSUME NEW j \in (i + 1)..(n + 1) PROVE Bon(j)
        <4>1. n + 1 - j \in 0..n /\ ~(k <= n + 1 - j) /\ n + 1 - (n + 1 - j) = j
          BY <1>1, <2>0, <3>1
        <4>2. n + 1 - j \notin T
          <5>. HIDE DEF T, i
          <5>. QED
            BY <1>4, <4>1
        <4>. HIDE DEF Bon
        <4>. QED
          BY <4>1, <4>2
      <3>. HIDE DEF i
      <3>3. CASE Est(s, w, i)
        <4>1. i + l \in (i + 1)..(n + 1) /\ i + l \in 1..(n + 1)
          BY <1>1, <3>1, <3>3 DEF Est
        <4>2. D[i] = r \o D[i + l] /\ D[i + l] \in Seq(S) /\ VientDe(D[i + l], v, s, w)
          BY <1>3, <3>1, <3>2, <3>3, <4>1
        <4>3. Prolonge(r \o D[i + l], s, i, O) /\ VientDe(r \o D[i + l], v, s, w)
          <5>1. i \in 1..Len(s)
            BY <3>1
          <5>. HIDE DEF n, l
          <5>. QED
            BY <3>3, <4>2, <5>1, UnRemplacement
        <4>. QED
          BY <2>0, <4>2, <4>3 DEF i
      <3>4. CASE ~Est(s, w, i)
        <4>1. i + 1 \in (i + 1)..(n + 1)
          BY <1>1, <3>1
        <4>2. D[i] = <<s[i]>> \o D[i + 1] /\ D[i + 1] \in Seq(S)
              /\ Prolonge(D[i + 1], s, i + 1, O) /\ VientDe(D[i + 1], v, s, w)
          BY <1>3, <3>1, <3>2, <3>4, <4>1
        <4>3. Prolonge(<<s[i]>> \o D[i + 1], s, i, O) /\ VientDe(<<s[i]>> \o D[i + 1], v, s, w)
          <5>1. i \in 1..Len(s)
            BY <3>1
          <5>. HIDE DEF n, l
          <5>. QED
            BY <3>4, <4>2, <5>1, UneCopie
        <4>. QED
          BY <2>0, <4>2, <4>3 DEF i
      <3>. QED
        BY <3>3, <3>4
    <2>. QED
      BY <2>1, <2>2
  <1>5. T = {}
    <2>1. T \in SUBSET Nat
      BY <1>1
    <2>. HIDE DEF T
    <2>. QED
      BY <1>4, <2>1, NatMinimal
  <1>6. Bon(1)
    <2>1. n \in 0..n /\ n + 1 - n = 1
      BY <1>1
    <2>2. Bon(n + 1 - n)
      <3>. HIDE DEF Bon
      <3>. QED
        BY <1>5, <2>1
    <2>. HIDE DEF Bon
    <2>. QED
      BY <2>1, <2>2
  <1>7. 1 \in 1..(n + 1)
    BY <1>1
  <1>. QED
    BY <1>2, <1>3, <1>6, <1>7

\* A value that has no sign of O and ends with a letter or a digit.
Nette(v, O) ==
  /\ v \in Seq(Car) /\ Len(v) >= 1 /\ v[Len(v)] \in Alphanumeriques /\ Sans(v, O)

\* r ends with a sign of O, and before its first one it is the beginning of w.
Cachet(r, w, S, O) ==
  r \in Seq(S) /\ Len(r) >= 1 /\ r[Len(r)] \in O /\ Prolonge(r, w, 1, O)

\* u is nowhere in r.
Muet(r, u) == \A p \in Nat : ~Est(r, u, p)

\* What masquer_valeur leaves of an address: its first character, then signs.
LEMMA AdresseMasquee ==
  ASSUME NEW S, Car \subseteq S, PUCE \in S, NEW v \in Seq(Car), Len(v) >= 1,
         v[Len(v)] \in Alphanumeriques, NEW a \in DOMAIN v, v[a] = "@"
  PROVE  LET r == masquer_valeur(v, "EMAIL")
         IN /\ r \in Seq(S) /\ Len(r) >= 6 /\ r[Len(r)] = PUCE
            /\ \A k \in 1..Len(r) : r[k] \in {PUCE, "@"} \/ (k = 1 /\ r[1] = v[1] /\ Len(v) > 1)
            /\ r[1] = PUCE \/ (r[1] = v[1] /\ r[2] = PUCE)
  <1>. DEFINE arobases == {i \in DOMAIN v : v[i] = "@"}
              premier == IF v[1] = "@" THEN <<>> ELSE <<v[1]>>
              milieu == <<PUCE, PUCE, PUCE, PUCE, PUCE, PUCE>>
              fin == IF \E i \in arobases : i < Len(v) /\ \A j \in arobases : i <= j
                     THEN <<"@", PUCE, PUCE, PUCE, PUCE>> ELSE <<>>
              r == masquer_valeur(v, "EMAIL")
  <1>1. DOMAIN v = 1..Len(v) /\ Len(v) \in Nat /\ v # <<>> /\ arobases # {}
    OBVIOUS
  <1>2. r = premier \o milieu \o fin
    BY <1>1 DEF masquer_valeur
  <1>3. v[1] \in S /\ "@" \in S
    <2>1. 1 \in 1..Len(v) /\ v[1] \in Car /\ v[a] \in Car
      BY <1>1
    <2>. QED
      BY <2>1
  <1>4. v[1] # "@" => Len(v) > 1
    BY <1>1
  <1>5. /\ milieu \in Seq(S) /\ Len(milieu) = 6 /\ \A k \in 1..6 : milieu[k] = PUCE
    OBVIOUS
  <1>6. /\ premier \in Seq(S) /\ Len(premier) \in 0..1
        /\ Len(premier) = 1 => premier[1] = v[1] /\ Len(v) > 1
    BY <1>3, <1>4
  <1>7. /\ fin \in Seq(S) /\ Len(fin) \in {0, 5}
        /\ \A k \in 1..Len(fin) : fin[k] \in {PUCE, "@"}
        /\ Len(fin) = 5 => fin[5] = PUCE
    <2>. DEFINE g == <<"@", PUCE, PUCE, PUCE, PUCE>>
    <2>1. g \in Seq(S) /\ Len(g) = 5 /\ \A k \in 1..5 : g[k] \in {PUCE, "@"}
      BY <1>3
    <2>2. g[5] = PUCE
      OBVIOUS
    <2>3. <<>> \in Seq(S) /\ Len(<<>>) = 0
      OBVIOUS
    <2>4. fin = g \/ fin = <<>>
      OBVIOUS
    <2>. HIDE DEF fin, g
    <2>5. CASE fin = g
      BY <2>1, <2>2, <2>5
    <2>6. CASE fin = <<>>
      BY <2>3, <2>6
    <2>. QED
      BY <2>4, <2>5, <2>6
  <1>. HIDE DEF premier, milieu, fin, r, arobases
  <1>. DEFINE u == premier \o milieu
  <1>8. /\ u \in Seq(S) /\ Len(u) = Len(premier) + 6
        /\ \A p \in 1..Len(premier) : u[p] = premier[p]
        /\ \A p \in 1..6 : u[Len(premier) + p] = PUCE
    <2>1. /\ u \in Seq(S) /\ Len(u) = Len(premier) + Len(milieu)
          /\ \A p \in 1..Len(premier) : u[p] = premier[p]
          /\ \A p \in 1..Len(milieu) : u[Len(premier) + p] = milieu[p]
      <3>1. premier \in Seq(S) /\ milieu \in Seq(S)
        BY <1>5, <1>6
      <3>. QED
        BY <3>1, MisALaSuite
    <2>. QED
      BY <1>5, <2>1
  <1>. HIDE DEF u
  <1>9. /\ r \in Seq(S) /\ Len(r) = Len(u) + Len(fin)
        /\ \A p \in 1..Len(u) : r[p] = u[p]
        /\ \A p \in 1..Len(fin) : r[Len(u) + p] = fin[p]
    <2>1. r = u \o fin
      BY <1>2 DEF u
    <2>2. u \in Seq(S) /\ fin \in Seq(S)
      BY <1>7, <1>8
    <2>. QED
      BY <2>1, <2>2, MisALaSuite
  <1>10. \A k \in 1..Len(u) : u[k] = PUCE \/ (k = 1 /\ u[1] = v[1] /\ Len(v) > 1)
    <2>1. ASSUME NEW k \in 1..Len(u)
          PROVE  u[k] = PUCE \/ (k = 1 /\ u[1] = v[1] /\ Len(v) > 1)
      <3>1. CASE k <= Len(premier)
        <4>1. k = 1 /\ Len(premier) = 1 /\ k \in 1..Len(premier)
          BY <1>6, <1>8, <3>1
        <4>. QED
          BY <1>6, <1>8, <4>1
      <3>2. CASE ~(k <= Len(premier))
        <4>. DEFINE c == Len(premier)
        <4>1. c \in Nat /\ Len(u) = c + 6 /\ ~(k <= c)
          BY <1>6, <1>8, <3>2
        <4>2. \A p \in 1..6 : u[c + p] = PUCE
          BY <1>8
        <4>. HIDE DEF c
        <4>3. k - c \in 1..6 /\ c + (k - c) = k
          BY <4>1
        <4>. QED
          BY <4>2, <4>3
      <3>. QED
        BY <3>1, <3>2
    <2>. QED
      BY <2>1
  <1>11. ASSUME NEW k \in 1..Len(r)
         PROVE  r[k] \in {PUCE, "@"} \/ (k = 1 /\ r[1] = v[1] /\ Len(v) > 1)
    <2>1. CASE k <= Len(u)
      <3>1. k \in 1..Len(u) /\ r[k] = u[k] /\ 1 \in 1..Len(u) /\ r[1] = u[1]
        BY <1>6, <1>8, <1>9, <2>1
      <3>. QED
        BY <1>10, <3>1
    <2>2. CASE ~(k <= Len(u))
      <3>1. k - Len(u) \in 1..Len(fin) /\ Len(u) + (k - Len(u)) = k
        BY <1>6, <1>7, <1>8, <1>9, <2>2
      <3>. QED
        BY <1>7, <1>9, <3>1
    <2>. QED
      BY <2>1, <2>2
  <1>12. Len(r) >= 6 /\ r[Len(r)] = PUCE
    <2>1. CASE Len(fin) = 0
      <3>1. Len(r) = Len(premier) + 6 /\ Len(r) \in 1..Len(u) /\ 6 \in 1..6 /\ Len(r) >= 6
        BY <1>6, <1>8, <1>9, <2>1
      <3>. QED
        BY <1>8, <1>9, <3>1
    <2>2. CASE Len(fin) = 5
      <3>1. Len(r) = Len(u) + 5 /\ 5 \in 1..Len(fin) /\ Len(r) >= 6
        BY <1>6, <1>8, <1>9, <2>2
      <3>. QED
        BY <1>7, <1>9, <2>2, <3>1
    <2>. QED
      BY <1>7, <2>1, <2>2
  <1>13. r[1] = PUCE \/ (r[1] = v[1] /\ r[2] = PUCE)
    <2>1. 1 \in 1..Len(u) /\ 2 \in 1..Len(u) /\ r[1] = u[1] /\ r[2] = u[2]
      <3>1. Len(u) \in Nat /\ Len(u) >= 6
        BY <1>6, <1>8
      <3>2. 1 \in 1..Len(u) /\ 2 \in 1..Len(u)
        BY <3>1
      <3>. QED
        BY <1>9, <3>2
    <2>2. u[2] = PUCE
      BY <1>10, <2>1
    <2>. QED
      BY <1>10, <2>1, <2>2
  <1>. QED
    BY <1>9, <1>11, <1>12, <1>13 DEF r

\* The mask of a value has neither this value nor any other one that is not inside it.
LEMMA MasqueBon ==
  ASSUME NEW S, Car \subseteq S, NEW O, PUCE \in O, O \subseteq S, NEW v, Nette(v, O), NEW type
  PROVE  /\ Cachet(masquer_valeur(v, type), v, S, O)
         /\ \A u : Nette(u, O) /\ (u # v => Muet(v, u)) => Muet(masquer_valeur(v, type), u)
  <1>. DEFINE r == masquer_valeur(v, type)
              n == Len(v)
  <1>1. /\ v \in Seq(Car) /\ n \in Nat /\ n >= 1 /\ DOMAIN v = 1..n /\ v # <<>>
        /\ v[n] \in Alphanumeriques /\ \A k \in 1..n : v[k] \notin O /\ v[k] \in Car
        /\ v \in Seq(S)
    BY DEF Nette, Sans
  <1>2. CASE type = "EMAIL" /\ \E a \in DOMAIN v : v[a] = "@"
    <2>1. /\ r \in Seq(S) /\ Len(r) >= 6 /\ r[Len(r)] = PUCE
          /\ \A k \in 1..Len(r) : r[k] \in {PUCE, "@"} \/ (k = 1 /\ r[1] = v[1] /\ n > 1)
          /\ r[1] = PUCE \/ (r[1] = v[1] /\ r[2] = PUCE)
      <3>1. PICK a \in DOMAIN v : v[a] = "@"
        BY <1>2
      <3>. QED
        BY <1>1, <1>2, <3>1, AdresseMasquee
    <2>. HIDE DEF r
    <2>2. Len(r) \in Nat /\ 1 \in 1..Len(r) /\ 2 \in 1..Len(r)
      BY <2>1
    <2>3. Prolonge(r, v, 1, O)
      <3>1. ASSUME NEW b \in 1..Len(r), \A k \in 1..b : r[k] \notin O
            PROVE  1 + b - 1 <= n /\ \A k \in 1..b : r[k] = v[1 + k - 1]
        <4>1. b = 1
          <5>1. ASSUME b >= 2 PROVE FALSE
            <6>1. 1 \in 1..b /\ 2 \in 1..b
              BY <5>1
            <6>. QED
              BY <2>1, <3>1, <6>1
          <5>. QED
            BY <5>1
        <4>2. r[1] = v[1]
          BY <2>1, <3>1, <4>1
        <4>. QED
          BY <1>1, <4>1, <4>2
      <3>. HIDE DEF n
      <3>. QED
        BY <3>1 DEF Prolonge, n
    <2>4. ASSUME NEW u, Nette(u, O), u # v => Muet(v, u), NEW p \in Nat, Est(r, u, p) PROVE FALSE
      <3>1. /\ u \in Seq(Car) /\ Len(u) \in Nat /\ Len(u) >= 1 /\ u[Len(u)] \in Alphanumeriques
            /\ u[Len(u)] \notin O
        BY <2>4 DEF Nette, Sans
      <3>2. 1 <= p /\ p + Len(u) - 1 <= Len(r) /\ r[p + Len(u) - 1] = u[Len(u)]
        BY <2>4, <3>1 DEF Est
      <3>3. u[Len(u)] \notin {PUCE, "@"}
        BY <3>1 DEF Alphanumeriques
      <3>4. p + Len(u) - 1 \in 1..Len(r)
        BY <2>2, <3>1, <3>2
      <3>5. p + Len(u) - 1 = 1 /\ r[1] = v[1] /\ n > 1
        <4>. DEFINE q == p + Len(u) - 1
        <4>1. q \in 1..Len(r) /\ r[q] \notin {PUCE, "@"}
          BY <3>2, <3>3, <3>4
        <4>. HIDE DEF q
        <4>2. q = 1 /\ r[1] = v[1] /\ n > 1
          BY <2>1, <4>1
        <4>. QED
          BY <4>2 DEF q
      <3>6. p = 1 /\ Len(u) = 1 /\ u[1] = v[1]
        <4>. DEFINE l == Len(u)
        <4>0. l \in Nat /\ l >= 1 /\ 1 <= p /\ p + l - 1 = 1
          BY <3>1, <3>2, <3>5
        <4>1. p = 1 /\ Len(u) = 1
          <5>1. p = 1 /\ l = 1
            <6>. HIDE DEF l
            <6>. QED
              BY <4>0
          <5>. QED
            BY <5>1
        <4>2. r[1] = u[1]
          BY <3>2, <3>5, <4>1
        <4>. QED
          BY <3>5, <4>1, <4>2
      <3>7. Est(v, u, 1)
        <4>1. 1 + Len(u) - 1 <= n /\ \A k \in 1..Len(u) : v[1 + k - 1] = u[k]
          BY <1>1, <3>6
        <4>. HIDE DEF n
        <4>. QED
          BY <4>1 DEF Est, n
      <3>8. u # v
        <4>1. Len(u) = 1 /\ Len(v) > 1
          BY <3>5, <3>6
        <4>2. Len(u) # Len(v)
          BY <1>1, <4>1
        <4>. QED
          BY <4>2
      <3>. QED
        BY <2>4, <3>7, <3>8 DEF Muet
    <2>. QED
      BY <2>1, <2>2, <2>3, <2>4 DEF r, Cachet, Muet
  <1>3. CASE ~(type = "EMAIL" /\ \E a \in DOMAIN v : v[a] = "@")
    <2>1. /\ DOMAIN r = 1..n /\ r[n] = PUCE
          /\ \A k \in 1..n : r[k] = PUCE \/ r[k] = v[k]
          /\ r = [k \in 1..n |-> r[k]]
      <3>. DEFINE mot(i) == v[i] \in Alphanumeriques
                  premiere(i) == (i > 1 => ~mot(i - 1)) /\ i < Len(v) /\ mot(i + 1)
      <3>1. ~(type = "EMAIL" /\ {i \in DOMAIN v : v[i] = "@"} # {})
        BY <1>3
      <3>2. r = [i \in DOMAIN v |-> IF mot(i) /\ ~premiere(i) THEN PUCE ELSE v[i]]
        BY <1>1, <3>1 DEF masquer_valeur
      <3>3. n \in 1..n /\ mot(n) /\ ~premiere(n)
        BY <1>1
      <3>. HIDE DEF mot, premiere, r
      <3>. QED
        BY <1>1, <3>2, <3>3
    <2>. HIDE DEF r
    <2>2. r \in Seq(S) /\ Len(r) = n
      <3>1. \A k \in 1..n : r[k] \in S
        BY <1>1, <2>1
      <3>. HIDE DEF n
      <3>. QED
        BY <1>1, <2>1, <3>1
    <2>3. Prolonge(r, v, 1, O)
      <3>1. ASSUME NEW b \in 1..Len(r), \A k \in 1..b : r[k] \notin O
            PROVE  1 + b - 1 <= n /\ \A k \in 1..b : r[k] = v[1 + k - 1]
        <4>1. b \in 1..n /\ 1 + b - 1 = b /\ \A k \in 1..b : k \in 1..n /\ 1 + k - 1 = k
          BY <1>1, <2>2
        <4>2. ASSUME NEW k \in 1..b PROVE r[k] = v[k]
          BY <2>1, <3>1, <4>1, <4>2
        <4>. QED
          BY <1>1, <4>1, <4>2
      <3>. HIDE DEF n
      <3>. QED
        BY <3>1 DEF Prolonge, n
    <2>4. ASSUME NEW u, Nette(u, O), u # v => Muet(v, u), NEW p \in Nat, Est(r, u, p) PROVE FALSE
      <3>1. /\ u \in Seq(Car) /\ Len(u) \in Nat /\ Len(u) >= 1
            /\ \A k \in 1..Len(u) : u[k] \notin O
        BY <2>4 DEF Nette, Sans
      <3>2. 1 <= p /\ p + Len(u) - 1 <= n /\ \A k \in 1..Len(u) : r[p + k - 1] = u[k]
        BY <2>2, <2>4 DEF Est
      <3>3. ASSUME NEW k \in 1..Len(u) PROVE v[p + k - 1] = u[k] /\ p + k - 1 # n
        <4>1. p + k - 1 \in 1..n
          BY <1>1, <3>1, <3>2
        <4>. QED
          BY <2>1, <3>1, <3>2, <4>1
      <3>4. Est(v, u, p)
        BY <3>2, <3>3 DEF Est
      <3>5. u = v
        BY <2>4, <3>4 DEF Muet
      <3>6. p = 1 /\ n \in 1..Len(u) /\ p + n - 1 = n
        BY <1>1, <3>2, <3>5
      <3>. QED
        BY <3>3, <3>6
    <2>. QED
      BY <1>1, <2>1, <2>2, <2>3, <2>4 DEF r, Cachet, Muet
  <1>. QED
    BY <1>2, <1>3

\* A token has nothing of a value.
LEMMA JetonBon ==
  ASSUME NEW S, NEW O, O \subseteq S, NEW w, NEW type, Range(jeton(w, type)) \subseteq O, NEW v
  PROVE  /\ Cachet(jeton(w, type), v, S, O)
         /\ \A u : Nette(u, O) => Muet(jeton(w, type), u)
  <1>. DEFINE r == jeton(w, type)
  <1>1. PICK c1, c2 : r = <<c1, c2>>
    BY DEF jeton
  <1>2. c1 \in O /\ c2 \in O
    <2>1. Range(r) = {r[k] : k \in DOMAIN r} /\ DOMAIN r = 1..2 /\ r[1] = c1 /\ r[2] = c2
      BY <1>1 DEF Range
    <2>. HIDE DEF r
    <2>2. r[1] \in Range(r) /\ r[2] \in Range(r)
      BY <2>1
    <2>. QED
      BY <2>1, <2>2 DEF r
  <1>. HIDE DEF r
  <1>3. r \in Seq(S) /\ Len(r) = 2 /\ \A k \in 1..2 : r[k] \in O
    BY <1>1, <1>2
  <1>4. Prolonge(r, v, 1, O)
    BY <1>3 DEF Prolonge
  <1>5. ASSUME NEW u, Nette(u, O), NEW p \in Nat, Est(r, u, p) PROVE FALSE
    <2>1. Len(u) \in Nat /\ 1 \in 1..Len(u) /\ u[1] \notin O
      BY <1>5 DEF Nette, Sans
    <2>2. 1 <= p /\ p + Len(u) - 1 <= 2 /\ r[p + 1 - 1] = u[1]
      BY <1>3, <1>5, <2>1 DEF Est
    <2>3. p \in 1..2 /\ p + 1 - 1 = p
      BY <2>1, <2>2
    <2>. QED
      BY <1>3, <2>1, <2>2, <2>3
  <1>. QED
    BY <1>3, <1>4, <1>5 DEF r, Cachet, Muet

\* What turn k leaves of paragraph s, f being what the turns before left.
LEchange(s, subs, f, k) ==
  IF k = 0 THEN [texte |-> s, n |-> 0] ELSE Echanger(f[k - 1], subs[k])

EchangesFaits(s, subs, n) == \E f : f = [k \in 0..n |-> LEchange(s, subs, f, k)]

\* The turns can all be made.
LEMMA EchangesRecursifs ==
  ASSUME NEW s, NEW subs, NEW n \in Nat
  PROVE  EchangesFaits(s, subs, n)
  <1>. USE DEF LEchange
  <1>. DEFINE Tour(f, k) == LEchange(s, subs, f, k)
              Existe(m) == \E f : f = [k \in 0..m |-> Tour(f, k)]
              T == {m \in Nat : ~Existe(m)}
  <1>1. ASSUME NEW m \in T, \A y \in T : m <= y PROVE FALSE
    <2>1. CASE m = 0
      <3>. DEFINE f == [k \in 0..0 |-> [texte |-> s, n |-> 0]]
      <3>1. f = [k \in 0..0 |-> Tour(f, k)]
        OBVIOUS
      <3>. QED
        BY <2>1, <3>1
    <2>2. CASE m # 0
      <3>1. m - 1 \in Nat /\ m - 1 \notin T
        <4>1. m \in Nat
          OBVIOUS
        <4>. HIDE DEF T
        <4>. QED
          BY <1>1, <2>2, <4>1
      <3>2. PICK g : g = [k \in 0..(m - 1) |-> Tour(g, k)]
        BY <3>1
      <3>. DEFINE f == [k \in 0..m |-> IF k < m THEN g[k] ELSE Tour(g, m)]
      <3>3. ASSUME NEW k \in 0..m PROVE f[k] = Tour(f, k)
        <4>1. k # 0 => k - 1 \in 0..(m - 1) /\ f[k - 1] = g[k - 1]
          OBVIOUS
        <4>2. Tour(f, k) = Tour(g, k)
          BY <4>1
        <4>3. CASE k < m
          <5>1. k \in 0..(m - 1) /\ f[k] = g[k]
            BY <4>3
          <5>. HIDE DEF Tour, f
          <5>2. \A l \in 0..(m - 1) : g[l] = Tour(g, l)
            BY <3>2
          <5>. QED
            BY <4>2, <5>1, <5>2
        <4>4. CASE ~(k < m)
          <5>1. k = m /\ f[k] = Tour(g, m)
            BY <4>4
          <5>. HIDE DEF Tour, f
          <5>. QED
            BY <4>2, <5>1
        <4>. QED
          BY <4>3, <4>4
      <3>4. f = [k \in 0..m |-> Tour(f, k)]
        <4>. HIDE DEF Tour
        <4>1. f = [k \in 0..m |-> f[k]]
          OBVIOUS
        <4>. HIDE DEF f
        <4>. QED
          BY <3>3, <4>1
      <3>5. Existe(m)
        <4>. HIDE DEF f, Tour
        <4>. QED
          BY <3>4
      <3>. QED
        BY <3>5
    <2>. QED
      BY <2>1, <2>2
  <1>2. T = {}
    <2>1. T \in SUBSET Nat
      OBVIOUS
    <2>. HIDE DEF T
    <2>. QED
      BY <1>1, <2>1, NatMinimal
  <1>. QED
    BY <1>2 DEF EchangesFaits

\* The substitutions of a document: no replacement has a value, and each ends with a sign
\* no value has.
Surs(subs, S, O) ==
  /\ Len(subs) \in Nat
  /\ \A k \in 1..Len(subs) : /\ Nette(subs[k].valeur, O)
                             /\ Cachet(subs[k].par, subs[k].valeur, S, O)
  /\ \A j, k \in 1..Len(subs) : Muet(subs[k].par, subs[j].valeur)

\* After k turns, none of the first k values is there.
Echange(acc, s, subs, S, k) ==
  /\ acc.texte \in Seq(S) /\ acc.n \in Nat /\ (acc.n = 0 => acc.texte = s)
  /\ \A j \in 1..k : Muet(acc.texte, subs[j].valeur)

LEMMA UnEchange ==
  ASSUME NEW S, Car \subseteq S, NEW O, NEW s, NEW subs, Surs(subs, S, O),
         NEW k \in 1..Len(subs), NEW acc, Echange(acc, s, subs, S, k - 1)
  PROVE  Echange(Echanger(acc, subs[k]), s, subs, S, k)
  <1>. DEFINE v(j) == subs[j].valeur
              r == subs[k].par
              suite == Echanger(acc, subs[k])
  <1>1. /\ acc.texte \in Seq(S) /\ acc.n \in Nat /\ (acc.n = 0 => acc.texte = s)
        /\ \A j \in 1..(k - 1) : Muet(acc.texte, v(j))
    BY DEF Echange
  <1>2. \A j \in 1..Len(subs) : Nette(v(j), O) /\ v(j) \in Seq(S) /\ Len(v(j)) >= 1 /\ Sans(v(j), O)
                                /\ Muet(r, v(j))
    BY DEF Surs, Nette
  <1>3. r \in Seq(S) /\ Len(r) >= 1 /\ r[Len(r)] \in O /\ Prolonge(r, v(k), 1, O)
    BY DEF Surs, Cachet
  <1>4. k \in Nat /\ k - 1 \in Nat /\ Len(subs) \in Nat /\ \A j \in 1..k : j \in 1..Len(subs)
    BY DEF Surs
  <1>5. Contient(acc.texte, v(k)) <=> ~Muet(acc.texte, v(k))
    BY <1>1, <1>2, ContientEst DEF Muet
  <1>6. CASE Contient(acc.texte, v(k))
    <2>. DEFINE t == Remplacer(acc.texte, v(k), r)
    <2>1. suite = [texte |-> t, n |-> acc.n + 1]
      BY <1>6 DEF Echanger
    <2>2. ASSUME NEW j \in 1..k PROVE t \in Seq(S) /\ VientDe(t, v(j), acc.texte, v(k))
      <3>. HIDE DEF v, r
      <3>1. \A p \in Nat : ~Est(r, v(j), p)
        BY <1>2, <1>4 DEF Muet
      <3>. QED
        BY <1>1, <1>2, <1>3, <1>4, <3>1, RemplacerBon
    <2>3. ASSUME NEW j \in 1..k PROVE Muet(t, v(j))
      <3>. HIDE DEF v, r, t
      <3>1. ASSUME NEW p \in Nat, Est(t, v(j), p) PROVE FALSE
        <4>1. PICK i \in Nat : Est(acc.texte, v(j), i) /\ ~Est(acc.texte, v(k), i)
          BY <2>2, <3>1 DEF VientDe
        <4>2. j # k
          BY <4>1
        <4>3. j \in 1..(k - 1)
          BY <1>4, <4>2
        <4>. QED
          BY <1>1, <4>1, <4>3 DEF Muet
      <3>. QED
        BY <3>1 DEF Muet
    <2>4. t \in Seq(S)
      <3>1. k \in 1..k
        BY <1>4
      <3>. QED
        BY <2>2, <3>1
    <2>. HIDE DEF t
    <2>5. suite.texte = t /\ suite.n = acc.n + 1 /\ suite.n \in Nat /\ suite.n # 0
      <3>. HIDE DEF suite
      <3>. QED
        BY <1>1, <2>1
    <2>. HIDE DEF suite
    <2>6. Echange(suite, s, subs, S, k)
      BY <2>3, <2>4, <2>5 DEF Echange
    <2>. QED
      BY <2>6 DEF suite
  <1>7. CASE ~Contient(acc.texte, v(k))
    <2>1. suite = acc
      BY <1>7 DEF Echanger
    <2>2. Muet(acc.texte, v(k))
      BY <1>5, <1>7
    <2>3. ASSUME NEW j \in 1..k PROVE Muet(acc.texte, v(j))
      <3>1. j = k \/ j \in 1..(k - 1)
        BY <1>4
      <3>. HIDE DEF v
      <3>. QED
        BY <1>1, <2>2, <3>1
    <2>4. Echange(acc, s, subs, S, k)
      BY <1>1, <2>3 DEF Echange
    <2>. QED
      BY <2>1, <2>4
  <1>. QED
    BY <1>6, <1>7

\* Once every value has had its turn, the paragraph has none.
LEMMA TraiterBon ==
  ASSUME NEW S, Car \subseteq S, NEW O, NEW s \in Seq(S), NEW subs, Surs(subs, S, O)
  PROVE  Echange(TraiterParagraphe(s, subs), s, subs, S, Len(subs))
  <1>. DEFINE l == Len(subs)
              F == CHOOSE f : f = [k \in 0..l |-> LEchange(s, subs, f, k)]
  <1>1. l \in Nat
    BY DEF Surs
  <1>2. TraiterParagraphe(s, subs) = F[l]
    BY DEF TraiterParagraphe, LEchange
  <1>3. F = [k \in 0..l |-> LEchange(s, subs, F, k)]
    <2>. HIDE DEF l
    <2>1. \E f : f = [k \in 0..l |-> LEchange(s, subs, f, k)]
      BY <1>1, EchangesRecursifs DEF EchangesFaits
    <2>. QED
      BY <2>1
  <1>. HIDE DEF F
  <1>4. \A k \in 0..l : F[k] = LEchange(s, subs, F, k)
    <2>. HIDE DEF l
    <2>. QED
      BY <1>3
  <1>. DEFINE Bon(k) == Echange(F[k], s, subs, S, k)
              T == {k \in 0..l : ~Bon(k)}
  <1>5. ASSUME NEW k \in T, \A y \in T : k <= y PROVE FALSE
    <2>0. k \in 0..l /\ ~Bon(k)
      OBVIOUS
    <2>1. CASE k = 0
      <3>1. F[0] = [texte |-> s, n |-> 0]
        <4>1. 0 \in 0..l
          BY <1>1
        <4>. HIDE DEF l
        <4>. QED
          BY <1>4, <4>1 DEF LEchange
      <3>2. Bon(0)
        BY <3>1 DEF Echange
      <3>. QED
        BY <2>0, <2>1, <3>2
    <2>2. CASE k # 0
      <3>1. k \in 1..l /\ k - 1 \in 0..l /\ ~(k <= k - 1)
        BY <1>1, <2>0, <2>2
      <3>2. k - 1 \notin T
        <4>. HIDE DEF T
        <4>. QED
          BY <1>5, <3>1
      <3>3. Bon(k - 1)
        <4>. HIDE DEF Bon
        <4>. QED
          BY <3>1, <3>2
      <3>4. F[k] = Echanger(F[k - 1], subs[k])
        <4>. HIDE DEF l
        <4>. QED
          BY <1>4, <2>0, <2>2 DEF LEchange
      <3>5. Echange(Echanger(F[k - 1], subs[k]), s, subs, S, k)
        BY <3>1, <3>3, UnEchange
      <3>. QED
        BY <2>0, <3>4, <3>5
    <2>. QED
      BY <2>1, <2>2
  <1>6. T = {}
    <2>1. T \in SUBSET Nat
      BY <1>1
    <2>. HIDE DEF T
    <2>. QED
      BY <1>5, <2>1, NatMinimal
  <1>7. Bon(l)
    <2>1. l \in 0..l
      BY <1>1
    <2>. HIDE DEF Bon
    <2>. QED
      BY <1>6, <2>1
  <1>. QED
    BY <1>2, <1>7

\* There is one substitution for each value, and its replacement is the one of an entity
\* that has this value.
UnePourChacune(subs, es, rs, m) ==
  /\ Len(subs) \in Nat
  /\ \A k \in 1..Len(subs) : \E i, j \in 1..m :
       /\ subs[k].valeur = Depouille(es[i].valeur) /\ subs[k].par = rs[j]
       /\ Depouille(es[j].valeur) = Depouille(es[i].valeur)
  /\ \A i \in 1..m : \E k \in 1..Len(subs) : subs[k].valeur = Depouille(es[i].valeur)

LEMMA SubstitutionsBonnes ==
  ASSUME NEW es, NEW m \in Nat, Len(es) = m, DOMAIN es = 1..m, NEW rs,
         \A i \in 1..m : Depouille(es[i].valeur) # <<>>
  PROVE  UnePourChacune(Substitutions(es, rs), es, rs, m)
  <1>. DEFINE valeur(i) == Depouille(es[i].valeur)
              P == {i \in 1..m : valeur(i) # <<>> /\ \A j \in 1..(i - 1) : valeur(j) # valeur(i)}
              premieres == EnOrdre(m, P)
              derniere(i) == CHOOSE j \in 1..m :
                 valeur(j) = valeur(i) /\ \A k \in 1..m : valeur(k) = valeur(i) => k <= j
              subs == [k \in DOMAIN premieres |-> [valeur |-> valeur(premieres[k]),
                                                   par |-> rs[derniere(premieres[k])]]]
  <1>1. Substitutions(es, rs) = subs
    BY DEF Substitutions
  <1>2. /\ premieres \in Seq(P \intersect (1..m))
        /\ \A i \in P \intersect (1..m) : \E k \in DOMAIN premieres : premieres[k] = i
    <2>. HIDE DEF P
    <2>. QED
      BY EnOrdreBon
  <1>. HIDE DEF premieres
  <1>3. Len(premieres) \in Nat /\ DOMAIN premieres = 1..Len(premieres)
        /\ \A k \in 1..Len(premieres) : premieres[k] \in P /\ premieres[k] \in 1..m
    <2>. HIDE DEF P
    <2>. QED
      BY <1>2
  <1>4. ASSUME NEW i \in 1..m PROVE derniere(i) \in 1..m /\ valeur(derniere(i)) = valeur(i)
    <2>. DEFINE T == {k \in 0..m : m - k \in 1..m /\ valeur(m - k) = valeur(i)}
    <2>1. m - i \in T
      <3>1. m - i \in 0..m /\ m - (m - i) = i
        OBVIOUS
      <3>. HIDE DEF valeur
      <3>2. m - (m - i) \in 1..m /\ valeur(m - (m - i)) = valeur(i)
        BY <3>1
      <3>. QED
        BY <3>1, <3>2
    <2>2. PICK t \in T : \A y \in T : t <= y
      <3>. HIDE DEF valeur
      <3>1. T \in SUBSET Nat
        OBVIOUS
      <3>. HIDE DEF T
      <3>. QED
        BY <2>1, <3>1, NatMinimal
    <2>3. m - t \in 1..m /\ valeur(m - t) = valeur(i) /\ t \in 0..m
      OBVIOUS
    <2>4. ASSUME NEW k \in 1..m, valeur(k) = valeur(i) PROVE k <= m - t
      <3>1. m - k \in 0..m /\ m - (m - k) = k
        OBVIOUS
      <3>2. m - k \in T
        BY <2>4, <3>1
      <3>3. t <= m - k
        <4>. HIDE DEF T
        <4>. QED
          BY <2>2, <3>2
      <3>. QED
        BY <2>3, <3>1, <3>3
    <2>5. \E j \in 1..m : valeur(j) = valeur(i) /\ \A k \in 1..m : valeur(k) = valeur(i) => k <= j
      <3>. HIDE DEF valeur
      <3>. QED
        BY <2>3, <2>4
    <2>. HIDE DEF valeur
    <2>. QED
      BY <2>5
  <1>5. Len(subs) = Len(premieres)
    <2>1. DOMAIN subs = 1..Len(premieres)
      BY <1>3
    <2>. HIDE DEF subs
    <2>. QED
      BY <1>3, <2>1
  <1>6. ASSUME NEW k \in 1..Len(subs)
        PROVE  \E i, j \in 1..m : subs[k].valeur = valeur(i) /\ subs[k].par = rs[j]
                                  /\ valeur(j) = valeur(i)
    <2>1. k \in DOMAIN premieres /\ premieres[k] \in 1..m
      BY <1>3, <1>5
    <2>2. subs[k] = [valeur |-> valeur(premieres[k]), par |-> rs[derniere(premieres[k])]]
      BY <2>1
    <2>. HIDE DEF subs, derniere, valeur
    <2>3. subs[k].valeur = valeur(premieres[k]) /\ subs[k].par = rs[derniere(premieres[k])]
      BY <2>2
    <2>. QED
      BY <1>4, <2>1, <2>3
  <1>7. ASSUME NEW i \in 1..m PROVE \E k \in 1..Len(subs) : subs[k].valeur = valeur(i)
    <2>. DEFINE T == {j \in 1..m : valeur(j) = valeur(i)}
    <2>1. PICK p \in T : \A y \in T : p <= y
      <3>1. T \in SUBSET Nat /\ i \in T
        OBVIOUS
      <3>. HIDE DEF T
      <3>. QED
        BY <3>1, NatMinimal
    <2>2. p \in 1..m /\ valeur(p) = valeur(i)
      OBVIOUS
    <2>3. ASSUME NEW j \in 1..(p - 1) PROVE valeur(j) # valeur(p)
      <3>1. j \in 1..m /\ ~(p <= j)
        BY <2>2
      <3>2. j \notin T
        <4>. HIDE DEF T
        <4>. QED
          BY <2>1, <3>1
      <3>. HIDE DEF valeur
      <3>. QED
        BY <2>2, <3>1, <3>2
    <2>4. p \in P
      BY <2>2, <2>3
    <2>5. PICK k \in DOMAIN premieres : premieres[k] = p
      <3>. HIDE DEF P
      <3>. QED
        BY <1>2, <2>2, <2>4
    <2>6. k \in 1..Len(subs) /\ subs[k] = [valeur |-> valeur(p), par |-> rs[derniere(p)]]
      BY <1>3, <1>5, <2>5
    <2>. HIDE DEF subs, derniere, valeur
    <2>7. subs[k].valeur = valeur(p)
      BY <2>6
    <2>. QED
      BY <2>2, <2>6, <2>7
  <1>. HIDE DEF subs
  <1>. QED
    BY <1>1, <1>3, <1>5, <1>6, <1>7 DEF UnePourChacune

\* A paragraph without hyperlink is what the substitutions have left of it.
LEMMA ReecritBon ==
  ASSUME NEW S, NEW s \in Seq(S), NEW subs, NEW l, NEW t, Echange(t, s, subs, S, l),
         NEW v \in Seq(S), Len(v) >= 1, Muet(t.texte, v)
  PROVE  ~Contient(Reecrit(s, 0, t), v)
  <1>. DEFINE u == Reecrit(s, 0, t)
  <1>1. t.texte \in Seq(S) /\ t.n \in Nat /\ (t.n = 0 => t.texte = s)
    BY DEF Echange
  <1>2. Len(s) \in Nat /\ Len(v) \in Nat
    OBVIOUS
  <1>3. u \in Seq(S) /\ Muet(u, v)
    <2>1. CASE t.n = 0
      <3>1. u = t.texte
        BY <1>1, <2>1 DEF Reecrit
      <3>. HIDE DEF u
      <3>. QED
        BY <1>1, <3>1
    <2>2. CASE t.n # 0 /\ Len(s) = 0
      <3>1. u = s
        BY <2>2 DEF Reecrit
      <3>2. \A p \in Nat : ~Est(s, v, p)
        BY <1>2, <2>2 DEF Est
      <3>. HIDE DEF u
      <3>. QED
        BY <3>1, <3>2 DEF Muet
    <2>3. CASE t.n # 0 /\ Len(s) # 0
      <3>1. u = t.texte \o SubSeq(s, Len(s) - 0 + 1, Len(s))
        BY <2>3 DEF Reecrit
      <3>2. SubSeq(s, Len(s) - 0 + 1, Len(s)) = <<>>
        BY <1>2
      <3>3. t.texte \o <<>> = t.texte
        BY <1>1
      <3>. HIDE DEF u
      <3>. QED
        BY <1>1, <3>1, <3>2, <3>3
    <2>. QED
      BY <2>1, <2>2, <2>3
  <1>. HIDE DEF u
  <1>4. Contient(u, v) <=> ~Muet(u, v)
    BY <1>3, ContientEst DEF Muet
  <1>. QED
    BY <1>3, <1>4 DEF u

\* A text without a line feed is one line.
LEMMA UneLigne ==
  ASSUME NEW s \in Seq(Car), "lf" \notin Range(s), NEW u \in LignesDe(s)
  PROVE  u = s
  <1>. DEFINE coupes == {0, Len(s) + 1} \union {k \in DOMAIN s : s[k] = "lf"}
  <1>1. coupes = {0, Len(s) + 1} /\ Len(s) \in Nat
    BY DEF Range
  <1>2. PICK c \in coupes \X coupes : c[1] + 1 < c[2] /\ u = SubSeq(s, c[1] + 1, c[2] - 1)
    BY DEF LignesDe
  <1>3. c[1] = 0 /\ c[2] = Len(s) + 1
    <2>1. c[1] \in {0, Len(s) + 1} /\ c[2] \in {0, Len(s) + 1}
      BY <1>1
    <2>. QED
      BY <1>1, <1>2, <2>1
  <1>4. u = SubSeq(s, 1, Len(s))
    BY <1>1, <1>2, <1>3
  <1>. QED
    BY <1>4

\* In a DOCX no paragraph has a value any more.
LEMMA DocxIllisible ==
  ASSUME NEW q, Protege(q), deviner_type(q.document) = "docx",
         Protegeable(q.document, q.extrait, q.entites), NEW i \in DOMAIN q.entites
  PROVE  ~Lisible(q, q.extrait, i)
  <1>. DEFINE d == q.document
              x == q.extrait
              es == q.entites
              rendu == q.rendu
              m == Len(es)
              w(j) == es[j].valeur
              O == Signes(es)
              S == Car \union O
              rs == RemplacementDe(q.action, es)
              subs == Substitutions(es, rs)
  <1>1. /\ DocumentPossible(d) /\ x = extraire(d) /\ Detectees(x, es)
        /\ rendu = appliquer(d, x, es, rs)
        /\ deviner_type(d) = "docx" /\ Protegeable(d, x, es)
        /\ d = q.document /\ x = q.extrait /\ es = q.entites /\ rendu = q.rendu
        /\ i \in DOMAIN es
    BY DEF Protege
  <1>. HIDE DEF d, x, es, rendu
  <1>2. /\ ResultatBon(x) /\ m \in Nat /\ Len(es) = m /\ DOMAIN es = 1..m
        /\ \A j \in 1..m : Detectee(x, es[j])
    BY <1>1, ExtraireBon DEF Detectees
  <1>3. x.methode # "ocr" /\ x.methode # "pdf"
    <2>1. x.methode \in {"aucune", "erreur", "docx"}
      BY <1>1, MethodeDe
    <2>. QED
      BY <2>1
  <1>4. /\ \A k \in DOMAIN d.couches : d.liens[k] = 0
        /\ \A j \in DOMAIN es : /\ Marquante(Depouille(es[j].valeur), es)
                               /\ SourceDe(x, es[j]) = Depouille(es[j].valeur)
                               /\ "lf" \notin Range(Depouille(es[j].valeur))
        /\ \A j, k \in DOMAIN es : Depouille(es[j].valeur) # Depouille(es[k].valeur) =>
             ~Contient(Depouille(es[j].valeur), Depouille(es[k].valeur))
    BY <1>1, <1>3 DEF Protegeable
  <1>5. ASSUME NEW j \in 1..m
        PROVE  Depouille(w(j)) = w(j) /\ w(j) \in Seq(Car) /\ Len(w(j)) >= 1
    BY <1>2, <1>3, ValeurEntiere
  <1>. HIDE DEF m, O
  <1>6. ASSUME NEW j \in 1..m PROVE Nette(w(j), O)
    <2>. DEFINE v == w(j)
    <2>1. Depouille(v) = v /\ v \in Seq(Car) /\ Len(v) >= 1
      BY <1>5
    <2>2. Marquante(v, es)
      BY <1>2, <1>4, <2>1
    <2>. HIDE DEF v
    <2>3. v[Len(v)] \in Alphanumeriques /\ Range(v) \intersect O = {}
      BY <2>2 DEF Marquante, O
    <2>4. ASSUME NEW k \in 1..Len(v) PROVE v[k] \notin O
      <3>1. k \in DOMAIN v
        BY <2>1
      <3>2. v[k] \in Range(v)
        BY <3>1 DEF Range
      <3>. QED
        BY <2>3, <3>2
    <2>5. Nette(v, O)
      BY <2>1, <2>3, <2>4 DEF Nette, Sans
    <2>. QED
      BY <2>5 DEF v
  <1>7. ASSUME NEW j \in 1..m, NEW k \in 1..m, w(k) # w(j) PROVE Muet(w(j), w(k))
    <2>1. ~Contient(w(j), w(k))
      BY <1>2, <1>4, <1>5, <1>7
    <2>2. w(j) \in Seq(Car) /\ w(k) \in Seq(Car)
      BY <1>5
    <2>. HIDE DEF w
    <2>. QED
      BY <2>1, <2>2, ContientEst DEF Muet
  <1>8. /\ PUCE \in O /\ O \subseteq S /\ Car \subseteq S
        /\ \A j \in 1..m : Range(jeton(es[j].valeur, es[j].type)) \subseteq O
    <2>1. PUCE \in Signes(es)
      BY DEF Signes
    <2>2. \A j \in 1..m : Range(jeton(es[j].valeur, es[j].type)) \subseteq Signes(es)
      BY <1>2, Zenon DEF Signes
    <2>. QED
      BY <2>1, <2>2 DEF O
  <1>9. ASSUME NEW j \in 1..m
        PROVE  /\ Cachet(rs[j], w(j), S, O)
               /\ \A u : Nette(u, O) /\ (u # w(j) => Muet(w(j), u)) => Muet(rs[j], u)
    <2>1. rs[j] = Remplacement(q.action, es[j])
      BY <1>2 DEF RemplacementDe
    <2>2. Nette(w(j), O)
      BY <1>6
    <2>3. CASE q.action = "masque"
      <3>1. rs[j] = masquer_valeur(w(j), es[j].type)
        BY <2>1, <2>3 DEF Remplacement
      <3>. HIDE DEF w, S, rs
      <3>. QED
        BY <1>8, <2>2, <3>1, MasqueBon
    <2>4. CASE q.action # "masque"
      <3>1. rs[j] = jeton(w(j), es[j].type)
        BY <2>1, <2>4 DEF Remplacement
      <3>2. Range(jeton(w(j), es[j].type)) \subseteq O
        BY <1>8
      <3>. HIDE DEF w, S, rs
      <3>. QED
        BY <1>8, <3>1, <3>2, JetonBon
    <2>. QED
      BY <2>3, <2>4
  <1>. HIDE DEF rs, S
  <1>10. /\ Len(subs) \in Nat
         /\ \A k \in 1..Len(subs) : \E j, l \in 1..m :
              subs[k].valeur = w(j) /\ subs[k].par = rs[l] /\ w(l) = w(j)
         /\ \A j \in 1..m : \E k \in 1..Len(subs) : subs[k].valeur = w(j)
    <2>1. \A j \in 1..m : Depouille(es[j].valeur) # <<>>
      BY <1>5
    <2>2. UnePourChacune(subs, es, rs, m)
      <3>. HIDE DEF w
      <3>. QED
        BY <1>2, <2>1, SubstitutionsBonnes
    <2>3. ASSUME NEW k \in 1..Len(subs)
          PROVE  \E j, l \in 1..m : subs[k].valeur = w(j) /\ subs[k].par = rs[l] /\ w(l) = w(j)
      <3>1. PICK j \in 1..m, l \in 1..m :
              /\ subs[k].valeur = Depouille(es[j].valeur) /\ subs[k].par = rs[l]
              /\ Depouille(es[l].valeur) = Depouille(es[j].valeur)
        BY <2>2 DEF UnePourChacune
      <3>2. Depouille(es[j].valeur) = w(j) /\ Depouille(es[l].valeur) = w(l)
        BY <1>5
      <3>. HIDE DEF subs, w
      <3>. QED
        BY <3>1, <3>2
    <2>4. ASSUME NEW j \in 1..m PROVE \E k \in 1..Len(subs) : subs[k].valeur = w(j)
      <3>1. Depouille(es[j].valeur) = w(j)
        BY <1>5
      <3>. HIDE DEF subs, w
      <3>. QED
        BY <2>2, <3>1 DEF UnePourChacune
    <2>. QED
      BY <2>2, <2>3, <2>4 DEF UnePourChacune
  <1>. HIDE DEF subs, w
  <1>11. Surs(subs, S, O)
    <2>1. ASSUME NEW k \in 1..Len(subs)
          PROVE  Nette(subs[k].valeur, O) /\ Cachet(subs[k].par, subs[k].valeur, S, O)
      <3>1. PICK j \in 1..m, l \in 1..m :
              subs[k].valeur = w(j) /\ subs[k].par = rs[l] /\ w(l) = w(j)
        BY <1>10
      <3>. QED
        BY <1>6, <1>9, <3>1
    <2>2. ASSUME NEW j \in 1..Len(subs), NEW k \in 1..Len(subs)
          PROVE  Muet(subs[k].par, subs[j].valeur)
      <3>1. PICK a \in 1..m : subs[j].valeur = w(a)
        BY <1>10
      <3>2. PICK l \in 1..m : subs[k].par = rs[l]
        BY <1>10
      <3>3. Nette(w(a), O) /\ (w(a) # w(l) => Muet(w(l), w(a)))
        BY <1>6, <1>7
      <3>. QED
        BY <1>9, <3>1, <3>2, <3>3
    <2>. QED
      BY <1>10, <2>1, <2>2 DEF Surs
  <1>12. ASSUME NEW k \in DOMAIN d.couches
         PROVE  ~Contient(Reecrit(d.couches[k], d.liens[k], TraiterParagraphe(d.couches[k], subs)),
                          w(i))
    <2>. DEFINE s == d.couches[k]
                t == TraiterParagraphe(s, subs)
    <2>1. s \in Seq(Car)
      <3>1. d.couches \in Seq(Seq(Car))
        BY <1>1, DeCaracteres
      <3>. QED
        BY <3>1
    <2>2. s \in Seq(S) /\ i \in 1..m
      <3>1. Seq(Car) \subseteq Seq(S)
        BY <1>8, SousSuites
      <3>. QED
        BY <1>1, <1>2, <2>1, <3>1
    <2>. HIDE DEF s
    <2>3. Echange(t, s, subs, S, Len(subs))
      BY <1>8, <1>11, <2>2, TraiterBon
    <2>4. PICK j \in 1..Len(subs) : subs[j].valeur = w(i)
      BY <1>10, <2>2
    <2>. HIDE DEF t
    <2>5. Muet(t.texte, w(i))
      BY <2>3, <2>4 DEF Echange
    <2>6. w(i) \in Seq(S) /\ Len(w(i)) >= 1
      <3>1. Seq(Car) \subseteq Seq(S)
        BY <1>8, SousSuites
      <3>. QED
        BY <1>5, <2>2, <3>1
    <2>7. ~Contient(Reecrit(s, 0, t), w(i))
      BY <2>2, <2>3, <2>5, <2>6, ReecritBon
    <2>. QED
      BY <1>4, <2>7 DEF s, t
  <1>13. rendu.paragraphes = [k \in DOMAIN d.couches |->
           Reecrit(d.couches[k], d.liens[k], TraiterParagraphe(d.couches[k], subs))]
    <2>1. es # <<>>
      BY <1>1, <1>2
    <2>2. rendu = AppliquerDocx(d, es, rs)
      BY <1>1, <2>1 DEF appliquer
    <2>3. AppliquerDocx(d, es, rs).paragraphes = [k \in DOMAIN d.couches |->
            Reecrit(d.couches[k], d.liens[k], TraiterParagraphe(d.couches[k], subs))]
      BY DEF AppliquerDocx, Rendu, subs
    <2>. QED
      BY <2>2, <2>3
  <1>14. Lisible(q, x, i) <=> \E k \in DOMAIN d.couches :
          \E u \in LignesDe(SourceDe(x, es[i])) : Contient(rendu.paragraphes[k], u)
    BY <1>1, <1>3 DEF Lisible
  <1>15. Depouille(es[i].valeur) = w(i)
    BY <1>1, <1>2, <1>5 DEF w
  <1>16. \A k \in DOMAIN d.couches : ~Contient(rendu.paragraphes[k], w(i))
    BY <1>12, <1>13
  <1>17. \A u \in LignesDe(SourceDe(x, es[i])) : u = w(i)
    <2>1. SourceDe(x, es[i]) = w(i) /\ "lf" \notin Range(w(i))
      BY <1>1, <1>4, <1>15
    <2>2. i \in 1..m
      BY <1>1, <1>2
    <2>3. w(i) \in Seq(Car)
      BY <1>5, <2>2
    <2>. QED
      BY <2>1, <2>3, UneLigne
  <1>. QED
    BY <1>14, <1>16, <1>17 DEF x
\* What an entity is read at is protected whatever the way the document was read: the text
\* by the pieces, the layer of a PDF by what search_for finds, a scan and an image by boxes,
\* a DOCX by the text of the values.
LEMMA ServieIllisible ==
  ASSUME NEW q, Protege(q),
         Protegeable(q.document, q.extrait, q.entites), NEW i \in DOMAIN q.entites
  PROVE  ~Lisible(q, q.extrait, i)
  <1>1. DocumentPossible(q.document) /\ q.extrait = extraire(q.document)
        /\ Detectees(q.extrait, q.entites)
    BY DEF Protege
  <1>2. q.extrait.brut # <<>>
    <2>1. ResultatBon(q.extrait) /\ Detectee(q.extrait, q.entites[i])
      BY <1>1, ExtraireBon DEF Detectees
    <2>. QED
      BY <2>1, QuelqueChose
  <1>3. q.extrait.methode \notin {"aucune", "erreur"}
    BY <1>1, <1>2, MethodeDe
  <1>4. deviner_type(q.document) = "image" => q.extrait.methode \in {"aucune", "erreur", "ocr"}
    BY <1>1, MethodeDe
  <1>5. deviner_type(q.document) = "pdf" => q.extrait.methode \in {"aucune", "pdf", "ocr"}
    BY <1>1, MethodeDe
  <1>6. deviner_type(q.document) \in {"texte", "docx", "image", "pdf"}
    BY <1>1, TypeDevine
  <1>7. CASE deviner_type(q.document) = "texte"
    BY <1>7, TexteIllisible
  <1>8. CASE q.extrait.methode = "ocr" /\ deviner_type(q.document) \in {"image", "pdf"}
    BY <1>8, OcrIllisible
  <1>9. CASE q.extrait.methode = "pdf" /\ deviner_type(q.document) = "pdf"
    BY <1>9, PdfIllisible
  <1>10. CASE deviner_type(q.document) = "docx"
    BY <1>10, DocxIllisible
  <1>. QED
    BY <1>3, <1>4, <1>5, <1>6, <1>7, <1>8, <1>9, <1>10

-------------------------------------------------------------------------------
(* The properties *)

\* A finished request has no token left to keep, and no two rows of the table of
\* pseudonyms share a fingerprint or a token, whatever requests run at once.
THEOREM TypesProtection == Spec => []TypeOK
  <1>1. IInv => TypeOK
    <2>. SUFFICES ASSUME IInv PROVE TypeOK
      OBVIOUS
    <2>1. ASSUME NEW r \in Requetes
          PROVE  /\ requetes[r].etape \in {"repos", "enregistre", "insere", "servi", "erreur"}
                 /\ requetes[r].etape = "servi" => requetes[r].liens = <<>>
      <3>1. Suivi(requetes[r], cle, pseudonymes)
        BY DEF IInv
      <3>. QED
        BY <3>1 DEF Suivi, Repos
    <2>. QED
      BY <2>1 DEF IInv, TypeOK, Table, Servie
  <1>. QED
    BY Invariant, <1>1, PTL

\* What is served is the protection of a document of this configuration.
LEMMA ServieProtegee ==
  ASSUME IInv, NEW r \in Requetes, Servie(r)
  PROVE  Protege(requetes[r])
  <1>1. Suivi(requetes[r], cle, pseudonymes) /\ requetes[r] # Repos
    BY DEF IInv, Servie, Repos
  <1>. QED
    BY <1>1 DEF Suivi

\* Substitution by offsets, from the last entity to the first, moves nothing: for any text
\* and any entities, overlapping or not, what is served is the source character by character
\* with one replacement where each entity replaced was, an entity is left only when it has
\* no place in the source or meets one that is replaced, and the count is the right one.
THEOREM TexteSubstitueToujours == Spec => []TexteSubstitue
  <1>1. IInv => TexteSubstitue
    <2>. SUFFICES ASSUME IInv, NEW r \in Requetes, Servie(r),
                         deviner_type(requetes[r].document) = "texte"
                  PROVE  TexteBon(requetes[r].extrait, requetes[r].entites, requetes[r].rendu)
      BY Zenon DEF TexteSubstitue, TexteBon
    <2>. DEFINE q == requetes[r]
                x == q.extrait
                es == q.entites
    <2>1. Protege(q)
      BY ServieProtegee
    <2>2. deviner_type(q.document) = "texte"
      OBVIOUS
    <2>. HIDE DEF q
    <2>3. ResultatBon(x) /\ Detectees(x, es)
          /\ q.rendu = appliquer(q.document, x, es, RemplacementDe(q.action, es))
      BY <2>1, ExtraireBon DEF Protege
    <2>. HIDE DEF x, es
    <2>. DEFINE m == Len(es)
    <2>4. m \in Nat /\ DOMAIN es = 1..m /\ Len(es) = m
          /\ \A i \in 1..m : Detectee(x, es[i])
      BY <2>3 DEF Detectees
    <2>. HIDE DEF m
    <2>5. TexteBon(x, es, appliquer(q.document, x, es, RemplacementDe(q.action, es)))
      BY <2>2, <2>3, <2>4, TexteBonProtege
    <2>. QED
      BY <2>3, <2>5 DEF q, x, es
  <1>. QED
    BY Invariant, <1>1, PTL

\* A protected document no longer shows a value: where it was found in a text, a PDF, a scan
\* or an image, anywhere in a DOCX, outside the cases the code does not protect, for any
\* document, any entities found in it, any suffixes and any order of the requests.
THEOREM RienDeLisibleToujours == Spec => []RienDeLisible
  <1>1. IInv => RienDeLisible
    <2>. SUFFICES ASSUME IInv, NEW r \in Requetes, Servie(r),
                         Protegeable(requetes[r].document, requetes[r].extrait, requetes[r].entites),
                         NEW i \in DOMAIN requetes[r].entites
                  PROVE  ~Lisible(requetes[r], requetes[r].extrait, i)
      BY Zenon DEF RienDeLisible
    <2>1. Protege(requetes[r])
      BY ServieProtegee
    <2>. QED
      BY <2>1, ServieIllisible
  <1>. QED
    BY Invariant, <1>1, PTL

\* A request never ends on a duplicate because of a value kept before: the token it could
\* not keep is the one of another value, or another request has inserted the same row
\* between its search and its insertion, whatever queries fail and answers are lost.
THEOREM EchecParCollisionSeule == Spec => []EchecParCollision
  <1>1. IInv => EchecParCollision
    BY DEF IInv
  <1>. QED
    BY Invariant, <1>1, PTL

\* With a key, the token of every value a served document shows is in the table, with that
\* value unless the value has a row under another token or shares its token with another
\* value of the document: nothing is served whose token was not kept first.
THEOREM JetonsResolusToujours == Spec => []JetonsResolus
  <1>1. IInv => JetonsResolus
    <2>. SUFFICES ASSUME IInv, NEW r \in Requetes, Servie(r),
                         requetes[r].action = "pseudonymise", cle = "valide",
                         NEW k \in Range(requetes[r].rendu.remplaces)
                  PROVE  LET q == requetes[r]
                             lien(i) == Rangee(correspondance(q.entites[i].valeur,
                                                              q.entites[i].type, cle))
                         IN \/ lien(k) \in pseudonymes
                            \/ \E rangee \in pseudonymes :
                                 /\ rangee.empreinte = lien(k).empreinte
                                 /\ rangee.jeton # lien(k).jeton
                            \/ \E j \in Range(q.rendu.remplaces) :
                                 /\ lien(j).jeton = lien(k).jeton
                                 /\ lien(j).empreinte # lien(k).empreinte
      BY DEF JetonsResolus
    <2>. DEFINE q == requetes[r]
                lien(i) == Rangee(correspondance(q.entites[i].valeur, q.entites[i].type, cle))
    <2>1. Suivi(q, cle, pseudonymes) /\ q # Repos /\ q.etape = "servi"
          /\ q.action = "pseudonymise"
      BY DEF IInv, Repos, Servie
    <2>2. Range(q.rendu.remplaces) = Remplaces(q)
      BY DEF Range, Remplaces
    <2>3. ASSUME NEW i
          PROVE  /\ lien(i).jeton = LienDe(q, i, cle).jeton
                 /\ lien(i).empreinte = empreinte(Entite(q, i).valeur)
                 /\ lien(i) = [empreinte |-> lien(i).empreinte, jeton |-> lien(i).jeton]
      <3>. HIDE DEF q
      <3>. QED
        BY DEF Rangee, LienDe, correspondance, Entite
    <2>. HIDE DEF q, lien
    <2>4. k \in Remplaces(q)
      BY <2>2 DEF q
    <2>5. Restants(q) = {}
      BY <2>1 DEF Suivi, Restants, Elements
    <2>6. PICK j \in Remplaces(q) : /\ LienDe(q, j, cle).jeton = LienDe(q, k, cle).jeton
                                    /\ Gardee(q, j, pseudonymes)
      BY <2>1, <2>4, <2>5 DEF Suivi
    <2>7. PICK rangee \in pseudonymes : rangee.empreinte = lien(j).empreinte
      BY <2>3, <2>6 DEF Gardee
    <2>8. lien(j).jeton = lien(k).jeton
      BY <2>3, <2>6
    <2>9. rangee = [empreinte |-> rangee.empreinte, jeton |-> rangee.jeton]
      BY DEF IInv, Table
    <2>10. \/ lien(k) \in pseudonymes
           \/ \E a \in pseudonymes : a.empreinte = lien(k).empreinte /\ a.jeton # lien(k).jeton
           \/ \E i \in Remplaces(q) :
                lien(i).jeton = lien(k).jeton /\ lien(i).empreinte # lien(k).empreinte
      <3>1. CASE lien(j).empreinte # lien(k).empreinte
        BY <2>8, <3>1
      <3>2. CASE lien(j).empreinte = lien(k).empreinte /\ rangee.jeton # lien(k).jeton
        BY <2>7, <3>2
      <3>3. CASE lien(j).empreinte = lien(k).empreinte /\ rangee.jeton = lien(k).jeton
        <4>1. rangee = lien(k)
          BY <2>3, <2>7, <2>9, <3>3
        <4>. QED
          BY <4>1
      <3>. QED
        BY <3>1, <3>2, <3>3
    <2>. QED
      BY <2>2, <2>10 DEF q, lien
  <1>. QED
    BY Invariant, <1>1, PTL

===============================================================================
