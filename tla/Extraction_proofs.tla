---------------------------- MODULE Extraction_proofs ----------------------------
(***************************************************************************)
(* Lemmas about the operators of Normalisation and Extraction, for any     *)
(* text, any pages and any words; the proofs about the reading and about   *)
(* the protection of documents rest on them.                               *)
(*                                                                         *)
(* The argument.  The source is cut into blocks: runs of blanks, clusters  *)
(* of a character and its marks.  Each is normalised alone and the working *)
(* text is made of their texts, put end to end (Decoupe): the table gives  *)
(* to each character the beginning of its block, so it never decreases     *)
(* (NormaliserBon) and the binary search on it finds what it should        *)
(* (PremierePositionBonne), hence the pages.  What a block becomes does    *)
(* not depend on what is around it (BlocDansFenetre), so a slice of the    *)
(* source cut between blocks is normalised into the matching slice of the  *)
(* text (TrancheFidele).  The words of a page are put end to end with one  *)
(* blank between two, and the pages with blank lines: a box in the raw     *)
(* text begins and ends where a block does (BoiteBrute), so both ends are  *)
(* in the table (BoutsDeBoite) and bringing the box to the working text    *)
(* loses nothing (BoiteTraduite).                                          *)
(***************************************************************************)
EXTENDS Extraction, FiniteSetTheorems, WellFoundedInduction, TLAPS

-----------------------------------------------------------------------------
(* What stands for induction: the least and the greatest element of a set  *)
(* of numbers (a smallest counterexample).                                 *)

(* A set of natural numbers has a least element.                           *)
LEMMA NatMinimal ==
  ASSUME NEW T \in SUBSET Nat, T # {}
  PROVE  \E t \in T : \A y \in T : t <= y
  <1>1. PICK t \in T : \A y \in T : ~ (<<y, t>> \in OpToRel(<, Nat))
    BY NatLessThanWellFounded, WFMin
  <1>2. ASSUME NEW y \in T, ~ (t <= y) PROVE FALSE
    <2>1. y < t /\ <<y, t>> \in Nat \X Nat
      BY <1>2
    <2>2. <<y, t>> \in OpToRel(<, Nat)
      BY <2>1 DEF OpToRel
    <2>. QED
      BY <1>1, <2>2
  <1>. QED
    BY <1>2

-------------------------------------------------------------------------------
(* EnOrdre *)

(* Its function exists: one turn more can always be defined.               *)
LEMMA EnOrdreRecursif ==
  ASSUME NEW n \in Nat, NEW P
  PROVE  \E f : /\ f = [i \in 0..n |->
                         IF i = 0 THEN <<>>
                         ELSE IF i \in P THEN Append(f[i - 1], i) ELSE f[i - 1]]
                /\ EnOrdre(n, P) = f[n]
  <1>. DEFINE Tour(f, i) == IF i = 0 THEN <<>>
                            ELSE IF i \in P THEN Append(f[i - 1], i) ELSE f[i - 1]
              Existe(m) == \E f : f = [i \in 0..m |-> Tour(f, i)]
              T == {m \in Nat : ~Existe(m)}
  <1>1. ASSUME NEW m \in T, \A y \in T : m <= y PROVE FALSE
    <2>1. CASE m = 0
      <3>1. Existe(0)
        <4>. DEFINE f == [i \in 0..0 |-> <<>>]
        <4>1. f = [i \in 0..0 |-> Tour(f, i)]
          OBVIOUS
        <4>. QED
          BY <4>1
      <3>. QED
        BY <2>1, <3>1
    <2>2. CASE m # 0
      <3>1. m - 1 \in Nat /\ m - 1 \notin T
        <4>1. m \in Nat
          OBVIOUS
        <4>. HIDE DEF T
        <4>. QED
          BY <1>1, <2>2, <4>1
      <3>2. PICK g : g = [i \in 0..(m - 1) |-> Tour(g, i)]
        BY <3>1
      <3>. DEFINE f == [i \in 0..m |-> IF i < m THEN g[i] ELSE Tour(g, m)]
      <3>3. \A i \in 0..m : f[i] = Tour(f, i)
        <4>1. ASSUME NEW i \in 0..m PROVE f[i] = Tour(f, i)
          <5>1. i # 0 => i - 1 \in 0..(m - 1) /\ f[i - 1] = g[i - 1]
            OBVIOUS
          <5>2. Tour(f, i) = Tour(g, i)
            BY <5>1
          <5>3. f[i] = Tour(g, i)
            <6>1. i < m => g[i] = Tour(g, i)
              <7>1. i < m => i \in 0..(m - 1)
                OBVIOUS
              <7>. HIDE DEF Tour
              <7>2. \A k \in 0..(m - 1) : g[k] = Tour(g, k)
                BY <3>2
              <7>. QED
                BY <7>1, <7>2
            <6>2. ~(i < m) => i = m
              OBVIOUS
            <6>. HIDE DEF Tour
            <6>. QED
              BY <6>1, <6>2
          <5>. QED
            BY <5>2, <5>3
        <4>. QED
          BY <4>1
      <3>4. f = [i \in 0..m |-> Tour(f, i)]
        <4>. HIDE DEF Tour
        <4>1. f = [i \in 0..m |-> f[i]]
          OBVIOUS
        <4>. HIDE DEF f
        <4>. QED
          BY <3>3, <4>1
      <3>5. Existe(m)
        <4>. HIDE DEF f, Tour
        <4>. QED
          BY <3>4
      <3>. QED
        BY <3>5
    <2>. QED
      BY <2>1, <2>2
  <1>2. T = {}
    <2>1. T \in SUBSET Nat
      OBVIOUS
    <2>. HIDE DEF T
    <2>. QED
      BY <1>1, <2>1, NatMinimal
  <1>3. \E f : f = [i \in 0..n |-> Tour(f, i)]
    BY <1>2
  <1>. DEFINE F == CHOOSE f : f = [i \in 0..n |-> Tour(f, i)]
  <1>4. F = [i \in 0..n |-> Tour(F, i)]
    <2>. HIDE DEF Tour
    <2>. QED
      BY <1>3
  <1>5. EnOrdre(n, P) = F[n]
    BY DEF EnOrdre
  <1>. HIDE DEF F
  <1>. QED
    BY <1>4, <1>5

(* It lists the members of P, each once, from the least to the greatest.   *)
LEMMA EnOrdreBon ==
  ASSUME NEW n \in Nat, NEW P
  PROVE  /\ EnOrdre(n, P) \in Seq(P \intersect (1..n))
         /\ \A j, k \in DOMAIN EnOrdre(n, P) : j < k => EnOrdre(n, P)[j] < EnOrdre(n, P)[k]
         /\ \A i \in P \intersect (1..n) : \E k \in DOMAIN EnOrdre(n, P) : EnOrdre(n, P)[k] = i
         /\ Len(EnOrdre(n, P)) <= n
         /\ (\E i \in 1..n : i \notin P) => Len(EnOrdre(n, P)) < n
         /\ (\A i \in 1..n : i \in P) => EnOrdre(n, P) = [i \in 1..n |-> i]
  <1>1. PICK F : /\ F = [i \in 0..n |->
                          IF i = 0 THEN <<>>
                          ELSE IF i \in P THEN Append(F[i - 1], i) ELSE F[i - 1]]
                 /\ EnOrdre(n, P) = F[n]
    BY EnOrdreRecursif
  <1>. DEFINE Bon(s, m) ==
                /\ s \in Seq(P \intersect (1..m))
                /\ \A j, k \in DOMAIN s : j < k => s[j] < s[k]
                /\ \A i \in P \intersect (1..m) : \E k \in DOMAIN s : s[k] = i
                /\ Len(s) <= m
                /\ (\E i \in 1..m : i \notin P) => Len(s) < m
                /\ (\A i \in 1..m : i \in P) => s = [i \in 1..m |-> i]
              T == {m \in 0..n : ~Bon(F[m], m)}
  <1>2. /\ F[0] = <<>>
        /\ \A i \in 1..n : F[i] = IF i \in P THEN Append(F[i - 1], i) ELSE F[i - 1]
    <2>1. \A i \in 0..n : F[i] = IF i = 0 THEN <<>>
                                ELSE IF i \in P THEN Append(F[i - 1], i) ELSE F[i - 1]
      BY <1>1
    <2>2. 0 \in 0..n /\ \A i \in 1..n : i \in 0..n /\ i # 0
      OBVIOUS
    <2>. QED
      BY <2>1, <2>2
  <1>3. Bon(F[0], 0)
    BY <1>2
  <1>4. ASSUME NEW m \in 1..n, Bon(F[m - 1], m - 1) PROVE Bon(F[m], m)
    <2>. DEFINE s == F[m - 1]
    <2>1. /\ s \in Seq(P \intersect (1..(m - 1))) /\ m - 1 \in Nat
          /\ \A k \in DOMAIN s : s[k] \in P /\ s[k] \in 1..(m - 1)
          /\ DOMAIN s = 1..Len(s) /\ Len(s) \in Nat /\ Len(s) <= m - 1
      BY <1>4
    <2>2. CASE m \in P
      <3>. DEFINE t == Append(s, m)
      <3>1. F[m] = t
        BY <1>2, <2>2
      <3>2. s \in Seq(P \intersect (1..m))
        BY <2>1
      <3>3. /\ t \in Seq(P \intersect (1..m)) /\ Len(t) = Len(s) + 1
            /\ DOMAIN t = 1..(Len(s) + 1)
            /\ t[Len(s) + 1] = m /\ \A k \in 1..Len(s) : t[k] = s[k]
        BY <2>2, <3>2
      <3>. HIDE DEF s, t
      <3>4. \A j, k \in DOMAIN t : j < k => t[j] < t[k]
        <4>1. ASSUME NEW j \in DOMAIN t, NEW k \in DOMAIN t, j < k PROVE t[j] < t[k]
          <5>1. j \in 1..Len(s) /\ t[j] = s[j] /\ s[j] \in 1..(m - 1)
            BY <2>1, <3>3, <4>1
          <5>2. CASE k = Len(s) + 1
            BY <3>3, <5>1, <5>2
          <5>3. CASE k # Len(s) + 1
            <6>1. k \in 1..Len(s) /\ t[k] = s[k]
              BY <2>1, <3>3, <5>3
            <6>. QED
              BY <1>4, <2>1, <4>1, <5>1, <6>1 DEF s
          <5>. QED
            BY <5>2, <5>3
        <4>. QED
          BY <4>1
      <3>5. \A i \in P \intersect (1..m) : \E k \in DOMAIN t : t[k] = i
        <4>1. ASSUME NEW i \in P \intersect (1..m), i # m PROVE \E k \in DOMAIN t : t[k] = i
          <5>1. PICK k \in DOMAIN s : s[k] = i
            BY <1>4, <4>1 DEF s
          <5>. QED
            BY <2>1, <3>3, <5>1
        <4>. QED
          BY <2>1, <3>3, <4>1
      <3>6. (\E i \in 1..m : i \notin P) => Len(t) < m
        <4>1. ASSUME NEW i \in 1..m, i \notin P PROVE Len(s) < m - 1
          BY <1>4, <2>2, <4>1 DEF s
        <4>. QED
          BY <2>1, <3>3, <4>1
      <3>7. (\A i \in 1..m : i \in P) => t = [i \in 1..m |-> i]
        <4>1. ASSUME \A i \in 1..m : i \in P PROVE t = [i \in 1..m |-> i]
          <5>1. s = [i \in 1..(m - 1) |-> i]
            BY <1>4, <4>1 DEF s
          <5>2. Len(s) = m - 1
            BY <2>1, <5>1
          <5>3. DOMAIN t = 1..m /\ \A k \in 1..m : t[k] = k
            BY <2>1, <3>3, <5>1, <5>2
          <5>. QED
            BY <3>3, <5>3
        <4>. QED
          BY <4>1
      <3>8. Bon(t, m)
        BY <2>1, <3>3, <3>4, <3>5, <3>6, <3>7
      <3>. HIDE DEF Bon
      <3>. QED
        BY <3>1, <3>8
    <2>3. CASE m \notin P
      <3>1. F[m] = s
        BY <1>2, <2>3
      <3>2. P \intersect (1..m) = P \intersect (1..(m - 1))
        BY <2>3
      <3>3. /\ s \in Seq(P \intersect (1..m))
            /\ \A j, k \in DOMAIN s : j < k => s[j] < s[k]
            /\ \A i \in P \intersect (1..m) : \E k \in DOMAIN s : s[k] = i
        BY <1>4, <3>2
      <3>4. m \in 1..m /\ Len(s) < m /\ Len(s) <= m
        BY <2>1
      <3>5. (\A i \in 1..m : i \in P) => s = [i \in 1..m |-> i]
        <4>1. ~ \A i \in 1..m : i \in P
          BY <2>3, <3>4
        <4>. QED
          BY <4>1
      <3>. HIDE DEF s
      <3>6. Bon(s, m)
        BY <3>3, <3>4, <3>5
      <3>. HIDE DEF Bon
      <3>. QED
        BY <3>1, <3>6
    <2>. QED
      BY <2>2, <2>3
  <1>5. T = {}
    <2>1. SUFFICES ASSUME T # {} PROVE FALSE
      OBVIOUS
    <2>2. PICK m \in T : \A y \in T : m <= y
      <3>1. T \in SUBSET Nat
        OBVIOUS
      <3>. HIDE DEF T
      <3>. QED
        BY <2>1, <3>1, NatMinimal
    <2>3. m \in 0..n /\ ~Bon(F[m], m)
      OBVIOUS
    <2>4. CASE m = 0
      BY <1>3, <2>3, <2>4
    <2>5. CASE m # 0
      <3>1. m \in 1..n /\ m - 1 \in 0..n /\ ~ (m <= m - 1)
        BY <2>3, <2>5
      <3>2. m - 1 \notin T
        <4>. HIDE DEF T
        <4>. QED
          BY <2>2, <3>1
      <3>3. Bon(F[m - 1], m - 1)
        <4>. HIDE DEF Bon
        <4>. QED
          BY <3>1, <3>2
      <3>. HIDE DEF Bon, T
      <3>. QED
        BY <1>4, <2>3, <3>1, <3>3
    <2>. QED
      BY <2>4, <2>5
  <1>6. Bon(F[n], n)
    <2>. HIDE DEF Bon
    <2>. QED
      BY <1>5
  <1>. QED
    BY <1>1, <1>6

\* The characters of a text: the provers do not know that the strings normaliser
\* writes are in STRING.
Car == STRING \union {"f", "i", "'", "a^", " ", "lf"}

-----------------------------------------------------------------------------
(* Sequences put end to end *)

\* The lengths and domains of a sequence of sequences.
LEMMA SuitesDeSuites ==
  ASSUME NEW S, NEW seqs \in Seq(Seq(S))
  PROVE  /\ Len(seqs) \in Nat /\ DOMAIN seqs = 1..Len(seqs)
         /\ \A k \in 1..Len(seqs) : /\ seqs[k] \in Seq(S) /\ Len(seqs[k]) \in Nat
                                    /\ DOMAIN seqs[k] = 1..Len(seqs[k])
  <1>1. \A k \in 1..Len(seqs) : seqs[k] \in Seq(S)
    OBVIOUS
  <1>2. Len(seqs) \in Nat /\ DOMAIN seqs = 1..Len(seqs)
    OBVIOUS
  <1>. QED
    BY <1>1, <1>2

\* What two sequences put end to end have at each place.
LEMMA MisALaSuite ==
  ASSUME NEW S, NEW u \in Seq(S), NEW v \in Seq(S)
  PROVE  /\ u \o v \in Seq(S) /\ Len(u \o v) = Len(u) + Len(v)
         /\ Len(u) \in Nat /\ Len(v) \in Nat
         /\ \A p \in 1..Len(u) : (u \o v)[p] = u[p]
         /\ \A p \in 1..Len(v) : (u \o v)[Len(u) + p] = v[p]
  <1>1. Len(u) \in Nat /\ Len(v) \in Nat
    OBVIOUS
  <1>2. \A p \in 1..(Len(u) + Len(v)) :
          (u \o v)[p] = IF p <= Len(u) THEN u[p] ELSE v[p - Len(u)]
    OBVIOUS
  <1>3. \A p \in 1..Len(u) : (u \o v)[p] = u[p]
    BY <1>1, <1>2
  <1>4. ASSUME NEW p \in 1..Len(v) PROVE (u \o v)[Len(u) + p] = v[p]
    <2>1. Len(u) + p \in 1..(Len(u) + Len(v)) /\ ~ (Len(u) + p <= Len(u))
          /\ (Len(u) + p) - Len(u) = p
      BY <1>1
    <2>. QED
      BY <1>2, <2>1
  <1>. QED
    BY <1>1, <1>3, <1>4

\* L[k]: the length of the first k of them.
Cumul(L, seqs) ==
  /\ L \in [0..Len(seqs) -> Nat]
  /\ L[0] = 0
  /\ \A k \in 1..Len(seqs) : L[k] = L[k - 1] + Len(seqs[k])

\* The running sum of the lengths exists.
LEMMA CumulExiste ==
  ASSUME NEW S, NEW seqs \in Seq(Seq(S))
  PROVE  \E L : Cumul(L, seqs)
  <1>. DEFINE n == Len(seqs)
              Bon(L, m) == /\ L \in [0..m -> Nat] /\ L[0] = 0
                           /\ \A k \in 1..m : L[k] = L[k - 1] + Len(seqs[k])
              T == {m \in 0..n : ~ \E L : Bon(L, m)}
  <1>1. n \in Nat /\ \A k \in 1..n : Len(seqs[k]) \in Nat
    BY SuitesDeSuites
  <1>2. ASSUME NEW m \in T, \A y \in T : m <= y PROVE FALSE
    <2>1. CASE m = 0
      <3>. DEFINE L == [k \in 0..0 |-> 0]
      <3>1. Bon(L, 0)
        OBVIOUS
      <3>. QED
        BY <2>1, <3>1
    <2>2. CASE m # 0
      <3>1. m \in 1..n /\ m - 1 \in 0..n /\ ~ (m <= m - 1)
        BY <1>1, <2>2
      <3>2. PICK L : Bon(L, m - 1)
        BY <1>2, <3>1
      <3>. DEFINE M == [k \in 0..m |-> IF k = m THEN L[m - 1] + Len(seqs[m]) ELSE L[k]]
      <3>3. Bon(M, m)
        <4>1. M \in [0..m -> Nat] /\ M[0] = 0
          BY <1>1, <2>2, <3>1, <3>2
        <4>2. ASSUME NEW k \in 1..m PROVE M[k] = M[k - 1] + Len(seqs[k])
          <5>1. M[k - 1] = L[k - 1]
            BY <3>1
          <5>2. CASE k = m
            BY <3>1, <5>1, <5>2
          <5>3. CASE k # m
            <6>1. M[k] = L[k] /\ k \in 1..(m - 1)
              BY <3>1, <5>3
            <6>. QED
              BY <3>2, <5>1, <6>1
          <5>. QED
            BY <5>2, <5>3
        <4>. HIDE DEF M
        <4>. QED
          BY <4>1, <4>2
      <3>. QED
        BY <3>1, <3>3
    <2>. QED
      BY <2>1, <2>2
  <1>3. T = {}
    <2>1. T \in SUBSET Nat
      BY <1>1
    <2>. HIDE DEF T
    <2>. QED
      BY <1>2, <2>1, NatMinimal
  <1>4. \E L : Bon(L, n)
    <2>1. n \in 0..n
      BY <1>1
    <2>. HIDE DEF n, Bon
    <2>. QED
      BY <1>3, <2>1
  <1>. QED
    BY <1>4 DEF Cumul

\* It never decreases.
LEMMA CumulCroit ==
  ASSUME NEW S, NEW seqs \in Seq(Seq(S)), NEW L, Cumul(L, seqs),
         NEW i \in 0..Len(seqs), NEW j \in i..Len(seqs)
  PROVE  L[i] <= L[j]
  <1>. DEFINE n == Len(seqs)
              T == {m \in i..n : ~ (L[i] <= L[m])}
  <1>1. n \in Nat /\ \A k \in 1..n : Len(seqs[k]) \in Nat
    BY SuitesDeSuites
  <1>2. \A k \in 0..n : L[k] \in Nat
    BY DEF Cumul
  <1>3. ASSUME NEW m \in T, \A y \in T : m <= y PROVE FALSE
    <2>1. m \in i..n /\ ~ (L[i] <= L[m]) /\ m # i
      BY <1>2
    <2>2. m - 1 \in i..n /\ m \in 1..n /\ ~ (m <= m - 1)
      BY <1>1, <2>1
    <2>3. L[i] <= L[m - 1]
      BY <1>3, <2>2
    <2>4. L[m] = L[m - 1] + Len(seqs[m])
      BY <2>2 DEF Cumul
    <2>5. L[i] \in Nat /\ L[m - 1] \in Nat /\ Len(seqs[m]) \in Nat
      BY <1>1, <1>2, <2>2
    <2>. QED
      BY <2>1, <2>3, <2>4, <2>5
  <1>4. T = {}
    <2>1. T \in SUBSET Nat
      BY <1>1
    <2>. HIDE DEF T
    <2>. QED
      BY <1>3, <2>1, NatMinimal
  <1>. QED
    BY <1>4

\* Every position is in one of them.
LEMMA CumulBloc ==
  ASSUME NEW S, NEW seqs \in Seq(Seq(S)), NEW L, Cumul(L, seqs),
         NEW q \in 1..L[Len(seqs)]
  PROVE  \E k \in 1..Len(seqs) : L[k - 1] < q /\ q <= L[k] /\ q - L[k - 1] \in 1..Len(seqs[k])
  <1>. DEFINE n == Len(seqs)
              T == {m \in 0..n : q <= L[m]}
  <1>1. n \in Nat /\ \A k \in 0..n : L[k] \in Nat
    BY SuitesDeSuites DEF Cumul
  <1>2. n \in T /\ T \in SUBSET Nat
    BY <1>1
  <1>3. PICK k \in T : \A y \in T : k <= y
    <2>. HIDE DEF T
    <2>. QED
      BY <1>2, NatMinimal
  <1>4. k \in 0..n /\ q <= L[k] /\ q \in Nat /\ q >= 1
    BY <1>1
  <1>5. k # 0
    BY <1>4 DEF Cumul
  <1>6. k \in 1..n /\ k - 1 \in 0..n /\ ~ (k <= k - 1)
    BY <1>1, <1>4, <1>5
  <1>7. L[k - 1] < q
    BY <1>1, <1>3, <1>4, <1>6
  <1>8. L[k] = L[k - 1] + Len(seqs[k])
    BY <1>6 DEF Cumul
  <1>9. Len(seqs[k]) \in Nat
    BY <1>6, SuitesDeSuites
  <1>. HIDE DEF n
  <1>10. q - L[k - 1] \in 1..Len(seqs[k])
    BY <1>1, <1>4, <1>6, <1>7, <1>8, <1>9
  <1>. QED
    BY <1>4, <1>6, <1>7, <1>10 DEF n

\* The sequence that ends with the i-th one, f being the shorter ones.
Bout(seqs, f, i) == IF i = 1 THEN seqs[i] ELSE f[i - 1] \o seqs[i]

BoutsFaits(seqs, n) == \E f : f = [i \in 1..n |-> Bout(seqs, f, i)]

\* The recursive function FlattenSeq is made of exists.
LEMMA BoutsExistent ==
  ASSUME NEW seqs, NEW n \in Nat
  PROVE  BoutsFaits(seqs, n)
  <1>. DEFINE Existe(m) == \E f : f = [i \in 1..m |-> Bout(seqs, f, i)]
              T == {m \in Nat : ~Existe(m)}
  <1>1. ASSUME NEW m \in T, \A y \in T : m <= y PROVE FALSE
    <2>1. CASE m = 0
      <3>. DEFINE f == [i \in 1..0 |-> 0]
      <3>1. f = [i \in 1..0 |-> Bout(seqs, f, i)]
        OBVIOUS
      <3>. QED
        BY <2>1, <3>1
    <2>2. CASE m # 0
      <3>1. m - 1 \in Nat /\ m - 1 \notin T /\ m \in Nat
        <4>1. m \in Nat
          OBVIOUS
        <4>. HIDE DEF T
        <4>. QED
          BY <1>1, <2>2, <4>1
      <3>2. PICK g : g = [i \in 1..(m - 1) |-> Bout(seqs, g, i)]
        BY <3>1
      <3>. DEFINE f == [i \in 1..m |-> IF i < m THEN g[i] ELSE Bout(seqs, g, m)]
      <3>3. ASSUME NEW i \in 1..m PROVE f[i] = Bout(seqs, f, i)
        <4>1. i # 1 => i - 1 \in 1..(m - 1) /\ f[i - 1] = g[i - 1]
          BY <3>1
        <4>2. Bout(seqs, f, i) = Bout(seqs, g, i)
          <5>. HIDE DEF f
          <5>. QED
            BY <4>1 DEF Bout
        <4>3. CASE i < m
          <5>1. i \in 1..(m - 1) /\ f[i] = g[i]
            BY <4>3, <3>1
          <5>. HIDE DEF f
          <5>2. \A l \in 1..(m - 1) : g[l] = Bout(seqs, g, l)
            BY <3>2
          <5>. QED
            BY <4>2, <5>1, <5>2
        <4>4. CASE ~(i < m)
          <5>1. i = m /\ f[i] = Bout(seqs, g, m)
            BY <4>4, <3>1
          <5>. HIDE DEF f
          <5>. QED
            BY <4>2, <5>1
        <4>. QED
          BY <4>3, <4>4
      <3>4. f = [i \in 1..m |-> Bout(seqs, f, i)]
        <4>1. f = [i \in 1..m |-> f[i]]
          OBVIOUS
        <4>. HIDE DEF f
        <4>. QED
          BY <3>3, <4>1
      <3>5. Existe(m)
        <4>. HIDE DEF f
        <4>. QED
          BY <3>4
      <3>. QED
        BY <3>5
    <2>. QED
      BY <2>1, <2>2
  <1>2. T = {}
    <2>1. T \in SUBSET Nat
      OBVIOUS
    <2>. HIDE DEF T
    <2>. QED
      BY <1>1, <2>1, NatMinimal
  <1>. QED
    BY <1>2 DEF BoutsFaits

\* The first m of them are in s, one after the other.
EnPlace(S, s, seqs, L, m) ==
  /\ s \in Seq(S) /\ Len(s) = L[m]
  /\ \A k \in 1..m : \A p \in 1..Len(seqs[k]) : s[L[k - 1] + p] = seqs[k][p]

\* A place of one of the sequences is a place of the whole.
LEMMA Dedans ==
  ASSUME NEW x \in Nat, NEW l \in Nat, NEW y \in Nat, NEW z \in Nat, y = x + l, y <= z,
         NEW p \in 1..l
  PROVE  x + p \in 1..z
  OBVIOUS

\* One more sequence put at the end leaves the others in place.
LEMMA UnDePlus ==
  ASSUME NEW S, NEW seqs \in Seq(Seq(S)), NEW L, Cumul(L, seqs),
         NEW m \in 1..Len(seqs), NEW a \in Seq(S), NEW b \in Seq(S), b = seqs[m],
         EnPlace(S, a, seqs, L, m - 1)
  PROVE  EnPlace(S, a \o b, seqs, L, m)
  <1>. DEFINE n == Len(seqs)
  <1>1. /\ n \in Nat /\ m \in Nat /\ m >= 1 /\ m <= n
        /\ \A k \in 1..n : seqs[k] \in Seq(S) /\ Len(seqs[k]) \in Nat
        /\ \A k \in 0..n : L[k] \in Nat
        /\ \A k \in 1..n : L[k] = L[k - 1] + Len(seqs[k])
    <2>1. n \in Nat /\ \A k \in 1..n : seqs[k] \in Seq(S) /\ Len(seqs[k]) \in Nat
      BY SuitesDeSuites
    <2>2. /\ \A k \in 0..n : L[k] \in Nat
          /\ \A k \in 1..n : L[k] = L[k - 1] + Len(seqs[k])
      BY DEF Cumul
    <2>. QED
      BY <2>1, <2>2
  <1>. HIDE DEF n
  <1>2. Len(a) = L[m - 1]
    BY DEF EnPlace
  <1>3. L[m] = Len(a) + Len(b)
    BY <1>1, <1>2
  <1>4. /\ a \o b \in Seq(S) /\ Len(a \o b) = Len(a) + Len(b)
        /\ \A p \in 1..Len(a) : (a \o b)[p] = a[p]
        /\ \A p \in 1..Len(b) : (a \o b)[Len(a) + p] = b[p]
    BY MisALaSuite, SMTT(30)
  <1>5. ASSUME NEW k \in 1..m, NEW p \in 1..Len(seqs[k])
        PROVE  (a \o b)[L[k - 1] + p] = seqs[k][p]
    <2>1. CASE k = m
      BY <1>2, <1>4, <2>1
    <2>2. CASE k # m
      <3>1. /\ k \in 1..(m - 1) /\ k \in 0..n /\ k \in 1..n /\ k - 1 \in 0..n
            /\ m - 1 \in k..n /\ m - 1 \in 0..n
        BY <1>1, <2>2
      <3>2. L[k] <= L[m - 1]
        BY <3>1, CumulCroit DEF n
      <3>3. L[k] = L[k - 1] + Len(seqs[k]) /\ L[k - 1] \in Nat /\ L[k] \in Nat
            /\ L[m - 1] \in Nat /\ Len(seqs[k]) \in Nat
        BY <1>1, <3>1
      <3>4. L[k - 1] + p \in 1..Len(a)
        BY <1>2, <3>2, <3>3, Dedans
      <3>5. a[L[k - 1] + p] = seqs[k][p]
        BY <3>1 DEF EnPlace
      <3>. QED
        BY <1>4, <3>4, <3>5
    <2>. QED
      BY <2>1, <2>2
  <1>. QED
    BY <1>3, <1>4, <1>5 DEF EnPlace

\* FlattenSeq puts each sequence where the running sum says.
LEMMA BoutABout ==
  ASSUME NEW S, NEW seqs \in Seq(Seq(S)), NEW L, Cumul(L, seqs)
  PROVE  EnPlace(S, FlattenSeq(seqs), seqs, L, Len(seqs))
  <1>. DEFINE n == Len(seqs)
  <1>0. /\ n \in Nat /\ DOMAIN seqs = 1..n
        /\ \A k \in 1..n : seqs[k] \in Seq(S) /\ Len(seqs[k]) \in Nat
        /\ L[0] = 0
    BY SuitesDeSuites DEF Cumul
  <1>1. CASE n = 0
    <2>1. FlattenSeq(seqs) = seqs
      BY <1>1 DEF FlattenSeq
    <2>2. seqs = <<>>
      BY <1>0, <1>1
    <2>. QED
      BY <1>0, <1>1, <2>1, <2>2 DEF EnPlace
  <1>2. CASE n # 0
    <2>. DEFINE f == CHOOSE f : f = [i \in 1..n |-> Bout(seqs, f, i)]
    <2>1. f = [i \in 1..n |-> Bout(seqs, f, i)]
      <3>1. \E g : g = [i \in 1..n |-> Bout(seqs, g, i)]
        BY <1>0, BoutsExistent DEF BoutsFaits
      <3>. QED
        BY <3>1
    <2>2. FlattenSeq(seqs) = f[n]
      BY <1>2 DEF FlattenSeq, Bout
    <2>. HIDE DEF f
    <2>3. \A i \in 1..n : f[i] = Bout(seqs, f, i)
      BY <2>1
    <2>. DEFINE T == {m \in 1..n : ~EnPlace(S, f[m], seqs, L, m)}
    <2>4. ASSUME NEW m \in T, \A y \in T : m <= y PROVE FALSE
      <3>1. m \in 1..n /\ ~EnPlace(S, f[m], seqs, L, m)
        OBVIOUS
      <3>2. CASE m = 1
        <4>1. f[m] = seqs[1] /\ seqs[1] \in Seq(S)
          BY <1>0, <2>3, <3>1, <3>2 DEF Bout
        <4>2. EnPlace(S, <<>>, seqs, L, m - 1) /\ <<>> \in Seq(S)
          BY <1>0, <3>2 DEF EnPlace
        <4>3. EnPlace(S, <<>> \o seqs[1], seqs, L, 1)
          BY <3>1, <3>2, <4>1, <4>2, UnDePlus
        <4>4. <<>> \o seqs[1] = seqs[1]
          BY <4>1
        <4>. QED
          BY <3>1, <3>2, <4>1, <4>3, <4>4
      <3>3. CASE m # 1
        <4>1. m - 1 \in 1..n /\ ~ (m <= m - 1)
          BY <1>0, <3>1, <3>3
        <4>2. EnPlace(S, f[m - 1], seqs, L, m - 1)
          BY <2>4, <4>1
        <4>3. f[m] = f[m - 1] \o seqs[m]
          BY <2>3, <3>1, <3>3 DEF Bout
        <4>4. EnPlace(S, f[m - 1] \o seqs[m], seqs, L, m)
          <5>1. f[m - 1] \in Seq(S)
            BY <4>2 DEF EnPlace
          <5>2. seqs[m] \in Seq(S)
            BY <1>0, <3>1
          <5>. QED
            BY <3>1, <4>2, <5>1, <5>2, UnDePlus
        <4>. QED
          BY <3>1, <4>3, <4>4
      <3>. QED
        BY <3>2, <3>3
    <2>5. T = {}
      <3>1. T \in SUBSET Nat
        BY <1>0
      <3>. HIDE DEF T
      <3>. QED
        BY <2>4, <3>1, NatMinimal
    <2>6. EnPlace(S, f[n], seqs, L, n)
      <3>1. n \in 1..n
        BY <1>0, <1>2
      <3>. HIDE DEF n
      <3>. QED
        BY <2>5, <3>1
    <2>. QED
      BY <2>2, <2>6
  <1>. QED
    BY <1>1, <1>2

\* FlattenSeq keeps the elements of the sequences.
LEMMA AplatieTypee ==
  ASSUME NEW S, NEW seqs \in Seq(Seq(S))
  PROVE  FlattenSeq(seqs) \in Seq(S)
  BY CumulExiste, BoutABout DEF EnPlace

-----------------------------------------------------------------------------
(* normaliser: its runs and clusters *)

\* Sequences of at most two elements, for the provers.
LEMMA Courtes ==
  ASSUME NEW S, NEW x \in S, NEW y \in S
  PROVE  <<>> \in Seq(S) /\ <<x>> \in Seq(S) /\ <<x, y>> \in Seq(S)
  <1>1. <<x>> = [i \in 1..1 |-> x]
    OBVIOUS
  <1>2. <<x, y>> = [i \in 1..2 |-> IF i = 1 THEN x ELSE y]
    OBVIOUS
  <1>. QED
    BY <1>1, <1>2

\* A ligature, a quote or a mark becomes characters (normalize.py, LIGATURES).
LEMMA LigatureTypee ==
  ASSUME NEW c \in Car
  PROVE  Ligature(c) \in Seq(Car)
  <1>1. /\ <<"f", "i">> \in Seq(Car) /\ <<"'">> \in Seq(Car)
        /\ <<>> \in Seq(Car) /\ <<c>> \in Seq(Car)
    <2>1. "f" \in Car /\ "i" \in Car /\ "'" \in Car
      BY DEF Car
    <2>. QED
      BY <2>1, Courtes
  <1>2. Ligature(c) \in {<<"f", "i">>, <<"'">>, <<>>, <<c>>}
    BY DEF Ligature
  <1>. QED
    BY <1>1, <1>2

\* So does a run of blanks.
LEMMA ReduireTypee ==
  ASSUME NEW n
  PROVE  ReduireBlancs(n) \in Seq(Car)
  <1>1. <<" ">> \in Seq(Car) /\ <<"lf">> \in Seq(Car) /\ <<"lf", "lf">> \in Seq(Car)
    <2>1. " " \in Car /\ "lf" \in Car
      BY DEF Car
    <2>. QED
      BY <2>1, Courtes
  <1>. QED
    BY <1>1 DEF ReduireBlancs

\* So does a cluster of a character and its marks.
LEMMA GrappeTypee ==
  ASSUME NEW u \in Seq(Car)
  PROVE  ComposerGrappe(u) \in Seq(Car)
  <1>1. CASE Len(u) >= 2 /\ u[1] = "a"
    <2>1. "a^" \in Car
      BY DEF Car
    <2>2. <<"a^">> \in Seq(Car)
      BY <2>1, Courtes
    <2>3. SubSeq(u, 3, Len(u)) \in Seq(Car)
      BY <1>1
    <2>. QED
      BY <1>1, <2>2, <2>3, MisALaSuite DEF ComposerGrappe
  <1>2. CASE ~(Len(u) >= 2 /\ u[1] = "a")
    BY <1>2 DEF ComposerGrappe
  <1>. QED
    BY <1>1, <1>2

\* Suivant is the beginning of the next run or cluster, or the end.
LEMMA SuivantBon ==
  ASSUME NEW s \in Seq(Car), NEW i \in 1..Len(s)
  PROVE  /\ Suivant(s, i) \in (i + 1)..(Len(s) + 1)
         /\ Suivant(s, i) = Len(s) + 1 \/ Commence(s, Suivant(s, i))
         /\ \A k \in (i + 1)..(Suivant(s, i) - 1) : ~Commence(s, k)
  <1>. DEFINE T == {j \in (i + 1)..(Len(s) + 1) : j = Len(s) + 1 \/ Commence(s, j)}
  <1>1. Len(s) \in Nat /\ i \in Nat /\ i <= Len(s)
    OBVIOUS
  <1>2. T \in SUBSET Nat /\ Len(s) + 1 \in T
    BY <1>1
  <1>3. PICK j \in T : \A k \in T : j <= k
    <2>. HIDE DEF T
    <2>. QED
      BY <1>2, NatMinimal
  <1>4. j \in (i + 1)..(Len(s) + 1) /\ (j = Len(s) + 1 \/ Commence(s, j))
    OBVIOUS
  <1>5. ASSUME NEW k \in (i + 1)..(j - 1) PROVE ~Commence(s, k)
    <2>1. k \in (i + 1)..(Len(s) + 1) /\ ~ (j <= k)
      BY <1>1, <1>4
    <2>. QED
      BY <1>3, <2>1
  <1>. HIDE DEF T
  <1>. QED
    BY <1>4, <1>5 DEF Suivant

\* A run or cluster becomes characters.
LEMMA BlocTypee ==
  ASSUME NEW s \in Seq(Car), NEW i \in 1..Len(s)
  PROVE  Bloc(s, i) \in Seq(Car)
  <1>. DEFINE j == Suivant(s, i)
              g == ComposerGrappe(SubSeq(s, i, j - 1))
              L == [k \in DOMAIN g |-> Ligature(g[k])]
  <1>1. j \in (i + 1)..(Len(s) + 1)
    BY SuivantBon
  <1>. HIDE DEF j
  <1>2. ReduireBlancs(Sauts(s, i, j)) \in Seq(Car)
    BY ReduireTypee
  <1>3. g \in Seq(Car)
    <2>1. SubSeq(s, i, j - 1) \in Seq(Car)
      BY <1>1
    <2>. QED
      BY <2>1, GrappeTypee
  <1>4. L \in Seq(Seq(Car))
    <2>. HIDE DEF g
    <2>2. DOMAIN g = 1..Len(g) /\ Len(g) \in Nat /\ \A k \in DOMAIN g : g[k] \in Car
      BY <1>3
    <2>3. \A k \in DOMAIN g : Ligature(g[k]) \in Seq(Car)
      BY <2>2, LigatureTypee
    <2>. QED
      BY <2>2, <2>3
  <1>5. FlattenSeq(L) \in Seq(Car)
    <2>. HIDE DEF L
    <2>. QED
      BY <1>4, AplatieTypee
  <1>. QED
    BY <1>2, <1>5 DEF Bloc, j

\* Debuts is the increasing list of the beginnings of runs and clusters.
LEMMA DebutsBons ==
  ASSUME NEW s \in Seq(Car)
  PROVE  /\ Debuts(s) \in Seq(1..Len(s)) /\ DOMAIN Debuts(s) = 1..Len(Debuts(s))
         /\ Len(Debuts(s)) \in Nat
         /\ \A k \in 1..Len(Debuts(s)) : Debuts(s)[k] \in 1..Len(s) /\ Commence(s, Debuts(s)[k])
         /\ \A j, k \in 1..Len(Debuts(s)) : j < k => Debuts(s)[j] < Debuts(s)[k]
         /\ \A i \in 1..Len(s) : Commence(s, i) => \E k \in 1..Len(Debuts(s)) : Debuts(s)[k] = i
  <1>. DEFINE n == Len(s)
              P == {i \in 1..Len(s) : Commence(s, i)}
              D == EnOrdre(n, P)
  <1>1. n \in Nat /\ P \intersect (1..n) = P
    OBVIOUS
  <1>2. /\ D \in Seq(P)
        /\ \A j, k \in DOMAIN D : j < k => D[j] < D[k]
        /\ \A i \in P : \E k \in DOMAIN D : D[k] = i
    <2>. HIDE DEF n, P
    <2>. QED
      BY <1>1, EnOrdreBon
  <1>. HIDE DEF D
  <1>3. DOMAIN D = 1..Len(D) /\ Len(D) \in Nat /\ \A k \in DOMAIN D : D[k] \in P
    <2>. HIDE DEF P
    <2>. QED
      BY <1>2
  <1>4. D \in Seq(1..n)
    <2>1. \A k \in DOMAIN D : D[k] \in 1..n
      BY <1>3
    <2>. DEFINE E == [k \in 1..Len(D) |-> D[k]]
    <2>2. D = E
      <3>. HIDE DEF P, n
      <3>. QED
        BY <1>2, <1>3
    <2>3. E \in Seq(1..n)
      <3>. HIDE DEF P, n
      <3>. QED
        BY <1>3, <2>1
    <2>. QED
      BY <2>2, <2>3
  <1>5. Debuts(s) = D
    BY DEF Debuts, D
  <1>. QED
    BY <1>2, <1>3, <1>4, <1>5

Blocs(s) == [k \in DOMAIN Debuts(s) |-> Bloc(s, Debuts(s)[k])]

Origines(s) == [k \in DOMAIN Debuts(s) |-> [p \in DOMAIN Blocs(s)[k] |-> Debuts(s)[k] - 1]]

\* Each run or cluster gives as many offsets as characters, all its own beginning.
LEMMA BlocsTypes ==
  ASSUME NEW s \in Seq(Car)
  PROVE  /\ Blocs(s) \in Seq(Seq(Car)) /\ Len(Blocs(s)) = Len(Debuts(s))
         /\ Origines(s) \in Seq(Seq(Nat)) /\ Len(Origines(s)) = Len(Debuts(s))
         /\ \A k \in 1..Len(Debuts(s)) :
              /\ Len(Origines(s)[k]) = Len(Blocs(s)[k])
              /\ \A p \in 1..Len(Blocs(s)[k]) : Origines(s)[k][p] = Debuts(s)[k] - 1
  <1>. DEFINE D == Debuts(s)
              n == Len(D)
              B == Blocs(s)
              O == Origines(s)
  <1>1. n \in Nat /\ DOMAIN D = 1..n /\ \A k \in 1..n : D[k] \in 1..Len(s)
    BY DebutsBons
  <1>2. B = [k \in 1..n |-> Bloc(s, D[k])]
    BY <1>1 DEF Blocs
  <1>. HIDE DEF D, n, B
  <1>3. \A k \in 1..n : B[k] \in Seq(Car)
    BY <1>1, <1>2, BlocTypee
  <1>4. \A k \in 1..n : DOMAIN B[k] = 1..Len(B[k]) /\ Len(B[k]) \in Nat
    BY <1>3
  <1>5. O = [k \in 1..n |-> [p \in 1..Len(B[k]) |-> D[k] - 1]]
    <2>1. O = [k \in 1..n |-> [p \in DOMAIN B[k] |-> D[k] - 1]]
      BY <1>1 DEF Origines, D, B
    <2>. HIDE DEF O
    <2>. QED
      BY <1>4, <2>1
  <1>6. Len(s) \in Nat
    OBVIOUS
  <1>. HIDE DEF O
  <1>7. ASSUME NEW k \in 1..n
        PROVE  /\ O[k] \in Seq(Nat) /\ Len(O[k]) = Len(B[k])
               /\ \A p \in 1..Len(B[k]) : O[k][p] = D[k] - 1
    <2>1. D[k] - 1 \in Nat /\ O[k] = [p \in 1..Len(B[k]) |-> D[k] - 1] /\ Len(B[k]) \in Nat
      BY <1>1, <1>4, <1>5, <1>6
    <2>. QED
      BY <2>1
  <1>8. B \in Seq(Seq(Car)) /\ Len(B) = n
    BY <1>1, <1>2, <1>3
  <1>9. O \in Seq(Seq(Nat)) /\ Len(O) = n
    BY <1>1, <1>5, <1>7
  <1>. QED
    BY <1>7, <1>8, <1>9 DEF D, n, B, O

-----------------------------------------------------------------------------
(* normaliser: the text and its table, block by block *)

TexteDe(s) == normaliser(s).texte
TableDe(s) == normaliser(s).table

\* L cuts the text of s in the blocks of its runs and clusters, whose characters all have
\* the offset where the block begins.
Decoupe(s, L) ==
  /\ Cumul(L, Blocs(s))
  /\ EnPlace(Car, TexteDe(s), Blocs(s), L, Len(Debuts(s)))
  /\ TableDe(s) \in Seq(Nat) /\ Len(TableDe(s)) = Len(TexteDe(s)) + 1
  /\ \A k \in 1..Len(Debuts(s)) : \A p \in 1..Len(Blocs(s)[k]) :
       TableDe(s)[L[k - 1] + p] = Debuts(s)[k] - 1
  /\ TableDe(s)[Len(TexteDe(s)) + 1] = Len(s)

\* normaliser is the texts of the blocks end to end, and their offsets.
LEMMA NormaliserParBlocs ==
  ASSUME NEW s
  PROVE  /\ TexteDe(s) = FlattenSeq(Blocs(s))
         /\ TableDe(s) = FlattenSeq(Origines(s)) \o <<Len(s)>>
         /\ normaliser(s) = TexteNormalise(TexteDe(s), TableDe(s))
  BY DEF TexteDe, TableDe, normaliser, TexteNormalise, Blocs, Origines

\* A sequence with one element more.
LEMMA UnALaFin ==
  ASSUME NEW S, NEW u \in Seq(S), NEW x \in S
  PROVE  /\ u \o <<x>> \in Seq(S) /\ Len(u \o <<x>>) = Len(u) + 1
         /\ (u \o <<x>>)[Len(u) + 1] = x
         /\ \A p \in 1..Len(u) : (u \o <<x>>)[p] = u[p]
  <1>1. ASSUME NEW v \in Seq(S), Len(v) = 1, v[1] = x
        PROVE  /\ u \o v \in Seq(S) /\ Len(u \o v) = Len(u) + 1
               /\ (u \o v)[Len(u) + 1] = x
               /\ \A p \in 1..Len(u) : (u \o v)[p] = u[p]
    BY <1>1, MisALaSuite
  <1>2. <<x>> \in Seq(S) /\ Len(<<x>>) = 1 /\ <<x>>[1] = x
    BY Courtes
  <1>. QED
    BY <1>1, <1>2

\* The working text and its table are cut at the same places.
LEMMA DecoupeExiste ==
  ASSUME NEW s \in Seq(Car)
  PROVE  \E L : Decoupe(s, L)
  <1>. DEFINE B == Blocs(s)
              O == Origines(s)
              n == Len(Debuts(s))
              t == FlattenSeq(B)
              o == FlattenSeq(O)
  <1>1. /\ B \in Seq(Seq(Car)) /\ Len(B) = n /\ O \in Seq(Seq(Nat)) /\ Len(O) = n
        /\ \A k \in 1..n : /\ Len(O[k]) = Len(B[k])
                            /\ \A p \in 1..Len(B[k]) : O[k][p] = Debuts(s)[k] - 1
    BY BlocsTypes
  <1>2. PICK L : Cumul(L, B)
    BY <1>1, CumulExiste
  <1>3. Cumul(L, O)
    BY <1>1, <1>2 DEF Cumul
  <1>4. EnPlace(Car, t, B, L, n)
    BY <1>1, <1>2, BoutABout
  <1>5. EnPlace(Nat, o, O, L, n)
    BY <1>1, <1>3, BoutABout
  <1>6. o \in Seq(Nat) /\ Len(o) = L[n] /\ t \in Seq(Car) /\ Len(t) = L[n]
    BY <1>4, <1>5 DEF EnPlace
  <1>7. Len(s) \in Nat /\ n \in Nat /\ \A k \in 1..n : Len(B[k]) \in Nat
    <2>1. Len(s) \in Nat /\ n \in Nat
      BY DebutsBons
    <2>. HIDE DEF B, n
    <2>2. \A k \in 1..n : Len(B[k]) \in Nat
      BY <1>1, SuitesDeSuites
    <2>. QED
      BY <2>1, <2>2
  <1>8. o \o <<Len(s)>> \in Seq(Nat) /\ Len(o \o <<Len(s)>>) = Len(t) + 1
        /\ (o \o <<Len(s)>>)[Len(t) + 1] = Len(s)
        /\ \A p \in 1..Len(t) : (o \o <<Len(s)>>)[p] = o[p]
    <2>. HIDE DEF o, t
    <2>. QED
      BY <1>6, <1>7, UnALaFin
  <1>9. TexteDe(s) = t /\ TableDe(s) = o \o <<Len(s)>>
    BY NormaliserParBlocs
  <1>10. ASSUME NEW k \in 1..n, NEW p \in 1..Len(B[k])
         PROVE  (o \o <<Len(s)>>)[L[k - 1] + p] = Debuts(s)[k] - 1
    <2>1. o[L[k - 1] + p] = Debuts(s)[k] - 1
      <3>1. p \in 1..Len(O[k]) /\ O[k][p] = Debuts(s)[k] - 1
        BY <1>1
      <3>. HIDE DEF B, O, o, n
      <3>2. o[L[k - 1] + p] = O[k][p]
        BY <1>5, <3>1 DEF EnPlace
      <3>. QED
        BY <3>1, <3>2
    <2>2. L[k - 1] \in Nat /\ L[k] \in Nat /\ L[n] \in Nat /\ L[k] = L[k - 1] + Len(B[k])
          /\ Len(B[k]) \in Nat
      <3>1. k \in 1..n /\ k - 1 \in 0..n /\ k \in 0..n /\ n \in 0..n
        BY <1>7
      <3>. HIDE DEF n, B
      <3>. QED
        BY <1>1, <1>2, <1>7, <3>1 DEF Cumul
    <2>3. L[k] <= L[n]
      <3>1. k \in 0..n /\ n \in k..n
        BY <1>7
      <3>. HIDE DEF n, B
      <3>. QED
        BY <1>1, <1>2, <3>1, CumulCroit
    <2>4. L[k - 1] + p \in 1..L[n]
      BY <2>2, <2>3, Dedans
    <2>. HIDE DEF t, o, n, B
    <2>. QED
      BY <1>6, <1>8, <2>1, <2>4
  <1>11. Decoupe(s, L)
    <2>. HIDE DEF t, o
    <2>. QED
      BY <1>2, <1>4, <1>8, <1>9, <1>10 DEF Decoupe
  <1>. QED
    BY <1>11

\* Where a character of the text comes from.
LEMMA DansUnBloc ==
  ASSUME NEW s \in Seq(Car), NEW L, Decoupe(s, L), NEW p \in 1..Len(TexteDe(s))
  PROVE  \E k \in 1..Len(Debuts(s)) :
           /\ L[k - 1] < p /\ p <= L[k] /\ p - L[k - 1] \in 1..Len(Blocs(s)[k])
           /\ TableDe(s)[p] = Debuts(s)[k] - 1
           /\ TexteDe(s)[p] = Blocs(s)[k][p - L[k - 1]]
  <1>. DEFINE B == Blocs(s)
              n == Len(Debuts(s))
  <1>1. B \in Seq(Seq(Car)) /\ Len(B) = n /\ n \in Nat /\ Cumul(L, B) /\ Len(TexteDe(s)) = L[n]
    BY BlocsTypes, DebutsBons DEF Decoupe, EnPlace
  <1>2. PICK k \in 1..n : L[k - 1] < p /\ p <= L[k] /\ p - L[k - 1] \in 1..Len(B[k])
    <2>. HIDE DEF B, n
    <2>. QED
      BY <1>1, CumulBloc
  <1>3. L[k - 1] \in Nat /\ L[k - 1] + (p - L[k - 1]) = p
    <2>1. k - 1 \in 0..n
      BY <1>1
    <2>2. L[k - 1] \in Nat
      BY <1>1, <2>1 DEF Cumul
    <2>3. p \in Int
      OBVIOUS
    <2>. QED
      BY <2>2, <2>3
  <1>4. /\ TableDe(s)[L[k - 1] + (p - L[k - 1])] = Debuts(s)[k] - 1
        /\ TexteDe(s)[L[k - 1] + (p - L[k - 1])] = B[k][p - L[k - 1]]
    BY <1>2 DEF Decoupe, EnPlace
  <1>. QED
    BY <1>2, <1>3, <1>4

\* The table of a text: as long and one more, it never decreases, and its last entry is
\* the length of the source, which no other reaches.
LEMMA NormaliserBon ==
  ASSUME NEW s \in Seq(Car)
  PROVE  /\ TexteDe(s) \in Seq(Car) /\ Len(TexteDe(s)) \in Nat
         /\ TableDe(s) \in Seq(Nat) /\ Len(TableDe(s)) = Len(TexteDe(s)) + 1
         /\ TableDe(s)[Len(TexteDe(s)) + 1] = Len(s)
         /\ \A p \in 1..Len(TexteDe(s)) : TableDe(s)[p] \in 0..(Len(s) - 1)
         /\ \A p, q \in 1..(Len(TexteDe(s)) + 1) : p <= q => TableDe(s)[p] <= TableDe(s)[q]
  <1>. DEFINE t == TexteDe(s)
              T == TableDe(s)
              D == Debuts(s)
  <1>1. PICK L : Decoupe(s, L)
    BY DecoupeExiste
  <1>2. t \in Seq(Car) /\ Len(t) \in Nat /\ T \in Seq(Nat) /\ Len(T) = Len(t) + 1
        /\ T[Len(t) + 1] = Len(s)
    <2>1. t \in Seq(Car)
      BY <1>1 DEF Decoupe, EnPlace
    <2>. QED
      BY <1>1, <2>1 DEF Decoupe
  <1>3. /\ Len(D) \in Nat /\ Len(s) \in Nat
        /\ \A k \in 1..Len(D) : D[k] \in 1..Len(s)
        /\ \A j, k \in 1..Len(D) : j < k => D[j] < D[k]
    BY DebutsBons
  <1>4. \A p \in 1..Len(t) : T[p] \in 0..(Len(s) - 1)
    <2>1. ASSUME NEW p \in 1..Len(t) PROVE T[p] \in 0..(Len(s) - 1)
      <3>1. PICK k \in 1..Len(D) : T[p] = D[k] - 1
        BY <1>1, DansUnBloc
      <3>. HIDE DEF D, T, t
      <3>. QED
        BY <1>3, <3>1
    <2>. QED
      BY <2>1
  <1>5. ASSUME NEW p \in 1..Len(t), NEW q \in 1..Len(t), p < q PROVE T[p] <= T[q]
    <2>1. PICK k \in 1..Len(D) : L[k - 1] < p /\ T[p] = D[k] - 1
      BY <1>1, DansUnBloc
    <2>2. PICK l \in 1..Len(D) : q <= L[l] /\ T[q] = D[l] - 1
      BY <1>1, DansUnBloc
    <2>3. ~ (l < k)
      <3>1. SUFFICES ASSUME l < k PROVE FALSE
        OBVIOUS
      <3>2. l \in 0..Len(D) /\ k - 1 \in l..Len(D) /\ k - 1 \in 0..Len(D)
        BY <1>3, <3>1
      <3>3. Cumul(L, Blocs(s)) /\ Blocs(s) \in Seq(Seq(Car)) /\ Len(Blocs(s)) = Len(D)
        BY <1>1, BlocsTypes DEF Decoupe
      <3>4. L[l] <= L[k - 1]
        BY <3>2, <3>3, CumulCroit
      <3>5. L[l] \in Nat /\ L[k - 1] \in Nat
        BY <3>2, <3>3 DEF Cumul
      <3>6. p \in Int /\ q \in Int
        OBVIOUS
      <3>. QED
        BY <1>5, <2>1, <2>2, <3>4, <3>5, <3>6
    <2>. HIDE DEF D
    <2>4. k = l \/ D[k] < D[l]
      BY <1>3, <2>3
    <2>. QED
      BY <1>3, <2>1, <2>2, <2>4
  <1>6. ASSUME NEW p \in 1..(Len(t) + 1), NEW q \in 1..(Len(t) + 1), p <= q PROVE T[p] <= T[q]
    <2>. HIDE DEF t, T
    <2>1. CASE q = Len(t) + 1
      <3>1. p \in 1..Len(t) \/ p = q
        BY <1>2, <1>6, <2>1
      <3>. QED
        BY <1>2, <1>3, <1>4, <2>1, <3>1
    <2>2. CASE q # Len(t) + 1
      <3>1. p \in 1..Len(t) /\ q \in 1..Len(t) /\ (p < q \/ p = q)
        BY <1>2, <1>6, <2>2
      <3>2. T[p] \in Int
        BY <1>3, <1>4, <3>1
      <3>. QED
        BY <1>5, <3>1, <3>2
    <2>. QED
      BY <2>1, <2>2
  <1>. HIDE DEF t, T, D
  <1>. QED
    BY <1>2, <1>4, <1>6 DEF t, T

-----------------------------------------------------------------------------
(* premiere_position: the binary search *)

Milieu(b) == (b[1] + b[2]) \div 2

\* One turn of the search, f being what it calls.
UneDichotomie(T, o, f, b) ==
  IF b[1] >= b[2] THEN b[1]
  ELSE IF T[Milieu(b) + 1] < o THEN f[<<Milieu(b) + 1, b[2]>>]
  ELSE f[<<b[1], Milieu(b)>>]

Intervalles(T) == (0..Len(T)) \X (0..Len(T))

\* v is the first position of the interval b that is not before o, or its end.
Trouve(T, o, b, v) ==
  IF b[1] >= b[2] THEN v = b[1]
  ELSE /\ v \in b[1]..b[2]
       /\ \A p \in (b[1] + 1)..v : T[p] < o
       /\ v = b[2] \/ T[v + 1] >= o

TableTriee(T) ==
  /\ T \in Seq(Nat) /\ Len(T) \in Nat /\ Len(T) >= 1
  /\ \A p, q \in 1..Len(T) : p <= q => T[p] <= T[q]

\* A turn of the search is right when those it calls are.
LEMMA TourTrouve ==
  ASSUME NEW T, TableTriee(T), NEW o \in Nat, NEW f, NEW b \in Intervalles(T),
         b[1] < b[2] => /\ Trouve(T, o, <<b[1], Milieu(b)>>, f[<<b[1], Milieu(b)>>])
                        /\ Trouve(T, o, <<Milieu(b) + 1, b[2]>>, f[<<Milieu(b) + 1, b[2]>>])
  PROVE  Trouve(T, o, b, UneDichotomie(T, o, f, b))
  <1>1. CASE b[1] >= b[2]
    BY <1>1 DEF Trouve, UneDichotomie
  <1>2. CASE ~(b[1] >= b[2])
    <2>. DEFINE lo == b[1]
                hi == b[2]
                m == Milieu(b)
    <2>1. lo \in 0..Len(T) /\ hi \in 0..Len(T) /\ lo < hi /\ Len(T) \in Nat
      BY <1>2 DEF Intervalles, TableTriee
    <2>2. m \in Nat /\ lo <= m /\ m < hi /\ m + 1 \in 1..Len(T)
      BY <2>1 DEF Milieu
    <2>3. \A p \in 1..Len(T) : T[p] \in Nat
      BY DEF TableTriee
    <2>4. CASE T[m + 1] < o
      <3>. DEFINE v == f[<<m + 1, hi>>]
      <3>1. UneDichotomie(T, o, f, b) = v
        BY <1>2, <2>4 DEF UneDichotomie
      <3>2. Trouve(T, o, <<m + 1, hi>>, v)
        BY <2>1
      <3>. HIDE DEF v, m
      <3>3. CASE m + 1 >= hi
        <4>1. v = m + 1 /\ v = hi
          BY <2>1, <2>2, <3>2, <3>3 DEF Trouve
        <4>2. ASSUME NEW p \in (lo + 1)..v PROVE T[p] < o
          <5>1. p \in 1..Len(T) /\ p <= m + 1
            BY <2>1, <2>2, <4>1
          <5>2. T[p] <= T[m + 1]
            BY <2>2, <5>1 DEF TableTriee
          <5>. QED
            BY <2>2, <2>3, <2>4, <5>1, <5>2
        <4>. QED
          BY <1>2, <2>1, <2>2, <3>1, <4>1, <4>2 DEF Trouve
      <3>4. CASE ~(m + 1 >= hi)
        <4>1. /\ v \in (m + 1)..hi /\ \A p \in (m + 2)..v : T[p] < o
              /\ v = hi \/ T[v + 1] >= o
          <5>1. (m + 1) + 1 = m + 2
            BY <2>2
          <5>. QED
            BY <3>2, <3>4, <5>1 DEF Trouve
        <4>2. ASSUME NEW p \in (lo + 1)..v PROVE T[p] < o
          <5>1. CASE p <= m + 1
            <6>1. p \in 1..Len(T)
              BY <2>1, <2>2, <4>1, <5>1
            <6>2. T[p] <= T[m + 1]
              BY <2>2, <5>1, <6>1 DEF TableTriee
            <6>. QED
              BY <2>2, <2>3, <2>4, <6>1, <6>2
          <5>2. CASE ~(p <= m + 1)
            <6>1. p \in (m + 2)..v
              BY <2>1, <2>2, <4>1, <5>2
            <6>. QED
              BY <4>1, <6>1
          <5>. QED
            BY <5>1, <5>2
        <4>3. v \in lo..hi
          BY <2>1, <2>2, <4>1
        <4>. QED
          BY <1>2, <3>1, <4>1, <4>2, <4>3 DEF Trouve
      <3>. QED
        BY <3>3, <3>4
    <2>5. CASE ~(T[m + 1] < o)
      <3>. DEFINE v == f[<<lo, m>>]
      <3>1. UneDichotomie(T, o, f, b) = v
        BY <1>2, <2>5 DEF UneDichotomie
      <3>2. Trouve(T, o, <<lo, m>>, v)
        BY <2>1
      <3>3. T[m + 1] >= o
        BY <2>2, <2>3, <2>5
      <3>. HIDE DEF v, m
      <3>4. v \in lo..m /\ (\A p \in (lo + 1)..v : T[p] < o) /\ (v = m \/ T[v + 1] >= o)
        <4>1. CASE lo >= m
          <5>1. v = lo /\ lo = m
            BY <2>1, <2>2, <3>2, <4>1 DEF Trouve
          <5>2. (lo + 1)..lo = {}
            BY <2>1
          <5>. QED
            BY <2>1, <2>2, <5>1, <5>2
        <4>2. CASE ~(lo >= m)
          BY <3>2, <4>2 DEF Trouve
        <4>. QED
          BY <4>1, <4>2
      <3>5. v \in lo..hi
        BY <2>1, <2>2, <3>4
      <3>. QED
        BY <1>2, <3>1, <3>3, <3>4, <3>5 DEF Trouve
    <2>. QED
      BY <2>4, <2>5
  <1>. QED
    BY <1>1, <1>2

\* What the search may answer over an interval is one value,
LEMMA TrouveUnique ==
  ASSUME NEW T, TableTriee(T), NEW o \in Nat, NEW b \in Intervalles(T),
         NEW v, NEW w, Trouve(T, o, b, v), Trouve(T, o, b, w)
  PROVE  v = w
  <1>. DEFINE lo == b[1]
              hi == b[2]
  <1>1. lo \in 0..Len(T) /\ hi \in 0..Len(T) /\ Len(T) \in Nat
        /\ \A p \in 1..Len(T) : T[p] \in Nat
    BY DEF Intervalles, TableTriee
  <1>2. CASE lo >= hi
    BY <1>2 DEF Trouve
  <1>3. CASE ~(lo >= hi)
    <2>1. /\ v \in lo..hi /\ (\A p \in (lo + 1)..v : T[p] < o) /\ (v = hi \/ T[v + 1] >= o)
          /\ w \in lo..hi /\ (\A p \in (lo + 1)..w : T[p] < o) /\ (w = hi \/ T[w + 1] >= o)
      BY <1>3 DEF Trouve
    <2>. HIDE DEF lo, hi
    <2>2. CASE v < w
      <3>1. v + 1 \in (lo + 1)..w /\ v + 1 \in 1..Len(T) /\ v # hi
        BY <1>1, <2>1, <2>2
      <3>. QED
        BY <1>1, <2>1, <3>1
    <2>3. CASE w < v
      <3>1. w + 1 \in (lo + 1)..v /\ w + 1 \in 1..Len(T) /\ w # hi
        BY <1>1, <2>1, <2>3
      <3>. QED
        BY <1>1, <2>1, <3>1
    <2>. QED
      BY <1>1, <2>1, <2>2, <2>3
  <1>. QED
    BY <1>2, <1>3

\* and there is one.
LEMMA TrouveExiste ==
  ASSUME NEW T, TableTriee(T), NEW o \in Nat, NEW b \in Intervalles(T)
  PROVE  \E v : Trouve(T, o, b, v)
  <1>. DEFINE lo == b[1]
              hi == b[2]
              A == {v \in lo..hi : v = hi \/ T[v + 1] >= o}
  <1>1. lo \in 0..Len(T) /\ hi \in 0..Len(T) /\ Len(T) \in Nat
        /\ \A p \in 1..Len(T) : T[p] \in Nat
    BY DEF Intervalles, TableTriee
  <1>2. CASE lo >= hi
    BY <1>2 DEF Trouve
  <1>3. CASE ~(lo >= hi)
    <2>1. A \in SUBSET Nat /\ hi \in A
      BY <1>1, <1>3
    <2>2. PICK v \in A : \A w \in A : v <= w
      <3>. HIDE DEF A
      <3>. QED
        BY <2>1, NatMinimal
    <2>3. v \in lo..hi /\ (v = hi \/ T[v + 1] >= o)
      OBVIOUS
    <2>4. ASSUME NEW p \in (lo + 1)..v PROVE T[p] < o
      <3>. HIDE DEF lo, hi
      <3>1. p - 1 \in lo..hi /\ p - 1 # hi /\ ~(v <= p - 1) /\ p \in 1..Len(T)
            /\ (p - 1) + 1 = p
        BY <1>1, <2>3
      <3>2. p - 1 \notin A
        BY <2>2, <3>1
      <3>3. ~(T[p] >= o)
        BY <3>1, <3>2
      <3>. QED
        BY <1>1, <3>1, <3>3
    <2>5. Trouve(T, o, b, v)
      BY <1>3, <2>3, <2>4 DEF Trouve
    <2>. QED
      BY <2>5
  <1>. QED
    BY <1>2, <1>3

\* What the search calls is an interval too, and a shorter one.
LEMMA PlusCourts ==
  ASSUME NEW T, TableTriee(T), NEW b \in Intervalles(T), b[1] < b[2]
  PROVE  /\ <<b[1], Milieu(b)>> \in Intervalles(T) /\ <<Milieu(b) + 1, b[2]>> \in Intervalles(T)
         /\ Milieu(b) - b[1] < b[2] - b[1] /\ b[2] - (Milieu(b) + 1) < b[2] - b[1]
         /\ b[2] - b[1] \in Nat
  <1>1. b[1] \in 0..Len(T) /\ b[2] \in 0..Len(T) /\ Len(T) \in Nat
    BY DEF Intervalles, TableTriee
  <1>2. Milieu(b) \in Nat /\ b[1] <= Milieu(b) /\ Milieu(b) < b[2]
    BY <1>1 DEF Milieu
  <1>3. Milieu(b) \in 0..Len(T) /\ Milieu(b) + 1 \in 0..Len(T)
    BY <1>1, <1>2
  <1>4. /\ Milieu(b) - b[1] < b[2] - b[1] /\ b[2] - (Milieu(b) + 1) < b[2] - b[1]
        /\ b[2] - b[1] \in Nat
    BY <1>1, <1>2
  <1>. HIDE DEF Milieu
  <1>. QED
    BY <1>1, <1>3, <1>4 DEF Intervalles

\* Any function that satisfies the recursion of the search is right everywhere.
LEMMA ChercherTrouve ==
  ASSUME NEW T, TableTriee(T), NEW o \in Nat,
         NEW f, f = [b \in Intervalles(T) |-> UneDichotomie(T, o, f, b)], NEW c \in Intervalles(T)
  PROVE  Trouve(T, o, c, f[c])
  <1>. DEFINE Ecart(b) == IF b[1] < b[2] THEN b[2] - b[1] ELSE 0
              Faux == {b \in Intervalles(T) : ~Trouve(T, o, b, f[b])}
              E == {Ecart(b) : b \in Faux}
  <1>1. \A b \in Intervalles(T) : f[b] = UneDichotomie(T, o, f, b)
    OBVIOUS
  <1>2. \A b \in Intervalles(T) : Ecart(b) \in Nat
    BY PlusCourts
  <1>3. ASSUME NEW e \in E, \A x \in E : e <= x PROVE FALSE
    <2>1. PICK b \in Faux : e = Ecart(b)
      OBVIOUS
    <2>2. b \in Intervalles(T) /\ ~Trouve(T, o, b, f[b])
      OBVIOUS
    <2>3. ASSUME NEW x \in Intervalles(T), Ecart(x) < e PROVE Trouve(T, o, x, f[x])
      <3>1. CASE x \in Faux
        <4>1. e <= Ecart(x)
          BY <1>3, <3>1
        <4>2. Ecart(x) \in Nat /\ e \in Nat
          BY <1>2, <2>1, <2>2
        <4>. HIDE DEF Ecart
        <4>. QED
          BY <2>3, <4>1, <4>2
      <3>. QED
        BY <3>1
    <2>4. ASSUME b[1] < b[2]
          PROVE  /\ Trouve(T, o, <<b[1], Milieu(b)>>, f[<<b[1], Milieu(b)>>])
                 /\ Trouve(T, o, <<Milieu(b) + 1, b[2]>>, f[<<Milieu(b) + 1, b[2]>>])
      <3>. DEFINE g == <<b[1], Milieu(b)>>
                  d == <<Milieu(b) + 1, b[2]>>
      <3>1. g \in Intervalles(T) /\ d \in Intervalles(T) /\ b[2] - b[1] \in Nat
            /\ g[2] - g[1] < b[2] - b[1] /\ d[2] - d[1] < b[2] - b[1]
        BY <2>2, <2>4, PlusCourts
      <3>2. e = b[2] - b[1] /\ b[2] - b[1] > 0
        <4>1. b[1] \in Int /\ b[2] \in Int
          BY <2>2 DEF Intervalles
        <4>. QED
          BY <2>1, <2>4, <4>1
      <3>. HIDE DEF g, d, Faux
      <3>3. Ecart(g) < e /\ Ecart(d) < e
        BY <3>1, <3>2
      <3>4. Trouve(T, o, g, f[g]) /\ Trouve(T, o, d, f[d])
        <4>. HIDE DEF Ecart
        <4>. QED
          BY <2>3, <3>1, <3>3
      <3>. QED
        BY <3>4 DEF g, d
    <2>5. Trouve(T, o, b, UneDichotomie(T, o, f, b))
      BY <2>2, <2>4, TourTrouve
    <2>. QED
      BY <1>1, <2>2, <2>5
  <1>4. E = {}
    <2>1. E \in SUBSET Nat
      BY <1>2
    <2>. HIDE DEF E
    <2>. QED
      BY <1>3, <2>1, NatMinimal
  <1>5. c \notin Faux
    BY <1>4
  <1>. QED
    BY <1>5

\* The first position whose offset is o or more, or the last one.
LEMMA PremierePositionBonne ==
  ASSUME NEW t, TableTriee(t.table), NEW o \in Nat
  PROVE  /\ premiere_position(t, o) \in 0..(Len(t.table) - 1)
         /\ \A p \in 1..premiere_position(t, o) : t.table[p] < o
         /\ premiere_position(t, o) = Len(t.table) - 1
              \/ t.table[premiere_position(t, o) + 1] >= o
  <1>. DEFINE T == t.table
              F == [b \in Intervalles(T) |-> CHOOSE v : Trouve(T, o, b, v)]
              fin == <<0, Len(T) - 1>>
  <1>1. \A b \in Intervalles(T) : Trouve(T, o, b, F[b])
    BY TrouveExiste
  <1>2. F = [b \in Intervalles(T) |-> UneDichotomie(T, o, F, b)]
    <2>. HIDE DEF F, T
    <2>1. ASSUME NEW b \in Intervalles(T) PROVE F[b] = UneDichotomie(T, o, F, b)
      <3>1. Trouve(T, o, b, UneDichotomie(T, o, F, b))
        BY <1>1, PlusCourts, TourTrouve DEF T
      <3>. QED
        BY <1>1, <3>1, TrouveUnique DEF T
    <2>2. F = [b \in Intervalles(T) |-> F[b]]
      BY DEF F
    <2>. QED
      BY <2>1, <2>2
  <1>3. PICK f : /\ f = [b \in Intervalles(T) |-> UneDichotomie(T, o, f, b)]
                 /\ premiere_position(t, o) = f[fin]
    <2>1. \E f : f = [b \in Intervalles(T) |-> UneDichotomie(T, o, f, b)]
      <3>. HIDE DEF F
      <3>. QED
        BY <1>2
    <2>. QED
      BY <2>1 DEF premiere_position, Intervalles, UneDichotomie, Milieu
  <1>4. fin \in Intervalles(T) /\ Len(T) \in Nat /\ Len(T) >= 1
    BY DEF Intervalles, TableTriee
  <1>5. Trouve(T, o, fin, f[fin])
    <2>. HIDE DEF T, fin
    <2>. QED
      BY <1>3, <1>4, ChercherTrouve DEF T
  <1>. DEFINE m == f[fin]
  <1>6. /\ m \in 0..(Len(T) - 1) /\ \A p \in 1..m : T[p] < o
        /\ m = Len(T) - 1 \/ T[m + 1] >= o
    <2>. HIDE DEF T, m
    <2>1. fin[1] = 0 /\ fin[2] = Len(T) - 1 /\ 0 + 1 = 1
      OBVIOUS
    <2>. HIDE DEF fin
    <2>2. CASE 0 >= Len(T) - 1
      <3>1. m = 0
        BY <1>5, <2>1, <2>2 DEF Trouve, m
      <3>2. PICK n \in Nat : n = Len(T)
        BY <1>4
      <3>3. n - 1 = 0
        BY <1>4, <2>2, <3>2
      <3>4. 0 \in 0..(n - 1) /\ 1..0 = {} /\ 0 = n - 1
        BY <3>3
      <3>. QED
        BY <3>1, <3>2, <3>4
    <2>3. CASE ~(0 >= Len(T) - 1)
      BY <1>5, <2>1, <2>3 DEF Trouve, m
    <2>. QED
      BY <2>2, <2>3
  <1>7. premiere_position(t, o) = m
    BY <1>3
  <1>. HIDE DEF m
  <1>. QED
    BY <1>6, <1>7 DEF T

\* The search separates the positions whose offset is o or more.
LEMMA PositionApres ==
  ASSUME NEW t, TableTriee(t.table), NEW o \in Nat, NEW p \in 0..(Len(t.table) - 2)
  PROVE  premiere_position(t, o) <= p <=> t.table[p + 1] >= o
  <1>. DEFINE T == t.table
              m == premiere_position(t, o)
  <1>1. /\ m \in 0..(Len(T) - 1) /\ \A q \in 1..m : T[q] < o
        /\ m = Len(T) - 1 \/ T[m + 1] >= o
    BY PremierePositionBonne
  <1>2. \A q \in 1..Len(T) : T[q] \in Nat
    BY DEF TableTriee
  <1>3. Len(T) \in Nat /\ \A q, r \in 1..Len(T) : q <= r => T[q] <= T[r]
    BY DEF TableTriee
  <1>. HIDE DEF T, m
  <1>4. Len(T) = Len(t.table)
    BY DEF T
  <1>5. p + 1 \in 1..Len(T) /\ p \in Nat
    BY <1>3, <1>4
  <1>6. ASSUME m <= p PROVE T[p + 1] >= o
    <2>1. m + 1 \in 1..Len(T) /\ m # Len(T) - 1 /\ m + 1 <= p + 1
      BY <1>1, <1>3, <1>4, <1>6
    <2>2. T[m + 1] >= o /\ T[m + 1] <= T[p + 1]
      BY <1>1, <1>3, <1>5, <2>1
    <2>. QED
      BY <1>2, <1>5, <2>1, <2>2
  <1>7. ASSUME ~(m <= p) PROVE T[p + 1] < o
    <2>1. p + 1 \in 1..m
      BY <1>1, <1>3, <1>5, <1>7
    <2>. QED
      BY <1>1, <2>1
  <1>. QED
    BY <1>2, <1>5, <1>6, <1>7 DEF T, m

-----------------------------------------------------------------------------
(* The pages *)

\* LongueurDe of the first pages is the running sum.
LEMMA LongueurPrefixe ==
  ASSUME NEW S, NEW pages \in Seq(Seq(S)), NEW L, Cumul(L, pages), NEW j \in 0..Len(pages)
  PROVE  LongueurDe(SubSeq(pages, 1, j)) = L[j]
  <1>. DEFINE u == SubSeq(pages, 1, j)
              M == [i \in 0..j |-> L[i]]
  <1>1. u \in Seq(Seq(S)) /\ Len(u) = j /\ j \in Nat /\ \A i \in 1..j : u[i] = pages[i]
    OBVIOUS
  <1>2. L \in [0..Len(pages) -> Nat] /\ L[0] = 0
        /\ \A k \in 1..Len(pages) : L[k] = L[k - 1] + Len(pages[k])
    BY DEF Cumul
  <1>3. Len(pages) \in Nat
    OBVIOUS
  <1>. HIDE DEF u
  <1>4. M \in [0..j -> Nat] /\ M[0] = 0 /\ M[j] = L[j]
    BY <1>2, <1>3
  <1>5. ASSUME NEW k \in 1..j PROVE M[k] = M[k - 1] + Len(u[k])
    <2>1. k \in 0..j /\ k - 1 \in 0..j /\ k \in 1..Len(pages)
      BY <1>3
    <2>2. M[k] = L[k] /\ M[k - 1] = L[k - 1]
      BY <2>1
    <2>. HIDE DEF M
    <2>. QED
      BY <1>1, <1>2, <2>1, <2>2
  <1>. HIDE DEF M
  <1>6. Cumul(M, u)
    BY <1>1, <1>4, <1>5 DEF Cumul
  <1>7. EnPlace(S, FlattenSeq(u), u, M, Len(u))
    BY <1>1, <1>6, BoutABout
  <1>. QED
    BY <1>1, <1>4, <1>7 DEF EnPlace, LongueurDe, u

\* page_de names the page whose characters hold the source of the position.
LEMMA PageDeLaSource ==
  ASSUME NEW s \in Seq(Car), NEW pages \in Seq(Seq(Car)), pages # <<>>,
         FlattenSeq(pages) = s, NEW p \in 0..(Len(TexteDe(s)) - 1)
  PROVE  LET b == BornesSource(pages)[page_de(BornesPages(normaliser(s), pages), p)]
             offset == vers_source(normaliser(s), p)
         IN b.debut <= offset /\ offset < b.fin
  <1>. DEFINE t == normaliser(s)
              T == TableDe(s)
              n == Len(pages)
              B == BornesPages(t, pages)
              K == {k \in DOMAIN B : B[k].debut <= p /\ p < B[k].fin}
  <1>1. /\ Len(TexteDe(s)) \in Nat /\ T \in Seq(Nat) /\ Len(T) = Len(TexteDe(s)) + 1
        /\ \A q \in 1..Len(TexteDe(s)) : T[q] \in 0..(Len(s) - 1)
        /\ \A q, r \in 1..(Len(TexteDe(s)) + 1) : q <= r => T[q] <= T[r]
    BY NormaliserBon
  <1>2. TableTriee(t.table) /\ t.table = T
    BY <1>1 DEF TableTriee, TableDe
  <1>. HIDE DEF t
  <1>3. p \in 0..(Len(t.table) - 2) /\ p \in Nat /\ p + 1 \in 1..Len(TexteDe(s))
    BY <1>1, <1>2
  <1>4. T[p + 1] \in 0..(Len(s) - 1) /\ vers_source(t, p) = T[p + 1]
    <2>1. T[p + 1] \in 0..(Len(s) - 1)
      BY <1>1, <1>3
    <2>2. Len(t.table) \in Nat
      BY <1>1, <1>2
    <2>3. ~ (p < 0) /\ ~ (p >= Len(t.table))
      BY <1>3, <2>2
    <2>. HIDE DEF T
    <2>. QED
      BY <1>2, <2>1, <2>3 DEF vers_source
  <1>5. PICK L : Cumul(L, pages)
    BY CumulExiste
  <1>6. /\ n \in Nat /\ DOMAIN pages = 1..n /\ \A k \in 0..n : L[k] \in Nat
        /\ Len(s) = L[n]
    BY <1>5, SuitesDeSuites, BoutABout DEF Cumul, EnPlace
  <1>7. BornesSource(pages) = [k \in 1..n |-> [debut |-> L[k - 1], fin |-> L[k]]]
    <2>1. \A k \in 1..n : /\ LongueurDe(SubSeq(pages, 1, k - 1)) = L[k - 1]
                          /\ LongueurDe(SubSeq(pages, 1, k)) = L[k]
      <3>1. \A k \in 1..n : k - 1 \in 0..n /\ k \in 0..n
        BY <1>6
      <3>. QED
        BY <1>5, <3>1, LongueurPrefixe
    <2>. HIDE DEF n
    <2>. QED
      BY <1>6, <2>1 DEF BornesSource
  <1>. DEFINE deb(k) == premiere_position(t, L[k - 1])
              fin(k) == premiere_position(t, L[k])
  <1>8. /\ DOMAIN B = 1..n
        /\ \A k \in 1..n : /\ B[k].debut = deb(k)
                          /\ B[k].fin = IF fin(k) < deb(k) THEN deb(k) ELSE fin(k)
    <2>1. B = [k \in 1..n |-> [debut |-> deb(k), fin |-> IF fin(k) < deb(k) THEN deb(k) ELSE fin(k)]]
      <3>. HIDE DEF n
      <3>. QED
        BY <1>6, <1>7 DEF BornesPages
    <2>. HIDE DEF B, deb, fin, n
    <2>. QED
      BY <2>1
  <1>9. \A k \in 1..n : /\ deb(k) \in Nat /\ fin(k) \in Nat
                        /\ deb(k) <= p <=> T[p + 1] >= L[k - 1]
                        /\ fin(k) <= p <=> T[p + 1] >= L[k]
    <2>1. ASSUME NEW k \in 1..n
          PROVE  /\ deb(k) \in Nat /\ fin(k) \in Nat
                 /\ deb(k) <= p <=> T[p + 1] >= L[k - 1]
                 /\ fin(k) <= p <=> T[p + 1] >= L[k]
      <3>1. k - 1 \in 0..n /\ k \in 0..n
        BY <1>6
      <3>2. L[k - 1] \in Nat /\ L[k] \in Nat
        BY <1>6, <3>1
      <3>. HIDE DEF T, n
      <3>3. ASSUME NEW o \in Nat PROVE premiere_position(t, o) \in Nat
        <4>1. premiere_position(t, o) \in 0..(Len(t.table) - 1)
          BY <1>2, PremierePositionBonne
        <4>. QED
          BY <4>1
      <3>4. \A o \in Nat : premiere_position(t, o) <= p <=> T[p + 1] >= o
        BY <1>2, <1>3, PositionApres
      <3>. QED
        BY <3>2, <3>3, <3>4
    <2>. QED
      BY <2>1
  <1>. HIDE DEF B, deb, fin
  <1>10. \A k \in 1..n : k \in K <=> L[k - 1] <= T[p + 1] /\ T[p + 1] < L[k]
    <2>1. ASSUME NEW k \in 1..n
          PROVE k \in K <=> L[k - 1] <= T[p + 1] /\ T[p + 1] < L[k]
      <3>1. L[k - 1] \in Nat /\ L[k] \in Nat
        <4>1. k - 1 \in 0..n /\ k \in 0..n
          BY <1>6
        <4>. QED
          BY <1>6, <4>1
      <3>2. T[p + 1] \in Nat
        BY <1>4
      <3>3. k \in K <=> deb(k) <= p /\ p < fin(k)
        <4>1. k \in K <=> B[k].debut <= p /\ p < B[k].fin
          BY <1>8
        <4>2. B[k].debut = deb(k) /\ B[k].fin = IF fin(k) < deb(k) THEN deb(k) ELSE fin(k)
          BY <1>8
        <4>3. deb(k) \in Nat /\ fin(k) \in Nat
          BY <1>9
        <4>. HIDE DEF K
        <4>. QED
          BY <1>3, <4>1, <4>2, <4>3
      <3>4. /\ deb(k) \in Nat /\ fin(k) \in Nat
            /\ deb(k) <= p <=> T[p + 1] >= L[k - 1]
            /\ fin(k) <= p <=> T[p + 1] >= L[k]
        BY <1>9
      <3>5. p \in Nat
        BY <1>3
      <3>. HIDE DEF K, T, n, deb, fin
      <3>6. deb(k) <= p <=> L[k - 1] <= T[p + 1]
        BY <3>1, <3>2, <3>4
      <3>7. p < fin(k) <=> ~ (fin(k) <= p)
        BY <3>4, <3>5
      <3>8. T[p + 1] < L[k] <=> ~ (T[p + 1] >= L[k])
        BY <3>1, <3>2
      <3>. QED
        BY <3>3, <3>4, <3>6, <3>7, <3>8
    <2>. QED
      BY <2>1
  <1>11. \E k \in 1..n : k \in K
    <2>1. T[p + 1] + 1 \in 1..L[n]
      <3>1. L[n] \in Nat
        BY <1>6
      <3>. HIDE DEF T, n
      <3>. QED
        BY <1>4, <1>6, <3>1
    <2>2. PICK k \in 1..n : L[k - 1] < T[p + 1] + 1 /\ T[p + 1] + 1 <= L[k]
      BY <1>5, <2>1, CumulBloc
    <2>3. L[k - 1] \in Nat /\ L[k] \in Nat
      <3>1. k - 1 \in 0..n /\ k \in 0..n
        BY <1>6
      <3>. QED
        BY <1>6, <3>1
    <2>4. T[p + 1] \in Nat
      BY <1>4
    <2>. HIDE DEF T, n, K
    <2>5. L[k - 1] <= T[p + 1] /\ T[p + 1] < L[k]
      <3>1. \A x, y \in Nat : /\ x < y + 1 => x <= y
                              /\ y + 1 <= x => y < x
        OBVIOUS
      <3>. QED
        BY <2>2, <2>3, <2>4, <3>1
    <2>. QED
      BY <1>10, <2>5
  <1>12. page_de(B, p) \in K
    <2>1. K \in SUBSET Nat /\ K # {}
      BY <1>8, <1>11
    <2>2. \E k \in K : \A l \in K : k <= l
      <3>. HIDE DEF K
      <3>. QED
        BY <2>1, NatMinimal
    <2>3. B # <<>>
      BY <1>8, <2>1
    <2>. QED
      BY <2>1, <2>2, <2>3 DEF page_de
  <1>13. page_de(B, p) \in 1..n
    BY <1>8, <1>12
  <1>. HIDE DEF K, T, n
  <1>14. LET b == BornesSource(pages)[page_de(B, p)]
             offset == vers_source(t, p)
         IN b.debut <= offset /\ offset < b.fin
    BY <1>4, <1>7, <1>10, <1>12, <1>13
  <1>. QED
    BY <1>14 DEF B, t

-----------------------------------------------------------------------------
(* What an extraction gives *)

Methodes == {"aucune", "erreur", "pdf", "ocr", "docx", "plain"}

\* The result of an extraction: its text is the raw text normalised, its pages are those
\* of the raw text, which they make up.
ResultatBon(r) ==
  /\ r.methode \in Methodes
  /\ r.brut \in Seq(Car) /\ r.texte = normaliser(r.brut)
  /\ r.pagesBrutes \in Seq(Seq(Car)) /\ r.pages = BornesPages(r.texte, r.pagesBrutes)
  /\ r.pagesBrutes # <<>> => FlattenSeq(r.pagesBrutes) = r.brut

\* What every extractor builds with Resultat is right, its boxes and method aside.
LEMMA ResultatDe ==
  ASSUME NEW brut \in Seq(Car), NEW methode \in Methodes, NEW pages \in Seq(Seq(Car)),
         pages # <<>> => FlattenSeq(pages) = brut
  PROVE  /\ ResultatBon(Resultat(brut, methode, pages))
         /\ \A b : ResultatBon([Resultat(brut, methode, pages) EXCEPT !.boites = b])
         /\ ResultatBon([Resultat(brut, methode, pages) EXCEPT !.methode = "erreur"])
  BY DEF ResultatBon, Resultat, Methodes

\* A text that is one page.
LEMMA UneSeulePage ==
  ASSUME NEW u \in Seq(Car)
  PROVE  <<u>> \in Seq(Seq(Car)) /\ FlattenSeq(<<u>>) = u
  <1>. DEFINE seqs == <<u>>
  <1>1. seqs \in Seq(Seq(Car)) /\ Len(seqs) = 1 /\ seqs[1] = u
    BY Courtes
  <1>. HIDE DEF seqs
  <1>2. PICK L : Cumul(L, seqs)
    BY <1>1, CumulExiste
  <1>3. EnPlace(Car, FlattenSeq(seqs), seqs, L, 1)
    BY <1>1, <1>2, BoutABout
  <1>4. L[0] = 0 /\ L[1] = Len(u)
    BY <1>1, <1>2 DEF Cumul
  <1>5. FlattenSeq(seqs) \in Seq(Car) /\ Len(FlattenSeq(seqs)) = Len(u)
    BY <1>3, <1>4 DEF EnPlace
  <1>6. \A p \in 1..Len(u) : FlattenSeq(seqs)[p] = u[p]
    <2>1. ASSUME NEW p \in 1..Len(u) PROVE FlattenSeq(seqs)[p] = u[p]
      <3>1. FlattenSeq(seqs)[L[1 - 1] + p] = seqs[1][p]
        BY <1>1, <1>3 DEF EnPlace
      <3>2. 1 - 1 = 0 /\ 0 + p = p
        OBVIOUS
      <3>. QED
        BY <1>1, <1>4, <3>1, <3>2
    <2>. QED
      BY <2>1
  <1>7. FlattenSeq(seqs) = u
    BY <1>5, <1>6
  <1>. QED
    BY <1>1, <1>7 DEF seqs

\* Sequences over a larger set.
LEMMA SousSuites ==
  ASSUME NEW A, NEW B, A \subseteq B
  PROVE  Seq(A) \subseteq Seq(B)
  <1>1. ASSUME NEW u \in Seq(A) PROVE u \in Seq(B)
    OBVIOUS
  <1>. QED
    BY <1>1

\* The elements of a sequence.
LEMMA ElementsDe ==
  ASSUME NEW S, NEW u \in Seq(S)
  PROVE  DOMAIN u = 1..Len(u) /\ Len(u) \in Nat /\ \A k \in DOMAIN u : u[k] \in S
  OBVIOUS

\* The words of a page.
Mots == [texte : Seq(Car), ligne : Nat, couche : SUBSET Nat]

\* A document is made of characters of Car.
LEMMA DeCaracteres ==
  /\ \A u \in Seq(STRING) : u \in Seq(Car)
  /\ \A d : DocumentPossible(d) =>
       /\ d.couches \in Seq(Seq(Car))
       /\ d.scans \in Seq(Seq(Mots))
  <1>. DEFINE M == [texte : Seq(STRING), ligne : Nat, couche : SUBSET Nat]
              N == [texte : Seq(Car), ligne : Nat, couche : SUBSET Nat]
  <1>1. Seq(STRING) \subseteq Seq(Car)
    <2>1. STRING \subseteq Car
      BY DEF Car
    <2>. QED
      BY <2>1, SousSuites
  <1>2. Seq(Seq(STRING)) \subseteq Seq(Seq(Car))
    BY <1>1, SousSuites
  <1>3. Seq(Seq(M)) \subseteq Seq(Seq(N))
    <2>1. M \subseteq N
      BY <1>1, SMTT(30)
    <2>. HIDE DEF M, N
    <2>2. Seq(M) \subseteq Seq(N)
      BY <2>1, SousSuites
    <2>. QED
      BY <2>2, SousSuites
  <1>. QED
    BY <1>1, <1>2, <1>3 DEF DocumentPossible, Mots

\* The words OCR reads, joined, make characters (ocr.py).
LEMMA AssemblerTypee ==
  ASSUME NEW mots \in Seq(Mots)
  PROVE  AssemblerMots(mots) \in Seq(Car)
  <1>. DEFINE joint(k) == IF k = 1 THEN <<>>
                          ELSE <<IF mots[k].ligne = mots[k - 1].ligne THEN " " ELSE "lf">>
              suite == [k \in DOMAIN mots |-> joint(k) \o mots[k].texte]
  <1>1. DOMAIN mots = 1..Len(mots) /\ Len(mots) \in Nat
        /\ \A k \in DOMAIN mots : mots[k].texte \in Seq(Car)
    <2>1. DOMAIN mots = 1..Len(mots) /\ Len(mots) \in Nat
          /\ \A k \in DOMAIN mots : mots[k] \in Mots
      BY ElementsDe
    <2>2. \A m \in Mots : m.texte \in Seq(Car)
      BY DEF Mots
    <2>. QED
      BY <2>1, <2>2
  <1>2. \A k \in DOMAIN mots : joint(k) \in Seq(Car)
    <2>1. " " \in Car /\ "lf" \in Car
      BY DEF Car
    <2>. QED
      BY <2>1, Courtes
  <1>. HIDE DEF joint
  <1>3. \A k \in DOMAIN mots : joint(k) \o mots[k].texte \in Seq(Car)
    BY <1>1, <1>2, MisALaSuite
  <1>4. suite \in Seq(Seq(Car))
    BY <1>1, <1>3
  <1>. HIDE DEF suite
  <1>5. FlattenSeq(suite) \in Seq(Car)
    BY <1>4, AplatieTypee
  <1>. QED
    BY <1>5 DEF AssemblerMots, suite, joint

\* An extraction that gives no text.
LEMMA SansTexteBon ==
  ASSUME NEW methode \in Methodes
  PROVE  /\ ResultatBon(SansTexte(methode))
         /\ ResultatBon([SansTexte(methode) EXCEPT !.methode = "erreur"])
  <1>1. <<>> \in Seq(Car) /\ <<>> \in Seq(Seq(Car))
    OBVIOUS
  <1>. QED
    BY <1>1, ResultatDe DEF SansTexte

\* The line feed between two pages is made of characters.
LEMMA SeparateurTypee == Separateur \in Seq(Car)
  <1>1. "lf" \in Car
    BY DEF Car
  <1>. QED
    BY <1>1, Courtes DEF Separateur

\* A PDF read by OCR (pdf.py).
LEMMA OcrPdfBon ==
  ASSUME NEW d, DocumentPossible(d)
  PROVE  ResultatBon(OcrPdf(d))
  <1>. DEFINE blocs == [k \in DOMAIN d.scans |-> BlocOcr(d.scans[k])]
              scans == d.scans
  <1>1. scans \in Seq(Seq(Mots))
    BY DeCaracteres
  <1>2. blocs \in Seq(Seq(Car))
    <2>. HIDE DEF scans
    <2>1. DOMAIN scans = 1..Len(scans) /\ Len(scans) \in Nat
          /\ \A k \in DOMAIN scans : scans[k] \in Seq(Mots)
      BY <1>1
    <2>2. \A k \in DOMAIN scans : AssemblerMots(scans[k]) \in Seq(Car)
      BY <2>1, AssemblerTypee
    <2>3. \A k \in DOMAIN scans : BlocOcr(scans[k]) \in Seq(Car)
      BY <2>2, SeparateurTypee, MisALaSuite DEF BlocOcr
    <2>4. [k \in DOMAIN scans |-> BlocOcr(scans[k])] \in Seq(Seq(Car))
      BY <2>1, <2>3
    <2>. QED
      BY <2>4 DEF scans
  <1>. HIDE DEF blocs
  <1>3. FlattenSeq(blocs) \in Seq(Car)
    BY <1>2, AplatieTypee
  <1>4. "ocr" \in Methodes
    BY DEF Methodes
  <1>5. \A b : ResultatBon([Resultat(FlattenSeq(blocs), "ocr", blocs) EXCEPT !.boites = b])
    BY <1>2, <1>3, <1>4, ResultatDe
  <1>6. ResultatBon(SansTexte("ocr"))
    BY <1>4, SansTexteBon
  <1>. QED
    BY <1>5, <1>6 DEF OcrPdf, blocs

\* A PDF, by its text layer or by OCR (pdf.py).
LEMMA ExtrairePdfBon ==
  ASSUME NEW d, DocumentPossible(d)
  PROVE  ResultatBon(ExtrairePdf(d))
  <1>. DEFINE c == d.couches
              s == AvecSeparateurs(c)
  <1>1. s \in Seq(Seq(Car))
    <2>1. c \in Seq(Seq(Car))
      BY DeCaracteres
    <2>. HIDE DEF c
    <2>2. DOMAIN c = 1..Len(c) /\ Len(c) \in Nat /\ \A k \in DOMAIN c : c[k] \in Seq(Car)
      BY <2>1
    <2>3. \A k \in DOMAIN c : c[k] \o Separateur \in Seq(Car)
      BY <2>2, SeparateurTypee, MisALaSuite
    <2>4. \A k \in DOMAIN c : (IF k < Len(c) THEN c[k] \o Separateur ELSE c[k]) \in Seq(Car)
      BY <2>2, <2>3
    <2>. QED
      BY <2>2, <2>4 DEF AvecSeparateurs
  <1>. HIDE DEF s
  <1>2. FlattenSeq(s) \in Seq(Car)
    BY <1>1, AplatieTypee
  <1>3. "pdf" \in Methodes
    BY DEF Methodes
  <1>4. ResultatBon(Resultat(FlattenSeq(s), "pdf", s))
    BY <1>1, <1>2, <1>3, ResultatDe
  <1>. QED
    BY <1>4, OcrPdfBon DEF ExtrairePdf, s

\* An extraction that gives one page.
LEMMA UnePageBon ==
  ASSUME NEW u \in Seq(Car), NEW methode \in Methodes
  PROVE  /\ ResultatBon(Resultat(u, methode, <<u>>))
         /\ \A b : ResultatBon([Resultat(u, methode, <<u>>) EXCEPT !.boites = b])
  BY UneSeulePage, ResultatDe

\* An extractor that raises (router.py).
LEMMA EchecBon == ResultatBon(Echec)
  BY SansTexteBon DEF Echec, Methodes

\* An image (ocr.py).
LEMMA ExtraireImageBon ==
  ASSUME NEW d, DocumentPossible(d), deviner_type(d) = "image"
  PROVE  ResultatBon(ExtraireImage(d))
  <1>1. AssemblerMots(d.scans[1]) \in Seq(Car)
    <2>1. d.scans # <<>> /\ d.scans \in Seq(Seq(Mots))
      BY DeCaracteres DEF DocumentPossible
    <2>2. d.scans[1] \in Seq(Mots)
      BY <2>1
    <2>. QED
      BY <2>2, AssemblerTypee
  <1>2. "ocr" \in Methodes
    BY DEF Methodes
  <1>. QED
    BY <1>1, <1>2, UnePageBon, EchecBon DEF ExtraireImage

\* A DOCX, its paragraphs that have a text (docx.py).
LEMMA ExtraireDocxBon ==
  ASSUME NEW d, DocumentPossible(d)
  PROVE  ResultatBon(ExtraireDocx(d))
  <1>. DEFINE c == d.couches
              n == Len(c)
              P == {k \in DOMAIN c : CaracteresUtiles(c[k]) > 0}
              gardees == EnOrdre(n, P)
              lignes == [k \in DOMAIN gardees |-> c[gardees[k]]]
              suite == [k \in DOMAIN lignes |->
                          IF k < Len(lignes) THEN lignes[k] \o <<"lf">> ELSE lignes[k]]
  <1>1. c \in Seq(Seq(Car))
    BY DeCaracteres
  <1>2. n \in Nat /\ DOMAIN c = 1..n /\ \A k \in 1..n : c[k] \in Seq(Car)
    <2>. HIDE DEF c
    <2>. QED
      BY <1>1
  <1>3. DOMAIN gardees = 1..Len(gardees) /\ Len(gardees) \in Nat
        /\ \A k \in DOMAIN gardees : gardees[k] \in 1..n
    <2>1. gardees \in Seq(P \intersect (1..n))
      <3>. HIDE DEF P, n
      <3>. QED
        BY <1>2, EnOrdreBon
    <2>. HIDE DEF gardees, P, n
    <2>. QED
      BY <2>1
  <1>. HIDE DEF gardees, n
  <1>4. DOMAIN lignes = 1..Len(gardees) /\ \A k \in DOMAIN lignes : lignes[k] \in Seq(Car)
    <2>. HIDE DEF c
    <2>. QED
      BY <1>2, <1>3
  <1>. HIDE DEF lignes
  <1>5. \A k \in DOMAIN lignes : lignes[k] \o <<"lf">> \in Seq(Car)
    <2>1. "lf" \in Car
      BY DEF Car
    <2>2. <<"lf">> \in Seq(Car)
      BY <2>1, Courtes
    <2>. QED
      BY <1>4, <2>2, MisALaSuite
  <1>6. suite \in Seq(Seq(Car))
    BY <1>3, <1>4, <1>5
  <1>. HIDE DEF suite
  <1>7. FlattenSeq(suite) \in Seq(Car) /\ "docx" \in Methodes
    BY <1>6, AplatieTypee DEF Methodes
  <1>8. ResultatBon(Resultat(FlattenSeq(suite), "docx", <<FlattenSeq(suite)>>))
    BY <1>7, UnePageBon
  <1>. QED
    BY <1>8, EchecBon DEF ExtraireDocx, suite, lignes, gardees, n

\* A text file (plain.py).
LEMMA ExtraireTexteBon ==
  ASSUME NEW d, DocumentPossible(d), deviner_type(d) = "texte"
  PROVE  ResultatBon(ExtraireTexte(d))
  <1>1. d.couches # <<>> /\ d.couches \in Seq(Seq(Car))
    BY DeCaracteres DEF DocumentPossible
  <1>2. d.couches[1] \in Seq(Car)
    BY <1>1
  <1>3. "plain" \in Methodes
    BY DEF Methodes
  <1>. QED
    BY <1>2, <1>3, UnePageBon DEF ExtraireTexte

\* Every path of the router gives a right result.
LEMMA ExtraireBon ==
  ASSUME NEW d, DocumentPossible(d)
  PROVE  ResultatBon(extraire(d))
  <1>1. deviner_type(d) \in {"pdf", "docx", "image", "texte"}
    BY DEF deviner_type, Familles
  <1>2. "aucune" \in Methodes
    BY DEF Methodes
  <1>. QED
    BY <1>1, <1>2, SansTexteBon, ExtrairePdfBon, ExtraireDocxBon, ExtraireImageBon,
       ExtraireTexteBon DEF extraire

-----------------------------------------------------------------------------
(* normaliser reads a run or a cluster without looking outside of it: what *)
(* it makes of a window of whole runs and clusters is what it made of them *)
(* in the text.                                                            *)

Fenetre(s, off, e) ==
  /\ off \in 0..Len(s) /\ e \in 0..Len(s) /\ off < e
  /\ Commence(s, off + 1)
  /\ e = Len(s) \/ Commence(s, e + 1)

\* The characters of a window.
LEMMA DansFenetre ==
  ASSUME NEW s \in Seq(Car), NEW off, NEW e, Fenetre(s, off, e)
  PROVE  /\ off \in Nat /\ e \in Nat /\ e - off \in Nat /\ Len(s) \in Nat /\ e <= Len(s)
         /\ SubSeq(s, off + 1, e) \in Seq(Car)
         /\ Len(SubSeq(s, off + 1, e)) = e - off
         /\ \A i \in 1..(e - off) : /\ SubSeq(s, off + 1, e)[i] = s[i + off]
                                   /\ i + off \in 1..Len(s)
  <1>1. off \in Nat /\ e \in Nat /\ e - off \in Nat /\ Len(s) \in Nat /\ e <= Len(s) /\ off < e
    BY DEF Fenetre
  <1>2. SubSeq(s, off + 1, e) \in Seq(Car) /\ Len(SubSeq(s, off + 1, e)) = e - off
    BY <1>1
  <1>3. ASSUME NEW i \in 1..(e - off)
        PROVE  SubSeq(s, off + 1, e)[i] = s[i + off] /\ i + off \in 1..Len(s)
    <2>1. SubSeq(s, off + 1, e)[i] = s[off + 1 + i - 1]
      BY <1>1
    <2>2. off + 1 + i - 1 = i + off /\ i + off \in 1..Len(s)
      BY <1>1
    <2>. QED
      BY <2>1, <2>2
  <1>. QED
    BY <1>1, <1>2, <1>3

\* The characters of a window, alone.
LEMMA CaractereDeFenetre ==
  ASSUME NEW s \in Seq(Car), NEW off, NEW e, Fenetre(s, off, e)
  PROVE  \A i \in 1..(e - off) : SubSeq(s, off + 1, e)[i] = s[i + off]
  BY DansFenetre

\* From a place of the text to one of the window,
LEMMA Recule ==
  ASSUME NEW x \in Nat, NEW o \in Nat, NEW f \in Nat, o < x, x <= f
  PROVE  x - o \in 1..(f - o) /\ (x - o) + o = x
  OBVIOUS

\* and back.
LEMMA Avance ==
  ASSUME NEW o \in Nat, NEW f \in Nat, NEW x \in 1..(f - o)
  PROVE  x \in Int /\ o < x + o /\ x + o <= f /\ (x + o) - o = x
  OBVIOUS

\* A run or cluster begins in the window where it begins in the text,
LEMMA CommenceDansFenetre ==
  ASSUME NEW s \in Seq(Car), NEW off, NEW e, Fenetre(s, off, e), NEW i \in 1..(e - off)
  PROVE  Commence(SubSeq(s, off + 1, e), i) <=> Commence(s, i + off)
  <1>. DEFINE u == SubSeq(s, off + 1, e)
  <1>1. off \in Nat /\ e \in Nat /\ u[i] = s[i + off]
    BY DansFenetre
  <1>2. CASE i = 1
    <2>1. i + off = off + 1
      BY <1>1, <1>2
    <2>. QED
      BY <1>2, <2>1 DEF Fenetre, Commence
  <1>3. CASE i # 1
    <2>1. i - 1 \in 1..(e - off) /\ (i - 1) + off = (i + off) - 1 /\ i + off # 1
      BY <1>1, <1>3
    <2>2. u[i - 1] = s[(i + off) - 1]
      <3>1. u[i - 1] = s[(i - 1) + off]
        <4>1. \A k \in 1..(e - off) : u[k] = s[k + off]
          BY <1>1, CaractereDeFenetre, SMTT(30)
        <4>. HIDE DEF u
        <4>. QED
          BY <2>1, <4>1
      <3>. QED
        BY <2>1, <3>1
    <2>. HIDE DEF u
    <2>3. EstBlanc(u, i) <=> EstBlanc(s, i + off)
      BY <1>1 DEF EstBlanc
    <2>4. EstBlanc(u, i - 1) <=> EstBlanc(s, (i + off) - 1)
      BY <2>2 DEF EstBlanc
    <2>5. Commence(u, i) <=> Commence(s, i + off)
      BY <1>1, <1>3, <2>1, <2>3, <2>4 DEF Commence
    <2>. QED
      BY <2>5 DEF u
  <1>. QED
    BY <1>2, <1>3

\* Suivant is the only place that SuivantBon describes,
LEMMA SuivantUnique ==
  ASSUME NEW s \in Seq(Car), NEW i \in 1..Len(s), NEW j \in (i + 1)..(Len(s) + 1),
         j = Len(s) + 1 \/ Commence(s, j), \A k \in (i + 1)..(j - 1) : ~Commence(s, k)
  PROVE  Suivant(s, i) = j
  <1>. DEFINE l == Suivant(s, i)
  <1>1. /\ l \in (i + 1)..(Len(s) + 1) /\ (l = Len(s) + 1 \/ Commence(s, l))
        /\ \A k \in (i + 1)..(l - 1) : ~Commence(s, k)
    BY SuivantBon
  <1>. HIDE DEF l
  <1>2. Len(s) \in Nat
    OBVIOUS
  <1>3. ~(l < j)
    <2>1. l < j => l \in (i + 1)..(j - 1) /\ l # Len(s) + 1
      BY <1>1, <1>2
    <2>. QED
      BY <1>1, <2>1
  <1>4. ~(j < l)
    <2>1. j < l => j \in (i + 1)..(l - 1) /\ j # Len(s) + 1
      BY <1>1, <1>2
    <2>. QED
      BY <1>1, <2>1
  <1>5. l = j
    BY <1>1, <1>2, <1>3, <1>4
  <1>. QED
    BY <1>5 DEF l

\* and it is the same place in the window.
LEMMA SuivantDansFenetre ==
  ASSUME NEW s \in Seq(Car), NEW off, NEW e, Fenetre(s, off, e), NEW i \in 1..(e - off)
  PROVE  /\ Suivant(s, i + off) - off = Suivant(SubSeq(s, off + 1, e), i)
         /\ Suivant(s, i + off) - off \in (i + 1)..(e - off + 1)
  <1>. DEFINE u == SubSeq(s, off + 1, e)
              j == Suivant(s, i + off)
  <1>1. /\ off \in Nat /\ e \in Nat /\ e - off \in Nat /\ Len(s) \in Nat /\ e <= Len(s)
        /\ u \in Seq(Car) /\ Len(u) = e - off /\ i + off \in 1..Len(s)
    BY DansFenetre
  <1>2. /\ j \in (i + off + 1)..(Len(s) + 1) /\ (j = Len(s) + 1 \/ Commence(s, j))
        /\ \A k \in (i + off + 1)..(j - 1) : ~Commence(s, k)
    BY <1>1, SuivantBon
  <1>3. \A k \in 1..(e - off) : Commence(u, k) <=> Commence(s, k + off)
    BY CommenceDansFenetre
  <1>4. e = Len(s) \/ Commence(s, e + 1)
    BY DEF Fenetre
  <1>. HIDE DEF u, j
  <1>5. j <= e + 1
    <2>1. e = Len(s) => j <= e + 1
      BY <1>1, <1>2
    <2>2. ASSUME e + 1 < j, Commence(s, e + 1) PROVE FALSE
      <3>1. e + 1 \in (i + off + 1)..(j - 1)
        BY <1>1, <1>2, <2>2
      <3>. QED
        BY <1>2, <2>2, <3>1
    <2>. QED
      BY <1>1, <1>2, <1>4, <2>1, <2>2
  <1>6. j - off \in (i + 1)..(Len(u) + 1) /\ i \in 1..Len(u)
    BY <1>1, <1>2, <1>5
  <1>7. j - off = Len(u) + 1 \/ Commence(u, j - off)
    <2>1. CASE j = e + 1
      BY <1>1, <2>1
    <2>2. CASE j # e + 1
      <3>1. j - off \in 1..(e - off) /\ (j - off) + off = j /\ j # Len(s) + 1
        BY <1>1, <1>2, <1>5, <2>2
      <3>. QED
        BY <1>2, <1>3, <3>1
    <2>. QED
      BY <2>1, <2>2
  <1>8. ASSUME NEW k \in (i + 1)..(j - off - 1) PROVE ~Commence(u, k)
    <2>1. k \in 1..(e - off) /\ k + off \in (i + off + 1)..(j - 1)
      BY <1>1, <1>2, <1>5
    <2>. QED
      BY <1>2, <1>3, <2>1
  <1>9. Suivant(u, i) = j - off
    BY <1>1, <1>6, <1>7, <1>8, SuivantUnique
  <1>. QED
    BY <1>1, <1>6, <1>9 DEF u, j

LesSauts(s, i, j) ==
  {k \in i..(j - 1) : \/ s[k] = "cr"
                      \/ s[k] = "lf" /\ ~(k > i /\ s[k - 1] = "cr")}

\* A break, by its definition.
LEMMA UnSaut ==
  ASSUME NEW s, NEW i, NEW j, NEW k \in i..(j - 1)
  PROVE  k \in LesSauts(s, i, j) <=>
           s[k] = "cr" \/ (s[k] = "lf" /\ ~(k > i /\ s[k - 1] = "cr"))
  BY DEF LesSauts

\* As many breaks in the window as in the text.
LEMMA SautsDansFenetre ==
  ASSUME NEW s \in Seq(Car), NEW off, NEW e, Fenetre(s, off, e), NEW i \in 1..(e - off),
         NEW j \in (i + 1)..(e - off + 1)
  PROVE  Sauts(SubSeq(s, off + 1, e), i, j) = Sauts(s, i + off, j + off)
  <1>. DEFINE u == SubSeq(s, off + 1, e)
              A == LesSauts(u, i, j)
              B == LesSauts(s, i + off, j + off)
              f == [k \in A |-> k + off]
  <1>1. off \in Nat /\ e \in Nat /\ e - off \in Nat /\ i \in Nat /\ j \in Nat
    BY DansFenetre
  <1>2. \A k \in i..(j - 1) : k + off \in (i + off)..(j + off - 1) /\ k \in 1..(e - off)
    BY <1>1
  <1>3. \A k \in 1..(e - off) : u[k] = s[k + off]
    <2>1. \A k \in 1..(e - off) : SubSeq(s, off + 1, e)[k] = s[k + off]
      BY <1>1, CaractereDeFenetre, SMTT(30)
    <2>. QED
      BY <2>1
  <1>. HIDE DEF u
  <1>4. ASSUME NEW k \in i..(j - 1) PROVE k \in A <=> k + off \in B
    <2>1. u[k] = s[k + off]
      BY <1>2, <1>3
    <2>2. k > i <=> k + off > i + off
      BY <1>1
    <2>3. k > i => u[k - 1] = s[(k + off) - 1]
      <3>1. k > i => k - 1 \in 1..(e - off) /\ (k - 1) + off = (k + off) - 1
        BY <1>1
      <3>. QED
        BY <1>3, <3>1
    <2>. QED
      <3>1. k \in A <=> u[k] = "cr" \/ (u[k] = "lf" /\ ~(k > i /\ u[k - 1] = "cr"))
        BY DEF LesSauts
      <3>2. k + off \in B <=>
              s[k + off] = "cr" \/ (s[k + off] = "lf" /\ ~(k + off > i + off /\ s[(k + off) - 1] = "cr"))
        <4>1. k + off \in (i + off)..((j + off) - 1)
          BY <1>1
        <4>. QED
          BY <4>1, UnSaut
      <3>. HIDE DEF A, B
      <3>. QED
        BY <2>1, <2>2, <2>3, <3>1, <3>2
  <1>5. f \in [A -> B]
    BY <1>2, <1>4 DEF LesSauts
  <1>6. \A x, y \in A : f[x] = f[y] => x = y
    BY <1>1 DEF LesSauts
  <1>7. ASSUME NEW y \in B PROVE \E x \in A : f[x] = y
    <2>1. y - off \in i..(j - 1) /\ (y - off) + off = y
      BY <1>1 DEF LesSauts
    <2>2. y - off \in A
      BY <1>4, <2>1
    <2>. QED
      BY <2>1, <2>2
  <1>. HIDE DEF f, B
  <1>8. ExistsBijection(A, B)
    <2>. HIDE DEF A
    <2>. QED
      BY <1>5, <1>6, <1>7 DEF ExistsBijection, Bijection, Injection, Surjection, IsInjective
  <1>9. IsFiniteSet(A)
    <2>1. IsFiniteSet(i..(j - 1)) /\ A \subseteq i..(j - 1)
      BY <1>1, FS_Interval DEF LesSauts
    <2>. HIDE DEF A
    <2>. QED
      BY <2>1, FS_Subset
  <1>10. Cardinality(A) = Cardinality(B)
    <2>. HIDE DEF A
    <2>. QED
      BY <1>8, <1>9, FS_Bijection
  <1>. QED
    BY <1>10 DEF Sauts, LesSauts, A, B, u

\* A part of a sequence.
LEMMA PartieDe ==
  ASSUME NEW S, NEW s \in Seq(S), NEW a \in Nat, NEW b \in Nat, a >= 1, b <= Len(s), a <= b + 1
  PROVE  /\ SubSeq(s, a, b) \in Seq(S) /\ Len(SubSeq(s, a, b)) = b + 1 - a
         /\ \A k \in 1..(b + 1 - a) : SubSeq(s, a, b)[k] = s[a + k - 1]
  OBVIOUS

\* What a block becomes does not depend on what is around it.
LEMMA BlocDansFenetre ==
  ASSUME NEW s \in Seq(Car), NEW off, NEW e, Fenetre(s, off, e), NEW i \in 1..(e - off)
  PROVE  Bloc(SubSeq(s, off + 1, e), i) = Bloc(s, i + off)
  <1>. DEFINE u == SubSeq(s, off + 1, e)
              j == Suivant(u, i)
              l == Suivant(s, i + off)
  <1>1. j \in (i + 1)..(e - off + 1) /\ j = l - off
    BY SuivantDansFenetre
  <1>2. /\ off \in Nat /\ e \in Nat /\ e - off \in Nat /\ Len(s) \in Nat /\ e <= Len(s)
        /\ u \in Seq(Car) /\ Len(u) = e - off
        /\ \A k \in 1..(e - off) : u[k] = s[k + off]
    BY DansFenetre
  <1>3. l \in (i + off + 1)..(Len(s) + 1)
    <2>1. i + off \in 1..Len(s)
      BY DansFenetre
    <2>. QED
      BY <2>1, SuivantBon
  <1>4. Sauts(u, i, j) = Sauts(s, i + off, l)
    <2>1. Sauts(u, i, j) = Sauts(s, i + off, j + off)
      BY <1>1, SautsDansFenetre
    <2>2. j + off = l
      <3>. HIDE DEF j, l, u
      <3>. QED
        BY <1>1, <1>2, <1>3
    <2>. QED
      BY <2>1, <2>2
  <1>. HIDE DEF u, j, l
  <1>5. SubSeq(u, i, j - 1) = SubSeq(s, i + off, l - 1)
    <2>. DEFINE v == SubSeq(u, i, j - 1)
                w == SubSeq(s, i + off, l - 1)
    <2>1. v \in Seq(Car) /\ Len(v) = j - i /\ \A k \in 1..(j - i) : v[k] = u[i + k - 1]
      <3>1. i \in Nat /\ j \in Nat /\ i >= 1 /\ i < j /\ j - 1 \in 1..Len(u) /\ i \in 1..Len(u)
        BY <1>1, <1>2
      <3>. QED
        BY <1>2, <3>1
    <2>2. w \in Seq(Car) /\ Len(w) = l - (i + off)
          /\ \A k \in 1..(l - (i + off)) : w[k] = s[i + off + k - 1]
      <3>1. /\ i + off \in Nat /\ l - 1 \in Nat /\ i + off >= 1 /\ l - 1 <= Len(s)
            /\ i + off <= (l - 1) + 1 /\ (l - 1) + 1 - (i + off) = l - (i + off)
        BY <1>2, <1>3
      <3>. HIDE DEF w
      <3>2. /\ w \in Seq(Car) /\ Len(w) = (l - 1) + 1 - (i + off)
            /\ \A k \in 1..((l - 1) + 1 - (i + off)) : w[k] = s[i + off + k - 1]
        BY <3>1, PartieDe DEF w
      <3>. QED
        BY <3>1, <3>2
    <2>3. l - (i + off) = j - i
      BY <1>1, <1>2, <1>3
    <2>4. ASSUME NEW k \in 1..(j - i) PROVE v[k] = w[k]
      <3>1. i + k - 1 \in 1..(e - off) /\ (i + k - 1) + off = i + off + k - 1
        BY <1>1, <1>2
      <3>. QED
        BY <1>2, <2>1, <2>2, <2>3, <3>1
    <2>. HIDE DEF v, w
    <2>5. v = w
      BY <2>1, <2>2, <2>3, <2>4
    <2>. QED
      BY <2>5 DEF v, w
  <1>6. EstBlanc(u, i) <=> EstBlanc(s, i + off)
    BY <1>2 DEF EstBlanc
  <1>7. Bloc(u, i) = Bloc(s, i + off)
    BY <1>4, <1>5, <1>6 DEF Bloc, j, l
  <1>. QED
    BY <1>7 DEF u

Croissante(u, m) ==
  (\A k \in 1..m : u[k] \in Nat) /\ (\A j, k \in 1..m : j < k => u[j] < u[k])

Parmi(u, m, v, n) == \A k \in 1..m : \E j \in 1..n : v[j] = u[k]

\* Two strictly increasing sequences with the same members are the same.
LEMMA MemeSuite ==
  ASSUME NEW m \in Nat, NEW n \in Nat, NEW u, NEW v,
         Croissante(u, m), Croissante(v, n), Parmi(u, m, v, n), Parmi(v, n, u, m)
  PROVE  m = n /\ \A k \in 1..m : u[k] = v[k]
  <1>. USE DEF Croissante, Parmi
  <1>. DEFINE T == {k \in 1..m : k \in 1..n /\ u[k] # v[k]}
  <1>1. ASSUME NEW k \in T, \A l \in T : k <= l PROVE FALSE
    <2>1. k \in 1..m /\ k \in 1..n /\ u[k] # v[k]
      OBVIOUS
    <2>2. ASSUME NEW l \in 1..m, NEW l2 \in 1..n, l = l2, l < k PROVE u[l] = v[l]
      <3>1. l \notin T
        <4>1. l \in T => k <= l
          BY <1>1
        <4>2. ~(k <= l)
          BY <2>1, <2>2
        <4>. QED
          BY <4>1, <4>2
      <3>. QED
        BY <2>2, <3>1
    <2>. HIDE DEF T
    <2>3. CASE u[k] < v[k]
      <3>1. PICK j \in 1..n : v[j] = u[k]
        BY <2>1
      <3>2. j < k
        <4>1. ~(k < j)
          BY <2>1, <2>3, <3>1
        <4>2. j # k
          BY <2>1, <3>1
        <4>. QED
          BY <2>1, <4>1, <4>2
      <3>3. j \in 1..m
        BY <2>1, <3>2
      <3>4. u[j] = v[j] /\ u[j] < u[k]
        BY <2>1, <2>2, <3>2, <3>3
      <3>. QED
        BY <2>1, <3>1, <3>4
    <2>4. CASE v[k] < u[k]
      <3>1. PICK j \in 1..m : u[j] = v[k]
        BY <2>1
      <3>2. j < k
        <4>1. ~(k < j)
          BY <2>1, <2>4, <3>1
        <4>2. j # k
          BY <2>1, <3>1
        <4>. QED
          BY <2>1, <4>1, <4>2
      <3>3. j \in 1..n
        BY <2>1, <3>2
      <3>4. u[j] = v[j] /\ v[j] < v[k]
        BY <2>1, <2>2, <3>2, <3>3
      <3>. QED
        BY <2>1, <3>1, <3>4
    <2>. QED
      BY <2>1, <2>3, <2>4
  <1>2. T = {}
    <2>1. T \in SUBSET Nat
      OBVIOUS
    <2>. HIDE DEF T
    <2>. QED
      BY <1>1, <2>1, NatMinimal
  <1>3. \A k \in 1..m : k \in 1..n => u[k] = v[k]
    BY <1>2
  <1>4. ~(m < n)
    <2>. SUFFICES ASSUME m < n PROVE FALSE
      OBVIOUS
    <2>1. m + 1 \in 1..n
      OBVIOUS
    <2>2. PICK j \in 1..m : u[j] = v[m + 1]
      BY <2>1
    <2>3. j \in 1..n /\ j < m + 1
      OBVIOUS
    <2>4. v[j] = v[m + 1] /\ v[j] < v[m + 1] /\ v[j] \in Nat
      BY <1>3, <2>1, <2>2, <2>3
    <2>. QED
      BY <2>4
  <1>5. ~(n < m)
    <2>. SUFFICES ASSUME n < m PROVE FALSE
      OBVIOUS
    <2>1. n + 1 \in 1..m
      OBVIOUS
    <2>2. PICK j \in 1..n : v[j] = u[n + 1]
      BY <2>1
    <2>3. j \in 1..m /\ j < n + 1
      OBVIOUS
    <2>4. u[j] = u[n + 1] /\ u[j] < u[n + 1] /\ u[j] \in Nat
      BY <1>3, <2>1, <2>2, <2>3
    <2>. QED
      BY <2>4
  <1>. QED
    BY <1>3, <1>4, <1>5

\* Where the a-th run or cluster begins in the source, the end of the source after the
\* last one.
Depart(s, a) == IF a = Len(Debuts(s)) + 1 THEN Len(s) ELSE Debuts(s)[a] - 1

\* The runs and clusters from the a-th to the one before the b-th make a window.
LEMMA FenetreDeBlocs ==
  ASSUME NEW s \in Seq(Car), NEW a \in 1..Len(Debuts(s)), NEW b \in (a + 1)..(Len(Debuts(s)) + 1)
  PROVE  /\ Fenetre(s, Depart(s, a), Depart(s, b))
         /\ \A k \in 1..Len(Debuts(s)) :
              k \in a..(b - 1) <=> Depart(s, a) < Debuts(s)[k] /\ Debuts(s)[k] <= Depart(s, b)
  <1>. DEFINE D == Debuts(s)
              n == Len(D)
              off == Depart(s, a)
              e == Depart(s, b)
  <1>1. /\ n \in Nat /\ Len(s) \in Nat
        /\ \A k \in 1..n : D[k] \in 1..Len(s) /\ Commence(s, D[k])
        /\ \A j, k \in 1..n : j < k => D[j] < D[k]
    BY DebutsBons
  <1>2. off = D[a] - 1 /\ e = IF b = n + 1 THEN Len(s) ELSE D[b] - 1
    BY <1>1 DEF Depart
  <1>. HIDE DEF D, n, off, e
  <1>3. a \in 1..n /\ b \in (a + 1)..(n + 1)
    BY DEF n, D
  <1>4. off \in 0..Len(s) /\ e \in 0..Len(s) /\ off < e /\ off + 1 = D[a]
    <2>1. CASE b = n + 1
      BY <1>1, <1>2, <1>3, <2>1
    <2>2. CASE b # n + 1
      <3>1. b \in 1..n /\ a < b
        BY <1>1, <1>3, <2>2
      <3>2. D[a] \in 1..Len(s) /\ D[b] \in 1..Len(s) /\ D[a] < D[b]
        BY <1>1, <1>3, <3>1
      <3>3. off = D[a] - 1 /\ e = D[b] - 1
        BY <1>2, <2>2
      <3>4. \A x, y \in 1..Len(s) :
              x < y => /\ x - 1 \in 0..Len(s) /\ y - 1 \in 0..Len(s)
                       /\ x - 1 < y - 1 /\ (x - 1) + 1 = x
        BY <1>1
      <3>. QED
        BY <3>2, <3>3, <3>4
    <2>. QED
      BY <2>1, <2>2
  <1>5. e = Len(s) \/ Commence(s, e + 1)
    <2>1. CASE b = n + 1
      BY <1>2, <2>1
    <2>2. CASE b # n + 1
      <3>1. b \in 1..n
        BY <1>1, <1>3, <2>2
      <3>2. e + 1 = D[b]
        BY <1>1, <1>2, <2>2, <3>1
      <3>. QED
        BY <1>1, <3>1, <3>2
    <2>. QED
      BY <2>1, <2>2
  <1>6. Fenetre(s, off, e)
    BY <1>1, <1>3, <1>4, <1>5 DEF Fenetre
  <1>7. ASSUME NEW k \in 1..n PROVE k \in a..(b - 1) <=> off < D[k] /\ D[k] <= e
    <2>1. D[k] \in 1..Len(s) /\ D[a] \in 1..Len(s)
      BY <1>1, <1>3
    <2>2. a <= k <=> off < D[k]
      <3>1. a < k => D[a] < D[k]
        BY <1>1, <1>3
      <3>2. k < a => D[k] < D[a]
        BY <1>1, <1>3
      <3>3. k \in Int /\ a \in Int
        BY <1>1, <1>3
      <3>. QED
        BY <1>2, <2>1, <3>1, <3>2, <3>3
    <2>3. k < b <=> D[k] <= e
      <3>1. CASE b = n + 1
        BY <1>1, <1>2, <2>1, <3>1
      <3>2. CASE b # n + 1
        <4>1. b \in 1..n /\ e = D[b] - 1
          BY <1>1, <1>2, <1>3, <3>2
        <4>2. k < b => D[k] < D[b]
          BY <1>1, <4>1
        <4>3. b < k => D[b] < D[k]
          BY <1>1, <4>1
        <4>4. D[b] \in 1..Len(s) /\ k \in Int /\ b \in Int
          BY <1>1, <4>1
        <4>. QED
          BY <2>1, <4>1, <4>2, <4>3, <4>4
      <3>. QED
        BY <3>1, <3>2
    <2>. QED
      BY <1>1, <1>3, <2>2, <2>3
  <1>. QED
    BY <1>6, <1>7 DEF off, e, D, n

\* The blocks of the window are those of the text.
LEMMA DebutsDeFenetre ==
  ASSUME NEW s \in Seq(Car), NEW a \in 1..Len(Debuts(s)), NEW b \in (a + 1)..(Len(Debuts(s)) + 1)
  PROVE  LET u == SubSeq(s, Depart(s, a) + 1, Depart(s, b))
         IN /\ Len(Debuts(u)) = b - a
            /\ \A k \in 1..(b - a) : Debuts(u)[k] + Depart(s, a) = Debuts(s)[a + k - 1]
  <1>. DEFINE D == Debuts(s)
              n == Len(D)
              off == Depart(s, a)
              e == Depart(s, b)
              u == SubSeq(s, off + 1, e)
              E == Debuts(u)
              F == [k \in 1..(b - a) |-> D[a + k - 1] - off]
  <1>1. Fenetre(s, off, e) /\ \A k \in 1..n : k \in a..(b - 1) <=> off < D[k] /\ D[k] <= e
    BY FenetreDeBlocs
  <1>2. /\ n \in Nat /\ Len(s) \in Nat
        /\ \A k \in 1..n : D[k] \in 1..Len(s) /\ Commence(s, D[k])
        /\ \A j, k \in 1..n : j < k => D[j] < D[k]
        /\ \A i \in 1..Len(s) : Commence(s, i) => \E k \in 1..n : D[k] = i
    BY DebutsBons
  <1>3. /\ off \in Nat /\ e \in Nat /\ e - off \in Nat /\ e <= Len(s)
        /\ u \in Seq(Car) /\ Len(u) = e - off
        /\ \A i \in 1..(e - off) : i + off \in 1..Len(s)
    BY <1>1, DansFenetre
  <1>4. \A i \in 1..(e - off) : Commence(u, i) <=> Commence(s, i + off)
    BY <1>1, CommenceDansFenetre
  <1>5. a \in 1..n /\ b \in (a + 1)..(n + 1)
    OBVIOUS
  <1>. HIDE DEF D, n, off, e, u
  <1>6. /\ Len(E) \in Nat
        /\ \A k \in 1..Len(E) : E[k] \in 1..(e - off) /\ Commence(u, E[k])
        /\ \A j, k \in 1..Len(E) : j < k => E[j] < E[k]
        /\ \A i \in 1..(e - off) : Commence(u, i) => \E k \in 1..Len(E) : E[k] = i
    BY <1>3, DebutsBons
  <1>. HIDE DEF E
  <1>7. b - a \in Nat /\ \A k \in 1..(b - a) : a + k - 1 \in 1..n /\ a + k - 1 \in a..(b - 1)
    BY <1>2, <1>5
  <1>8. ASSUME NEW k \in 1..(b - a)
        PROVE  F[k] = D[a + k - 1] - off /\ F[k] \in 1..(e - off) /\ Commence(u, F[k])
    <2>1. F[k] = D[a + k - 1] - off
      OBVIOUS
    <2>2. D[a + k - 1] \in 1..Len(s) /\ Commence(s, D[a + k - 1])
          /\ off < D[a + k - 1] /\ D[a + k - 1] <= e
      BY <1>1, <1>2, <1>7
    <2>. HIDE DEF F
    <2>3. F[k] \in 1..(e - off) /\ F[k] + off = D[a + k - 1]
      <3>1. D[a + k - 1] \in Nat
        BY <2>2
      <3>2. /\ D[a + k - 1] - off \in 1..(e - off)
            /\ (D[a + k - 1] - off) + off = D[a + k - 1]
        BY <1>3, <2>2, <3>1, Recule
      <3>. QED
        BY <2>1, <3>2
    <2>4. Commence(u, F[k]) <=> Commence(s, F[k] + off)
      BY <1>4, <2>3
    <2>5. Commence(u, F[k])
      BY <2>2, <2>3, <2>4
    <2>. QED
      BY <2>1, <2>3, <2>5
  <1>. HIDE DEF F
  <1>9. ASSUME NEW j \in 1..(b - a), NEW k \in 1..(b - a), j < k PROVE F[j] < F[k]
    <2>1. a + j - 1 \in 1..n /\ a + k - 1 \in 1..n /\ a + j - 1 < a + k - 1
      <3>1. a + j - 1 \in 1..n
        BY <1>7
      <3>2. a + k - 1 \in 1..n
        BY <1>7
      <3>3. a \in Int /\ j \in Int /\ k \in Int
        BY <1>2, <1>5, <1>7
      <3>. QED
        BY <1>9, <3>1, <3>2, <3>3
    <2>2. D[a + j - 1] < D[a + k - 1] /\ D[a + j - 1] \in Nat /\ D[a + k - 1] \in Nat
      BY <1>2, <2>1
    <2>3. F[j] = D[a + j - 1] - off /\ F[k] = D[a + k - 1] - off
      BY <1>8
    <2>4. \A x, y \in Nat : x < y => x - off < y - off
      BY <1>3
    <2>. QED
      BY <2>2, <2>3, <2>4
  <1>10. ASSUME NEW k \in 1..Len(E) PROVE \E j \in 1..(b - a) : F[j] = E[k]
    <2>1. E[k] \in 1..(e - off) /\ Commence(s, E[k] + off) /\ E[k] + off \in 1..Len(s)
      BY <1>3, <1>4, <1>6
    <2>2. PICK l \in 1..n : D[l] = E[k] + off
      BY <1>2, <2>1
    <2>3. off < D[l] /\ D[l] <= e
      <3>1. off < E[k] + off /\ E[k] + off <= e
        BY <1>3, <2>1, Avance
      <3>. QED
        BY <2>2, <3>1
    <2>4. l \in a..(b - 1)
      BY <1>1, <2>3
    <2>5. l - a + 1 \in 1..(b - a) /\ a + (l - a + 1) - 1 = l
      BY <1>5, <1>2, <2>4
    <2>6. F[l - a + 1] = D[l] - off
      BY <1>8, <2>5
    <2>7. F[l - a + 1] = E[k]
      <3>1. E[k] \in Int /\ (E[k] + off) - off = E[k]
        BY <1>3, <2>1, Avance
      <3>. QED
        BY <2>2, <2>6, <3>1
    <2>. QED
      BY <2>5, <2>7
  <1>11. \A k \in 1..(b - a) : \E j \in 1..Len(E) : E[j] = F[k]
    BY <1>6, <1>8
  <1>12. Len(E) = b - a /\ \A k \in 1..Len(E) : E[k] = F[k]
    <2>1. \A k \in 1..Len(E) : E[k] \in Nat
      BY <1>6
    <2>2. \A k \in 1..(b - a) : F[k] \in Nat
      BY <1>8
    <2>3. PICK m \in Nat : m = b - a
      BY <1>7
    <2>4. PICK l \in Nat : l = Len(E)
      BY <1>6
    <2>5. Croissante(E, l) /\ Croissante(F, m)
      BY <1>6, <1>9, <2>1, <2>2, <2>3, <2>4 DEF Croissante
    <2>6. Parmi(E, l, F, m) /\ Parmi(F, m, E, l)
      BY <1>10, <1>11, <2>3, <2>4 DEF Parmi
    <2>7. l = m /\ \A k \in 1..l : E[k] = F[k]
      BY <2>5, <2>6, MemeSuite
    <2>. QED
      BY <2>3, <2>4, <2>7
  <1>13. ASSUME NEW k \in 1..(b - a) PROVE E[k] + off = D[a + k - 1]
    <2>1. D[a + k - 1] \in Nat
      <3>1. a + k - 1 \in 1..n
        BY <1>7
      <3>2. D[a + k - 1] \in 1..Len(s)
        BY <1>2, <3>1
      <3>. QED
        BY <3>2
    <2>2. E[k] = D[a + k - 1] - off
      BY <1>8, <1>12
    <2>3. (D[a + k - 1] - off) + off = D[a + k - 1]
      BY <1>3, <2>1
    <2>. QED
      BY <2>2, <2>3
  <1>. QED
    BY <1>12, <1>13 DEF E, u, off, e, D, n

\* Two sequences with the same elements.
LEMMA MemesCaracteres ==
  ASSUME NEW S, NEW u \in Seq(S), NEW v \in Seq(S), Len(u) = Len(v),
         \A k \in 1..Len(u) : u[k] = v[k]
  PROVE  u = v
  OBVIOUS

\* What makes up sequences put end to end is FlattenSeq of them.
LEMMA BoutABoutUnique ==
  ASSUME NEW S, NEW seqs \in Seq(Seq(S)), NEW L, Cumul(L, seqs), NEW s,
         EnPlace(S, s, seqs, L, Len(seqs))
  PROVE  s = FlattenSeq(seqs)
  <1>. DEFINE t == FlattenSeq(seqs)
              n == Len(seqs)
  <1>1. EnPlace(S, t, seqs, L, n)
    BY BoutABout
  <1>. HIDE DEF t
  <1>2. s \in Seq(S) /\ t \in Seq(S) /\ Len(s) = L[n] /\ Len(t) = L[n]
    BY <1>1 DEF EnPlace
  <1>3. ASSUME NEW q \in 1..Len(s) PROVE s[q] = t[q]
    <2>1. PICK k \in 1..n : q - L[k - 1] \in 1..Len(seqs[k])
      BY <1>2, CumulBloc
    <2>2. L[k - 1] \in Nat /\ L[k - 1] + (q - L[k - 1]) = q
      <3>1. k - 1 \in 0..n /\ L \in [0..n -> Nat]
        BY DEF Cumul
      <3>. HIDE DEF n
      <3>2. L[k - 1] \in Nat
        BY <3>1
      <3>3. q \in Nat
        BY <1>2
      <3>. QED
        BY <3>2, <3>3
    <2>3. s[L[k - 1] + (q - L[k - 1])] = seqs[k][q - L[k - 1]]
      BY <2>1 DEF EnPlace
    <2>4. t[L[k - 1] + (q - L[k - 1])] = seqs[k][q - L[k - 1]]
      BY <1>1, <2>1 DEF EnPlace
    <2>. QED
      BY <2>2, <2>3, <2>4
  <1>4. s = t
    BY <1>2, <1>3, MemesCaracteres
  <1>. QED
    BY <1>4 DEF t

\* The text of a window of runs and clusters is the part of the text they made.
LEMMA TexteDeFenetre ==
  ASSUME NEW s \in Seq(Car), NEW L, Decoupe(s, L), NEW a \in 1..Len(Debuts(s)),
         NEW b \in (a + 1)..(Len(Debuts(s)) + 1)
  PROVE  TexteDe(SubSeq(s, Depart(s, a) + 1, Depart(s, b))) =
           SubSeq(TexteDe(s), L[a - 1] + 1, L[b - 1])
  <1>. DEFINE D == Debuts(s)
              n == Len(D)
              B == Blocs(s)
              t == TexteDe(s)
              off == Depart(s, a)
              e == Depart(s, b)
              u == SubSeq(s, off + 1, e)
              E == Debuts(u)
              C == Blocs(u)
              v == TexteDe(u)
  <1>1. /\ n \in Nat /\ B \in Seq(Seq(Car)) /\ Len(B) = n /\ Cumul(L, B)
        /\ EnPlace(Car, t, B, L, n) /\ DOMAIN D = 1..n
    BY DebutsBons, BlocsTypes DEF Decoupe
  <1>2. Fenetre(s, off, e)
    BY FenetreDeBlocs
  <1>3. u \in Seq(Car) /\ off \in Nat /\ e \in Nat /\ Len(u) = e - off
    BY <1>2, DansFenetre
  <1>4. Len(E) = b - a /\ \A k \in 1..(b - a) : E[k] + off = D[a + k - 1]
    BY DebutsDeFenetre
  <1>5. \A i \in 1..(e - off) : Bloc(u, i) = Bloc(s, i + off)
    BY <1>2, BlocDansFenetre
  <1>6. a \in 1..n /\ b \in (a + 1)..(n + 1)
    OBVIOUS
  <1>. HIDE DEF u
  <1>7. /\ C \in Seq(Seq(Car)) /\ Len(C) = Len(E) /\ DOMAIN E = 1..Len(E)
        /\ \A k \in 1..Len(E) : E[k] \in 1..(e - off)
    BY <1>3, BlocsTypes, DebutsBons
  <1>8. \A k \in 1..Len(E) : C[k] = Bloc(u, E[k])
    BY <1>7 DEF Blocs
  <1>9. \A k \in 1..n : B[k] = Bloc(s, D[k])
    BY <1>1 DEF Blocs
  <1>. HIDE DEF D, n, B, t, off, e, E, C
  <1>10. \A k \in 1..(b - a) : a + k - 1 \in 1..n /\ (a + k - 1) - 1 = a - 1 + (k - 1)
    BY <1>1, <1>6
  <1>11. ASSUME NEW k \in 1..(b - a) PROVE C[k] = B[a + k - 1]
    <2>1. E[k] \in 1..(e - off) /\ a + k - 1 \in 1..n /\ E[k] + off = D[a + k - 1]
      BY <1>4, <1>7, <1>10
    <2>2. C[k] = Bloc(u, E[k])
      BY <1>4, <1>8
    <2>3. Bloc(u, E[k]) = Bloc(s, E[k] + off)
      BY <1>5, <2>1
    <2>. QED
      BY <1>9, <2>1, <2>2, <2>3
  <1>12. PICK M : Cumul(M, C)
    BY <1>7, CumulExiste
  <1>13. EnPlace(Car, v, C, M, b - a)
    <2>1. v = FlattenSeq(C)
      BY NormaliserParBlocs DEF C
    <2>. HIDE DEF v
    <2>. QED
      BY <1>4, <1>7, <1>12, <2>1, BoutABout
  <1>14. \A k \in 0..n : L[k] \in Nat
    BY <1>1 DEF Cumul
  <1>15. \A k \in 0..(b - a) : M[k] \in Nat
    BY <1>4, <1>7, <1>12 DEF Cumul
  <1>16. \A k \in 0..(b - a) : a - 1 + k \in 0..n
    BY <1>1, <1>6
  <1>17. \A k \in 0..(b - a) : L[a - 1 + k] = L[a - 1] + M[k]
    <2>. DEFINE Faux == {k \in 0..(b - a) : L[a - 1 + k] # L[a - 1] + M[k]}
    <2>0. b - a \in Nat /\ a - 1 \in 0..n /\ a - 1 + 0 = a - 1
      BY <1>1, <1>6
    <2>1. ASSUME NEW k \in Faux, \A l \in Faux : k <= l PROVE FALSE
      <3>1. k \in 0..(b - a) /\ L[a - 1 + k] # L[a - 1] + M[k]
        OBVIOUS
      <3>2. CASE k = 0
        <4>1. M[0] = 0 /\ L[a - 1] \in Nat
          BY <1>12, <1>14, <2>0 DEF Cumul
        <4>2. L[a - 1] = L[a - 1] + 0
          BY <4>1
        <4>. QED
          BY <2>0, <3>1, <3>2, <4>1, <4>2
      <3>3. CASE k # 0
        <4>1. k - 1 \in 0..(b - a) /\ ~(k <= k - 1) /\ k \in 1..(b - a)
              /\ a - 1 + k = a + k - 1 /\ a - 1 + (k - 1) = (a + k - 1) - 1
          BY <1>6, <2>0, <3>1, <3>3
        <4>2. k - 1 \notin Faux
          BY <2>1, <4>1
        <4>3. L[a - 1 + (k - 1)] = L[a - 1] + M[k - 1]
          BY <4>1, <4>2
        <4>. HIDE DEF Faux
        <4>4. M[k] = M[k - 1] + Len(C[k])
          BY <1>4, <1>7, <1>12, <4>1 DEF Cumul
        <4>5. L[a + k - 1] = L[(a + k - 1) - 1] + Len(B[a + k - 1])
          BY <1>1, <1>10, <4>1 DEF Cumul
        <4>6. M[k - 1] \in Nat /\ L[a - 1] \in Nat /\ Len(C[k]) \in Nat
          <5>1. Len(C[k]) \in Nat
            BY <1>4, <1>7, <4>1, SuitesDeSuites
          <5>. QED
            BY <1>14, <1>15, <2>0, <4>1, <5>1
        <4>7. Len(B[a + k - 1]) = Len(C[k])
          BY <1>11, <4>1
        <4>8. L[a - 1 + k] = (L[a - 1] + M[k - 1]) + Len(C[k])
          BY <4>1, <4>3, <4>5, <4>7
        <4>9. L[a - 1 + k] = L[a - 1] + M[k]
          BY <4>4, <4>6, <4>8
        <4>. QED
          BY <3>1, <4>9
      <3>. QED
        BY <3>2, <3>3
    <2>2. Faux = {}
      <3>1. Faux \in SUBSET Nat
        BY <2>0
      <3>. HIDE DEF Faux
      <3>. QED
        BY <2>1, <3>1, NatMinimal
    <2>. QED
      BY <2>2
  <1>18. L[b - 1] = L[a - 1] + M[b - a] /\ L[a - 1] \in Nat /\ M[b - a] \in Nat
         /\ L[b - 1] \in Nat /\ L[b - 1] <= Len(t) /\ Len(t) = L[n] /\ L[n] \in Nat
    <2>1. b - a \in 0..(b - a) /\ a - 1 + (b - a) = b - 1 /\ a - 1 \in 0..n /\ b - 1 \in 0..n
          /\ n \in (b - 1)..n /\ n \in 0..n
      BY <1>1, <1>6
    <2>2. L[b - 1] <= L[n]
      BY <1>1, <2>1, CumulCroit
    <2>. QED
      BY <1>1, <1>14, <1>15, <1>17, <2>1, <2>2 DEF EnPlace
  <1>19. v \in Seq(Car) /\ Len(v) = M[b - a] /\ t \in Seq(Car)
    BY <1>1, <1>13 DEF EnPlace
  <1>20. ASSUME NEW r \in 1..M[b - a] PROVE v[r] = t[L[a - 1] + r]
    <2>1. PICK k \in 1..(b - a) : M[k - 1] < r /\ r - M[k - 1] \in 1..Len(C[k])
      BY <1>4, <1>7, <1>12, CumulBloc
    <2>2. k - 1 \in 0..(b - a) /\ a + k - 1 \in 1..n /\ (a + k - 1) - 1 = a - 1 + (k - 1)
      BY <1>6, <1>10
    <2>3. M[k - 1] \in Nat /\ r \in Nat
      BY <1>15, <1>18, <2>2
    <2>. DEFINE x == r - M[k - 1]
    <2>4. x \in 1..Len(C[k]) /\ M[k - 1] + x = r
      BY <2>1, <2>3
    <2>. HIDE DEF x
    <2>5. v[r] = C[k][x]
      BY <1>13, <2>4 DEF EnPlace
    <2>6. C[k] = B[a + k - 1]
      BY <1>11
    <2>7. t[L[(a + k - 1) - 1] + x] = B[a + k - 1][x]
      BY <1>1, <2>2, <2>4, <2>6 DEF EnPlace
    <2>8. L[(a + k - 1) - 1] = L[a - 1] + M[k - 1]
      BY <1>17, <2>2
    <2>9. (L[a - 1] + M[k - 1]) + x = L[a - 1] + r
      <3>. DEFINE y == L[a - 1]
                  z == M[k - 1]
      <3>1. y \in Nat /\ z \in Nat /\ x \in Int /\ z + x = r
        BY <1>18, <2>3, <2>4
      <3>. HIDE DEF y, z
      <3>2. (y + z) + x = y + r
        BY <3>1
      <3>. QED
        BY <3>2 DEF y, z
    <2>. QED
      BY <2>5, <2>6, <2>7, <2>8, <2>9
  <1>. DEFINE w == SubSeq(t, L[a - 1] + 1, L[b - 1])
  <1>21. w \in Seq(Car) /\ Len(w) = M[b - a] /\ \A r \in 1..M[b - a] : w[r] = t[L[a - 1] + r]
    <2>. DEFINE x == L[a - 1]
                y == L[b - 1]
                m == M[b - a]
    <2>1. x \in Nat /\ y \in Nat /\ m \in Nat /\ y = x + m /\ y <= Len(t) /\ t \in Seq(Car)
      BY <1>18, <1>19
    <2>. HIDE DEF x, y, m
    <2>2. LET z == SubSeq(t, x + 1, y)
          IN z \in Seq(Car) /\ Len(z) = m /\ \A r \in 1..m : z[r] = t[(x + 1) + r - 1]
      BY <2>1
    <2>3. \A r \in 1..m : (x + 1) + r - 1 = x + r
      BY <2>1
    <2>4. LET z == SubSeq(t, x + 1, y)
          IN z \in Seq(Car) /\ Len(z) = m /\ \A r \in 1..m : z[r] = t[x + r]
      BY <2>2, <2>3
    <2>. QED
      BY <2>4 DEF x, y, m
  <1>. HIDE DEF v, w
  <1>22. v = w
    <2>1. Len(v) = Len(w) /\ \A k \in 1..Len(v) : v[k] = w[k]
      BY <1>19, <1>20, <1>21
    <2>. QED
      BY <1>19, <1>21, <2>1, MemesCaracteres
  <1>. QED
    BY <1>22 DEF v, w, t, u, off, e

\* A position where a run or a cluster of the source begins.
Debute(s, p) ==
  p \in {0, Len(TexteDe(s))} \/ TableDe(s)[p] < TableDe(s)[p + 1]

\* An aligned position of the text is the beginning of a block.
LEMMA DebuteUnBloc ==
  ASSUME NEW s \in Seq(Car), NEW L, Decoupe(s, L), NEW p \in 0..Len(TexteDe(s)), Debute(s, p)
  PROVE  \E a \in 1..(Len(Debuts(s)) + 1) : L[a - 1] = p /\ TableDe(s)[p + 1] = Depart(s, a)
  <1>. DEFINE t == TexteDe(s)
              T == TableDe(s)
              D == Debuts(s)
              n == Len(D)
              B == Blocs(s)
  <1>1. /\ n \in Nat /\ B \in Seq(Seq(Car)) /\ Len(B) = n /\ Cumul(L, B)
        /\ Len(t) = L[n] /\ L[0] = 0
        /\ T[Len(t) + 1] = Len(s)
        /\ \A k \in 0..n : L[k] \in Nat
        /\ \A k \in 1..n : L[k] = L[k - 1] + Len(B[k])
        /\ \A k \in 1..n : \A x \in 1..Len(B[k]) : T[L[k - 1] + x] = D[k] - 1
        /\ \A k \in 1..n : Len(B[k]) \in Nat /\ D[k] \in 1..Len(s)
    <2>1. /\ B \in Seq(Seq(Car)) /\ Len(B) = n /\ n \in Nat /\ \A k \in 1..n : D[k] \in 1..Len(s)
      BY BlocsTypes, DebutsBons
    <2>2. /\ Cumul(L, B) /\ EnPlace(Car, t, B, L, n) /\ T[Len(t) + 1] = Len(s)
          /\ \A k \in 1..n : \A x \in 1..Len(B[k]) : T[L[k - 1] + x] = D[k] - 1
      BY DEF Decoupe
    <2>. HIDE DEF B, D, n, t, T
    <2>3. \A k \in 1..n : Len(B[k]) \in Nat
      BY <2>1, SuitesDeSuites
    <2>. QED
      BY <2>1, <2>2, <2>3 DEF Cumul, EnPlace
  <1>2. CASE p = Len(t)
    <2>1. n + 1 \in 1..(n + 1) /\ (n + 1) - 1 = n
      BY <1>1
    <2>. QED
      BY <1>1, <1>2, <2>1 DEF Depart
  <1>3. CASE p # Len(t)
    <2>1. p + 1 \in 1..Len(t) /\ p \in Nat /\ Len(t) \in Nat
      BY <1>1, <1>3
    <2>2. PICK k \in 1..n : /\ L[k - 1] < p + 1 /\ p + 1 <= L[k]
                           /\ T[p + 1] = D[k] - 1
      BY <2>1, DansUnBloc
    <2>3. L[k - 1] \in Nat /\ L[k] \in Nat
      <3>1. k - 1 \in 0..n /\ k \in 0..n
        BY <1>1
      <3>. QED
        BY <1>1, <3>1
    <2>4. L[k - 1] = p
      <3>1. SUFFICES ASSUME L[k - 1] < p PROVE FALSE
        BY <2>1, <2>2, <2>3
      <3>. DEFINE x == p - L[k - 1]
      <3>2. x \in 1..Len(B[k]) /\ L[k - 1] + x = p
        <4>1. L[k] = L[k - 1] + Len(B[k]) /\ Len(B[k]) \in Nat
          BY <1>1
        <4>. HIDE DEF B, n
        <4>. QED
          BY <2>1, <2>2, <2>3, <3>1, <4>1
      <3>3. T[p] = D[k] - 1
        <4>. HIDE DEF x
        <4>. QED
          BY <1>1, <3>2
      <3>4. p # 0 /\ D[k] - 1 \in Int
        <4>1. D[k] \in 1..Len(s)
          BY <1>1
        <4>. QED
          BY <2>3, <3>1, <4>1
      <3>5. T[p] < T[p + 1]
        BY <1>3, <3>4 DEF Debute
      <3>. QED
        BY <2>2, <3>3, <3>4, <3>5
    <2>5. k \in 1..(n + 1) /\ k # n + 1
      BY <1>1
    <2>6. Depart(s, k) = D[k] - 1
      BY <2>5 DEF Depart
    <2>. QED
      BY <2>2, <2>4, <2>5, <2>6
  <1>. QED
    BY <1>2, <1>3

\* The source of an aligned slice of the text is normalised into that slice.
LEMMA TrancheFidele ==
  ASSUME NEW s \in Seq(Car), NEW p \in 0..Len(TexteDe(s)), NEW q \in 0..Len(TexteDe(s)), p < q,
         Debute(s, p), Debute(s, q)
  PROVE  TexteDe(SubSeq(s, TableDe(s)[p + 1] + 1, TableDe(s)[q + 1])) = SubSeq(TexteDe(s), p + 1, q)
  <1>. DEFINE n == Len(Debuts(s))
  <1>1. PICK L : Decoupe(s, L)
    BY DecoupeExiste
  <1>2. PICK a \in 1..(n + 1) : L[a - 1] = p /\ TableDe(s)[p + 1] = Depart(s, a)
    BY <1>1, DebuteUnBloc
  <1>3. PICK b \in 1..(n + 1) : L[b - 1] = q /\ TableDe(s)[q + 1] = Depart(s, b)
    BY <1>1, DebuteUnBloc
  <1>4. n \in Nat /\ Cumul(L, Blocs(s)) /\ Blocs(s) \in Seq(Seq(Car)) /\ Len(Blocs(s)) = n
    BY <1>1, DebutsBons, BlocsTypes DEF Decoupe
  <1>. HIDE DEF n
  <1>5. a < b
    <2>. SUFFICES ASSUME ~(a < b) PROVE FALSE
      OBVIOUS
    <2>1. b - 1 \in 0..n /\ a - 1 \in (b - 1)..n
      BY <1>4
    <2>2. L[b - 1] <= L[a - 1]
      BY <1>4, <2>1, CumulCroit
    <2>. QED
      BY <1>2, <1>3, <2>2
  <1>6. a \in 1..n /\ b \in (a + 1)..(n + 1)
    BY <1>4, <1>5
  <1>. QED
    BY <1>1, <1>2, <1>3, <1>6, TexteDeFenetre DEF n

-----------------------------------------------------------------------------
(* Where the ends of a word go in the working text *)

\* An offset of an interval.
LEMMA DansLIntervalle ==
  ASSUME NEW x \in Nat, NEW a \in Nat, NEW b \in Nat, x + 1 \in (a + 1)..b
  PROVE  a <= x /\ x < b
  OBVIOUS

\* The page before another one.
LEMMA PageAvant ==
  ASSUME NEW n \in Nat, NEW j \in 1..n, NEW k \in 1..n, j < k
  PROVE  k - 1 \in j..n /\ k - 1 \in 0..n
  OBVIOUS

\* Tuples of at most two elements of a set.
LEMMA UnOuDeux ==
  ASSUME NEW S, NEW c \in S
  PROVE  /\ Len(<<c>>) >= 1 /\ \A p \in 1..Len(<<c>>) : <<c>>[p] \in S
         /\ Len(<<c, c>>) >= 1 /\ \A p \in 1..Len(<<c, c>>) : <<c, c>>[p] \in S
  <1>1. Len(<<c>>) = 1 /\ Len(<<c, c>>) = 2
    OBVIOUS
  <1>2. ASSUME NEW p \in 1..1 PROVE <<c>>[p] \in S
    OBVIOUS
  <1>3. ASSUME NEW p \in 1..2 PROVE <<c, c>>[p] \in S
    <2>1. p \in Int /\ (p = 1 \/ p = 2)
      OBVIOUS
    <2>. QED
      BY <2>1
  <1>. QED
    BY <1>1, <1>2, <1>3

\* A run of blanks leaves blanks, and at least one.
LEMMA BlocBlanc ==
  ASSUME NEW s \in Seq(Car), NEW i \in 1..Len(s), EstBlanc(s, i)
  PROVE  Len(Bloc(s, i)) >= 1 /\ \A p \in 1..Len(Bloc(s, i)) : Bloc(s, i)[p] \in Blancs
  <1>1. Bloc(s, i) \in {<<" ">>, <<"lf">>, <<"lf", "lf">>}
    BY DEF Bloc, ReduireBlancs
  <1>2. ASSUME NEW b \in {<<" ">>, <<"lf">>, <<"lf", "lf">>}
        PROVE  Len(b) >= 1 /\ \A p \in 1..Len(b) : b[p] \in Blancs
    <2>1. \A c \in Blancs : b = <<c>> \/ b = <<c, c>> =>
            Len(b) >= 1 /\ \A p \in 1..Len(b) : b[p] \in Blancs
      BY UnOuDeux
    <2>2. " " \in Blancs /\ "lf" \in Blancs
      BY DEF Blancs
    <2>. QED
      BY <2>1, <2>2
  <1>. QED
    BY <1>1, <1>2

\* A cluster is dropped only when it begins with the byte order mark.
LEMMA BlocPlein ==
  ASSUME NEW s \in Seq(Car), NEW i \in 1..Len(s), s[i] # "bom"
  PROVE  Len(Bloc(s, i)) >= 1 /\ Len(Bloc(s, i)) \in Nat
  <1>1. CASE EstBlanc(s, i)
    <2>1. Len(Bloc(s, i)) \in Nat
      BY BlocTypee
    <2>. QED
      BY <1>1, <2>1, BlocBlanc
  <1>2. CASE ~EstBlanc(s, i)
    <2>. DEFINE j == Suivant(s, i)
                u == SubSeq(s, i, j - 1)
                g == ComposerGrappe(u)
                F == [k \in DOMAIN g |-> Ligature(g[k])]
    <2>1. j \in (i + 1)..(Len(s) + 1)
      BY SuivantBon
    <2>. HIDE DEF j
    <2>2. u \in Seq(Car) /\ Len(u) >= 1 /\ u[1] = s[i] /\ Len(u) \in Nat
      BY <2>1
    <2>. HIDE DEF u
    <2>3. g \in Seq(Car) /\ Len(g) >= 1 /\ g[1] # "bom" /\ Len(g) \in Nat
      <3>1. g \in Seq(Car)
        BY <2>2, GrappeTypee
      <3>2. CASE Len(u) >= 2 /\ u[1] = "a"
        <4>. DEFINE v == SubSeq(u, 3, Len(u))
        <4>1. "a^" \in Car
          BY DEF Car
        <4>2. <<"a^">> \in Seq(Car) /\ Len(<<"a^">>) = 1
          BY <4>1, Courtes
        <4>3. v \in Seq(Car)
          BY <2>2
        <4>. HIDE DEF v
        <4>4. g = <<"a^">> \o v
          BY <3>2 DEF ComposerGrappe, v
        <4>5. Len(g) = 1 + Len(v) /\ g[1] = "a^" /\ Len(v) \in Nat
          BY <4>2, <4>3, <4>4, MisALaSuite
        <4>. QED
          BY <3>1, <4>5
      <3>3. CASE ~(Len(u) >= 2 /\ u[1] = "a")
        BY <2>2, <3>3 DEF ComposerGrappe
      <3>. QED
        BY <3>2, <3>3
    <2>. HIDE DEF g
    <2>4. F \in Seq(Seq(Car)) /\ Len(F) = Len(g) /\ \A k \in 1..Len(g) : F[k] = Ligature(g[k])
      <3>1. DOMAIN g = 1..Len(g) /\ \A k \in DOMAIN g : g[k] \in Car
        BY <2>3
      <3>2. \A k \in DOMAIN g : Ligature(g[k]) \in Seq(Car)
        BY <3>1, LigatureTypee
      <3>. QED
        BY <2>3, <3>1, <3>2
    <2>. HIDE DEF F
    <2>5. Len(F[1]) >= 1
      <3>1. F[1] = Ligature(g[1])
        <4>1. 1 \in 1..Len(g)
          BY <2>3
        <4>. QED
          BY <2>4, <4>1
      <3>2. Len(<<g[1]>>) = 1 /\ Len(<<"f", "i">>) = 2 /\ Len(<<"'">>) = 1
        OBVIOUS
      <3>3. F[1] \in {<<g[1]>>, <<"f", "i">>, <<"'">>}
        BY <2>3, <3>1 DEF Ligature
      <3>. QED
        BY <3>2, <3>3
    <2>6. PICK L : Cumul(L, F)
      BY <2>4, CumulExiste
    <2>7. FlattenSeq(F) \in Seq(Car) /\ Len(FlattenSeq(F)) = L[Len(F)]
      BY <2>4, <2>6, BoutABout DEF EnPlace
    <2>8. L[1] <= L[Len(F)]
      <3>1. 1 \in 0..Len(F) /\ Len(F) \in 1..Len(F)
        BY <2>3, <2>4
      <3>. QED
        BY <2>4, <2>6, <3>1, CumulCroit
    <2>9. L[0] = 0 /\ L[1] = L[0] + Len(F[1]) /\ L[Len(F)] \in Nat
      <3>1. 1 \in 1..Len(F) /\ Len(F) \in 0..Len(F) /\ 1 - 1 = 0
        BY <2>3, <2>4
      <3>. QED
        BY <2>6, <3>1 DEF Cumul
    <2>10. F[1] \in Seq(Car) /\ Len(F[1]) \in Nat
      <3>1. 1 \in 1..Len(F)
        BY <2>3, <2>4
      <3>. QED
        BY <2>4, <3>1, SuitesDeSuites
    <2>11. Bloc(s, i) = FlattenSeq(F)
      BY <1>2 DEF Bloc, F, g, u, j
    <2>. QED
      BY <2>5, <2>7, <2>8, <2>9, <2>10, <2>11
  <1>. QED
    BY <1>1, <1>2

\* The offset where a block that is not dropped begins is in the table.
LEMMA OffsetAtteint ==
  ASSUME NEW s \in Seq(Car), NEW i \in 1..Len(s), Commence(s, i), s[i] # "bom"
  PROVE  \E p \in 1..Len(TexteDe(s)) : TableDe(s)[p] = i - 1
  <1>1. PICK k \in 1..Len(Debuts(s)) : Debuts(s)[k] = i
    BY DebutsBons
  <1>2. PICK L : Decoupe(s, L)
    BY DecoupeExiste
  <1>. DEFINE B == Blocs(s)
              n == Len(Debuts(s))
  <1>3. B \in Seq(Seq(Car)) /\ Len(B) = n /\ n \in Nat /\ Cumul(L, B) /\ Len(TexteDe(s)) = L[n]
    BY <1>2, BlocsTypes, DebutsBons DEF Decoupe, EnPlace
  <1>4. B[k] = Bloc(s, i)
    BY <1>1, DebutsBons DEF Blocs
  <1>5. Len(B[k]) >= 1 /\ Len(B[k]) \in Nat
    BY <1>4, BlocPlein
  <1>6. TableDe(s)[L[k - 1] + 1] = i - 1
    <2>1. 1 \in 1..Len(B[k])
      BY <1>5
    <2>. QED
      BY <1>1, <1>2, <2>1 DEF Decoupe
  <1>. HIDE DEF B, n
  <1>7. k \in 1..n
    BY DEF n
  <1>8. L[k] = L[k - 1] + Len(B[k]) /\ L[k] \in Nat /\ L[k - 1] \in Nat /\ L[n] \in Nat
    <2>1. k \in 1..n /\ k \in 0..n /\ k - 1 \in 0..n /\ n \in 0..n
      BY <1>3, <1>7
    <2>. QED
      BY <1>3, <2>1 DEF Cumul
  <1>9. L[k] <= L[n]
    <2>1. k \in 0..n /\ n \in k..n
      BY <1>3, <1>7
    <2>. QED
      BY <1>3, <2>1, CumulCroit
  <1>10. L[k - 1] + 1 \in 1..Len(TexteDe(s))
    <2>1. 1 \in 1..Len(B[k])
      BY <1>5
    <2>2. L[k - 1] + 1 \in 1..L[n]
      BY <1>5, <1>8, <1>9, <2>1, Dedans
    <2>. QED
      BY <1>3, <2>2
  <1>. QED
    BY <1>6, <1>10

\* A character of the text that is not blank comes from a block that is not.
LEMMA VientDUnePleine ==
  ASSUME NEW s \in Seq(Car), NEW p \in 1..Len(TexteDe(s)), TexteDe(s)[p] \notin Blancs
  PROVE  TableDe(s)[p] + 1 \in 1..Len(s) /\ s[TableDe(s)[p] + 1] \notin Blancs
  <1>1. PICK L : Decoupe(s, L)
    BY DecoupeExiste
  <1>2. PICK k \in 1..Len(Debuts(s)) :
           /\ p - L[k - 1] \in 1..Len(Blocs(s)[k])
           /\ TableDe(s)[p] = Debuts(s)[k] - 1
           /\ TexteDe(s)[p] = Blocs(s)[k][p - L[k - 1]]
    BY <1>1, DansUnBloc
  <1>3. Debuts(s)[k] \in 1..Len(s)
    BY DebutsBons
  <1>4. Blocs(s)[k] = Bloc(s, Debuts(s)[k])
    BY DebutsBons DEF Blocs
  <1>5. ~EstBlanc(s, Debuts(s)[k])
    BY <1>2, <1>3, <1>4, BlocBlanc
  <1>6. TableDe(s)[p] + 1 = Debuts(s)[k]
    BY <1>2, <1>3
  <1>. QED
    BY <1>3, <1>5, <1>6 DEF EstBlanc

-----------------------------------------------------------------------------
(* The boxes of words *)

\* A box in the raw text: the characters of its word, on the page of the word, between
\* blanks or the limits of the text.
BoiteBrute(s, L, scans, b) ==
  /\ b.debut \in Nat /\ b.fin \in 0..Len(s) /\ b.debut < b.fin
  /\ b.page \in 1..Len(scans) /\ L[b.page - 1] <= b.debut /\ b.debut < L[b.page]
  /\ Tranche(s, b.debut, b.fin) = scans[b.page][b.mot].texte
  /\ \A i \in (b.debut + 1)..b.fin : s[i] \notin Blancs
  /\ s[b.debut + 1] # "bom"
  /\ b.debut = 0 \/ s[b.debut] \in Blancs
  /\ b.fin = Len(s) \/ s[b.fin + 1] \in Blancs

\* Traduire gives a position at the very offset, when the table has it, and the first one.
LEMMA TraduireExacte ==
  ASSUME NEW s \in Seq(Car), NEW o \in Nat,
         \E p \in 1..Len(TableDe(s)) : TableDe(s)[p] = o
  PROVE  /\ Traduire(normaliser(s), o) \in 0..Len(TexteDe(s))
         /\ TableDe(s)[Traduire(normaliser(s), o) + 1] = o
         /\ \A q \in 1..Traduire(normaliser(s), o) : TableDe(s)[q] < o
  <1>. DEFINE T == TableDe(s)
              x == Traduire(normaliser(s), o)
              A == {p \in 1..Len(T) : T[p] >= o}
  <1>1. /\ T \in Seq(Nat) /\ Len(TexteDe(s)) \in Nat /\ Len(T) = Len(TexteDe(s)) + 1
        /\ \A p, q \in 1..(Len(TexteDe(s)) + 1) : p <= q => T[p] <= T[q]
    BY NormaliserBon
  <1>2. normaliser(s).table = T
    BY DEF TableDe
  <1>3. PICK p \in 1..Len(T) : T[p] = o
    OBVIOUS
  <1>. HIDE DEF T
  <1>4. \A q \in 1..Len(T) : T[q] \in Nat
    BY <1>1
  <1>5. A \in SUBSET Nat /\ p \in A
    BY <1>1, <1>3, <1>4
  <1>6. PICK m \in A : \A q \in A : m <= q
    <2>. HIDE DEF A
    <2>. QED
      BY <1>5, NatMinimal
  <1>7. m \in 1..Len(T) /\ T[m] >= o /\ m <= p
    BY <1>5, <1>6
  <1>8. \A y \in A : (\A q \in A : y <= q) => y = m
    BY <1>6, <1>5
  <1>9. x = m - 1
    <2>1. A # {}
      BY <1>5
    <2>. HIDE DEF A
    <2>2. x = (CHOOSE y \in A : \A q \in A : y <= q) - 1
      BY <1>2, <2>1 DEF Traduire, A
    <2>3. (CHOOSE y \in A : \A q \in A : y <= q) = m
      BY <1>6, <1>8
    <2>. QED
      BY <2>2, <2>3
  <1>10. T[m] = o
    <2>1. T[m] <= T[p] /\ T[m] \in Nat /\ T[p] \in Nat
      BY <1>1, <1>3, <1>4, <1>7
    <2>. QED
      BY <1>3, <1>7, <2>1
  <1>11. \A q \in 1..(m - 1) : T[q] < o
    <2>1. ASSUME NEW q \in 1..(m - 1) PROVE T[q] < o
      <3>1. q \in 1..Len(T) /\ ~ (m <= q) /\ T[q] \in Nat
        <4>1. Len(T) \in Nat /\ m \in 1..Len(T)
          BY <1>1, <1>7
        <4>2. q \in 1..Len(T) /\ ~ (m <= q)
          BY <4>1
        <4>. QED
          BY <1>4, <4>2
      <3>2. q \notin A
        BY <1>6, <3>1
      <3>. QED
        BY <3>1, <3>2
    <2>. QED
      BY <2>1
  <1>. HIDE DEF x, A
  <1>12. x \in 0..Len(TexteDe(s)) /\ x + 1 = m
    BY <1>1, <1>7, <1>9
  <1>. QED
    BY <1>9, <1>10, <1>11, <1>12 DEF x, T

\* Both ends of a raw box are in the table.
LEMMA BoutsDeBoite ==
  ASSUME NEW s \in Seq(Car), NEW L, NEW scans, NEW b, BoiteBrute(s, L, scans, b)
  PROVE  /\ \E p \in 1..Len(TableDe(s)) : TableDe(s)[p] = b.debut
         /\ \E p \in 1..Len(TableDe(s)) : TableDe(s)[p] = b.fin
  <1>1. /\ Len(TexteDe(s)) \in Nat /\ Len(TableDe(s)) = Len(TexteDe(s)) + 1
        /\ TableDe(s)[Len(TexteDe(s)) + 1] = Len(s)
    BY NormaliserBon
  <1>2. \A p \in 1..Len(TexteDe(s)) : p \in 1..Len(TableDe(s))
    BY <1>1
  <1>3. /\ b.debut \in Nat /\ b.fin \in Nat /\ b.debut < b.fin /\ b.fin <= Len(s) /\ Len(s) \in Nat
        /\ \A i \in (b.debut + 1)..b.fin : s[i] \notin Blancs
        /\ s[b.debut + 1] # "bom"
        /\ b.debut = 0 \/ s[b.debut] \in Blancs
        /\ b.fin = Len(s) \/ s[b.fin + 1] \in Blancs
    BY DEF BoiteBrute
  <1>. DEFINE d == b.debut
              f == b.fin
  <1>. HIDE DEF d, f
  <1>4. /\ d \in Nat /\ f \in Nat /\ d < f /\ f <= Len(s) /\ Len(s) \in Nat
        /\ \A i \in (d + 1)..f : s[i] \notin Blancs
        /\ s[d + 1] # "bom"
        /\ d = 0 \/ s[d] \in Blancs
        /\ f = Len(s) \/ s[f + 1] \in Blancs
    BY <1>3 DEF d, f
  <1>5. \E p \in 1..Len(TexteDe(s)) : TableDe(s)[p] = d
    <2>1. d + 1 \in 1..Len(s) /\ d + 1 \in (d + 1)..f /\ (d + 1) - 1 = d /\ (d = 0 => d + 1 = 1)
      BY <1>4
    <2>2. Commence(s, d + 1)
      BY <1>4, <2>1 DEF Commence, EstBlanc
    <2>. QED
      BY <1>4, <2>1, <2>2, OffsetAtteint
  <1>6. CASE f = Len(s)
    <2>1. Len(TexteDe(s)) + 1 \in 1..Len(TableDe(s))
      BY <1>1
    <2>. QED
      BY <1>1, <1>2, <1>5, <1>6, <2>1 DEF d, f
  <1>7. CASE f # Len(s)
    <2>1. f + 1 \in 1..Len(s) /\ f \in (d + 1)..f /\ (f + 1) - 1 = f
      BY <1>4, <1>7
    <2>2. s[f + 1] \in Blancs /\ s[f] \notin Blancs
      BY <1>4, <1>7, <2>1
    <2>3. Commence(s, f + 1) /\ s[f + 1] # "bom"
      BY <2>1, <2>2 DEF Commence, EstBlanc, Blancs
    <2>4. \E p \in 1..Len(TexteDe(s)) : TableDe(s)[p] = f
      BY <2>1, <2>3, OffsetAtteint
    <2>. QED
      BY <1>2, <1>5, <2>4 DEF d, f
  <1>. QED
    BY <1>6, <1>7

\* page_de names a page.
LEMMA PageExiste ==
  ASSUME NEW t, NEW pages, NEW p, Len(pages) \in Nat, DOMAIN pages = 1..Len(pages),
         pages # <<>>
  PROVE  page_de(BornesPages(t, pages), p) \in 1..Len(pages)
  <1>. DEFINE B == BornesPages(t, pages)
              K == {k \in DOMAIN B : B[k].debut <= p /\ p < B[k].fin}
  <1>1. DOMAIN B = 1..Len(pages)
    BY DEF BornesPages
  <1>2. 1 \in 1..Len(pages)
    <2>1. Len(pages) # 0
      <3>1. CASE Len(pages) = 0
        BY <3>1
      <3>. QED
        BY <3>1
    <2>. QED
      BY <2>1
  <1>. HIDE DEF B
  <1>3. B # <<>>
    BY <1>1, <1>2
  <1>4. K \subseteq 1..Len(pages)
    BY <1>1
  <1>5. \A k \in K : (\A l \in K : k <= l) => k \in 1..Len(pages)
    BY <1>4
  <1>6. CASE K = {}
    <2>1. page_de(B, p) = IF B = <<>> THEN SansPage
                          ELSE IF K = {} THEN 1
                          ELSE CHOOSE k \in K : \A l \in K : k <= l
      BY DEF page_de
    <2>. HIDE DEF K
    <2>. QED
      BY <1>2, <1>3, <1>6, <2>1 DEF B
  <1>7. CASE K # {}
    <2>1. K \in SUBSET Nat
      BY <1>4
    <2>. HIDE DEF K
    <2>2. PICK m \in K : \A l \in K : m <= l
      BY <1>7, <2>1, NatMinimal
    <2>3. (CHOOSE k \in K : \A l \in K : k <= l) \in K
      BY <2>2
    <2>4. page_de(B, p) = CHOOSE k \in K : \A l \in K : k <= l
      BY <1>3, <1>7 DEF page_de, K
    <2>. QED
      BY <1>4, <2>3, <2>4 DEF B
  <1>. QED
    BY <1>6, <1>7 DEF B

\* A box brought to the normalised text covers the characters of its word and no other,
\* on the page of the word.
LEMMA BoiteTraduite ==
  ASSUME NEW s \in Seq(Car), NEW pages \in Seq(Seq(Car)), FlattenSeq(pages) = s,
         NEW L, Cumul(L, pages), NEW scans, Len(scans) = Len(pages),
         NEW b, BoiteBrute(s, L, scans, b)
  PROVE  LET t == normaliser(s)
             d == Traduire(t, b.debut)
             f == Traduire(t, b.fin)
         IN /\ span_source(t, d, f) = <<b.debut, b.fin>>
            /\ page_de(BornesPages(t, pages), d) = b.page
            /\ \A p \in 0..(Len(TexteDe(s)) - 1) :
                 TableDe(s)[p + 1] + 1 \in (b.debut + 1)..b.fin => d <= p /\ p < f
  <1>. DEFINE t == normaliser(s)
              d == Traduire(t, b.debut)
              f == Traduire(t, b.fin)
              T == TableDe(s)
              n == Len(pages)
  <1>1. /\ Len(TexteDe(s)) \in Nat /\ Len(T) = Len(TexteDe(s)) + 1 /\ T \in Seq(Nat)
        /\ T[Len(TexteDe(s)) + 1] = Len(s)
        /\ \A p, q \in 1..(Len(TexteDe(s)) + 1) : p <= q => T[p] <= T[q]
    BY NormaliserBon
  <1>2. /\ b.debut \in Nat /\ b.fin \in Nat /\ b.debut < b.fin /\ b.fin <= Len(s) /\ Len(s) \in Nat
        /\ b.page \in 1..n /\ L[b.page - 1] <= b.debut /\ b.debut < L[b.page]
    BY DEF BoiteBrute
  <1>3. /\ d \in 0..Len(TexteDe(s)) /\ T[d + 1] = b.debut /\ \A q \in 1..d : T[q] < b.debut
        /\ f \in 0..Len(TexteDe(s)) /\ T[f + 1] = b.fin /\ \A q \in 1..f : T[q] < b.fin
    <2>1. /\ \E p \in 1..Len(TableDe(s)) : TableDe(s)[p] = b.debut
          /\ \E p \in 1..Len(TableDe(s)) : TableDe(s)[p] = b.fin
      BY BoutsDeBoite
    <2>2. b.debut \in Nat /\ b.fin \in Nat
      BY <1>2
    <2>3. /\ d \in 0..Len(TexteDe(s)) /\ T[d + 1] = b.debut
          /\ \A q \in 1..d : T[q] < b.debut
      BY <2>1, <2>2, TraduireExacte
    <2>4. /\ f \in 0..Len(TexteDe(s)) /\ T[f + 1] = b.fin
          /\ \A q \in 1..f : T[q] < b.fin
      BY <2>1, <2>2, TraduireExacte
    <2>. QED
      BY <2>3, <2>4
  <1>4. t.table = T
    BY DEF TableDe
  <1>. HIDE DEF t, d, f, T, n
  <1>5. d # Len(TexteDe(s))
    BY <1>1, <1>2, <1>3
  <1>6. d \in 0..(Len(TexteDe(s)) - 1)
    BY <1>1, <1>3, <1>5
  <1>7. vers_source(t, d) = b.debut /\ vers_source(t, f) = b.fin
    <2>1. ~ (d < 0) /\ ~ (f < 0) /\ ~ (d >= Len(T)) /\ ~ (f >= Len(T))
      BY <1>1, <1>3
    <2>. QED
      BY <1>3, <1>4, <2>1 DEF vers_source
  <1>8. n \in Nat /\ DOMAIN pages = 1..n /\ pages # <<>>
    <2>1. n \in Nat /\ DOMAIN pages = 1..n
      BY ElementsDe DEF n
    <2>2. pages # <<>>
      <3>1. CASE pages = <<>>
        <4>1. n = 0
          BY <3>1 DEF n
        <4>. QED
          BY <1>2, <4>1
      <3>. QED
        BY <3>1
    <2>. QED
      BY <2>1, <2>2
  <1>9. page_de(BornesPages(t, pages), d) = b.page
    <2>. DEFINE j == page_de(BornesPages(t, pages), d)
    <2>1. j \in 1..n
      BY <1>8, PageExiste DEF n
    <2>2. /\ BornesSource(pages)[j].debut <= b.debut
          /\ b.debut < BornesSource(pages)[j].fin
      BY <1>6, <1>7, <1>8, PageDeLaSource DEF t
    <2>. HIDE DEF j
    <2>3. j - 1 \in 0..n /\ j \in 0..n
      BY <1>8, <2>1
    <2>4. /\ BornesSource(pages)[j].debut = L[j - 1]
          /\ BornesSource(pages)[j].fin = L[j]
      BY <1>8, <2>1, <2>3, LongueurPrefixe DEF BornesSource, n
    <2>5. \A k \in 0..n : L[k] \in Nat
      BY <1>8 DEF Cumul, n
    <2>6. CASE j < b.page
      <3>1. b.page - 1 \in j..n /\ b.page - 1 \in 0..n
        BY <1>2, <1>8, <2>1, <2>6, PageAvant
      <3>2. L[j] <= L[b.page - 1]
        BY <2>3, <3>1, CumulCroit DEF n
      <3>3. L[j] \in Nat /\ L[b.page - 1] \in Nat
        BY <2>3, <2>5, <3>1
      <3>. QED
        BY <1>2, <2>2, <2>4, <3>2, <3>3
    <2>7. CASE b.page < j
      <3>1. b.page \in 0..n /\ j - 1 \in (b.page)..n
        <4>1. b.page \in 0..n /\ b.page \in Int /\ j - 1 \in (b.page)..n
          BY <1>2, <1>8, <2>1, <2>7, PageAvant
        <4>. QED
          BY <4>1
      <3>2. L[b.page] <= L[j - 1]
        BY <3>1, CumulCroit DEF n
      <3>3. L[b.page] \in Nat /\ L[j - 1] \in Nat
        BY <2>3, <2>5, <3>1
      <3>. QED
        BY <1>2, <2>2, <2>4, <3>2, <3>3
    <2>8. j \in Int /\ b.page \in Int
      BY <1>2, <1>8, <2>1
    <2>. QED
      BY <2>6, <2>7, <2>8 DEF j
  <1>10. ASSUME NEW p \in 0..(Len(TexteDe(s)) - 1), T[p + 1] + 1 \in (b.debut + 1)..b.fin
         PROVE  d <= p /\ p < f
    <2>1. p + 1 \in 1..(Len(TexteDe(s)) + 1) /\ p \in Nat /\ d \in Nat /\ f \in Nat
      BY <1>1, <1>3
    <2>2. T[p + 1] \in Nat
      BY <1>1, <2>1
    <2>3. b.debut <= T[p + 1] /\ T[p + 1] < b.fin
      <3>1. b.debut \in Nat /\ b.fin \in Nat
        BY <1>2
      <3>. QED
        BY <1>10, <2>2, <3>1, DansLIntervalle
    <2>4. d <= p
      <3>1. CASE p < d
        <4>1. p + 1 \in 1..d
          BY <2>1, <3>1
        <4>2. T[p + 1] < b.debut
          BY <1>3, <4>1
        <4>. QED
          BY <1>2, <2>2, <2>3, <4>2
      <3>. QED
        BY <2>1, <3>1
    <2>5. p < f
      <3>1. CASE f <= p
        <4>1. f + 1 \in 1..(Len(TexteDe(s)) + 1) /\ f + 1 <= p + 1
          BY <1>1, <1>3, <2>1, <3>1
        <4>2. T[f + 1] <= T[p + 1]
          BY <1>1, <2>1, <4>1
        <4>. QED
          BY <1>2, <1>3, <2>2, <2>3, <4>2
      <3>. QED
        BY <2>1, <3>1
    <2>. QED
      BY <2>4, <2>5
  <1>. QED
    BY <1>7, <1>9, <1>10 DEF span_source, t, d, f, T

-----------------------------------------------------------------------------
(* The words of a page *)

\* What OCR keeps as a word.
MotLu(t) == t # <<>> /\ t[1] # "bom" /\ \A i \in DOMAIN t : t[i] \notin Blancs

\* What joins a word to the one before it, and the word with it.
Joint(mots, k) ==
  IF k = 1 THEN <<>> ELSE <<IF mots[k].ligne = mots[k - 1].ligne THEN " " ELSE "lf">>
Suite(mots) == [k \in DOMAIN mots |-> Joint(mots, k) \o mots[k].texte]

\* A page of words: each with what joins it, one character but for the first.
LEMMA SuiteBonne ==
  ASSUME NEW mots \in Seq(Mots)
  PROVE  /\ Len(mots) \in Nat /\ DOMAIN mots = 1..Len(mots)
         /\ \A k \in 1..Len(mots) : /\ mots[k].texte \in Seq(Car) /\ Len(mots[k].texte) \in Nat
                                    /\ DOMAIN mots[k].texte = 1..Len(mots[k].texte)
         /\ Suite(mots) \in Seq(Seq(Car)) /\ Len(Suite(mots)) = Len(mots)
         /\ AssemblerMots(mots) = FlattenSeq(Suite(mots))
         /\ \A k \in 1..Len(mots) :
              /\ k = 1 => Suite(mots)[k] = mots[k].texte
              /\ k # 1 => /\ Len(Suite(mots)[k]) = 1 + Len(mots[k].texte)
                          /\ Suite(mots)[k][1] \in Blancs
                          /\ \A q \in 1..Len(mots[k].texte) :
                               Suite(mots)[k][1 + q] = mots[k].texte[q]
  <1>1. DOMAIN mots = 1..Len(mots) /\ Len(mots) \in Nat /\ \A k \in DOMAIN mots : mots[k] \in Mots
    BY ElementsDe
  <1>2. \A m \in Mots : m.texte \in Seq(Car)
    BY DEF Mots
  <1>3. \A k \in 1..Len(mots) : mots[k].texte \in Seq(Car)
    BY <1>1, <1>2
  <1>4. \A k \in 1..Len(mots) : /\ Len(mots[k].texte) \in Nat
                                /\ DOMAIN mots[k].texte = 1..Len(mots[k].texte)
    BY <1>3, ElementsDe
  <1>5. \A k \in 1..Len(mots) : Suite(mots)[k] = Joint(mots, k) \o mots[k].texte
    BY <1>1 DEF Suite
  <1>6. ASSUME NEW k \in 1..Len(mots)
        PROVE  /\ Suite(mots)[k] \in Seq(Car)
               /\ k = 1 => Suite(mots)[k] = mots[k].texte
               /\ k # 1 => /\ Len(Suite(mots)[k]) = 1 + Len(mots[k].texte)
                           /\ Suite(mots)[k][1] \in Blancs
                           /\ \A q \in 1..Len(mots[k].texte) :
                                Suite(mots)[k][1 + q] = mots[k].texte[q]
    <2>. DEFINE t == mots[k].texte
    <2>1. t \in Seq(Car) /\ Len(t) \in Nat
      BY <1>3, <1>4
    <2>2. Suite(mots)[k] = Joint(mots, k) \o t
      BY <1>5
    <2>. HIDE DEF t
    <2>3. CASE k = 1
      <3>1. Suite(mots)[k] = <<>> \o t
        BY <2>2, <2>3 DEF Joint
      <3>2. <<>> \o t = t
        BY <2>1
      <3>. QED
        BY <2>1, <2>3, <3>1, <3>2 DEF t
    <2>4. CASE k # 1
      <3>. DEFINE c == IF mots[k].ligne = mots[k - 1].ligne THEN " " ELSE "lf"
      <3>1. Joint(mots, k) = <<c>>
        BY <2>4 DEF Joint
      <3>2. c \in Car /\ c \in Blancs
        BY DEF Car, Blancs
      <3>. HIDE DEF c
      <3>3. <<c>> \in Seq(Car) /\ Len(<<c>>) = 1 /\ <<c>>[1] = c
        BY <3>2, Courtes
      <3>4. /\ <<c>> \o t \in Seq(Car) /\ Len(<<c>> \o t) = 1 + Len(t)
            /\ (<<c>> \o t)[1] = c
            /\ \A q \in 1..Len(t) : (<<c>> \o t)[1 + q] = t[q]
        <4>1. 1 \in 1..Len(<<c>>)
          BY <3>3
        <4>. QED
          BY <2>1, <3>3, <4>1, MisALaSuite
      <3>. QED
        BY <2>2, <2>4, <3>1, <3>2, <3>4 DEF t
    <2>. QED
      BY <2>3, <2>4
  <1>7. Suite(mots) \in Seq(Seq(Car)) /\ Len(Suite(mots)) = Len(mots)
    <2>1. \A k \in 1..Len(mots) : Joint(mots, k) \o mots[k].texte \in Seq(Car)
      BY <1>5, <1>6
    <2>. QED
      BY <1>1, <2>1 DEF Suite
  <1>8. AssemblerMots(mots) = FlattenSeq(Suite(mots))
    BY DEF AssemblerMots, Suite, Joint
  <1>. QED
    BY <1>1, <1>3, <1>4, <1>6, <1>7, <1>8

\* The words up to the k-th take the running sum of their lengths.
LEMMA PremiersMots ==
  ASSUME NEW mots \in Seq(Mots), NEW M, Cumul(M, Suite(mots)), NEW k \in 1..Len(mots)
  PROVE  Len(AssemblerMots(SubSeq(mots, 1, k))) = M[k]
  <1>. DEFINE v == SubSeq(mots, 1, k)
              w == SubSeq(Suite(mots), 1, k)
  <1>1. /\ Len(mots) \in Nat /\ DOMAIN mots = 1..Len(mots)
        /\ Suite(mots) \in Seq(Seq(Car)) /\ Len(Suite(mots)) = Len(mots)
    BY SuiteBonne
  <1>2. v \in Seq(Mots) /\ Len(v) = k /\ DOMAIN v = 1..k /\ k \in Nat /\ k <= Len(mots)
        /\ \A i \in 1..k : v[i] = mots[i]
    BY <1>1
  <1>3. w = [i \in 1..k |-> Suite(mots)[i]]
    BY <1>1
  <1>. HIDE DEF v, w
  <1>4. \A i \in 1..k : Joint(v, i) \o v[i].texte = Suite(mots)[i]
    <2>1. ASSUME NEW i \in 1..k PROVE Joint(v, i) \o v[i].texte = Suite(mots)[i]
      <3>1. i \in 1..Len(mots) /\ v[i] = mots[i]
        BY <1>1, <1>2
      <3>2. i # 1 => v[i - 1] = mots[i - 1]
        <4>1. i # 1 => i - 1 \in 1..k
          BY <1>2
        <4>. QED
          BY <1>2, <4>1
      <3>3. Joint(v, i) = Joint(mots, i)
        BY <3>1, <3>2 DEF Joint
      <3>. QED
        BY <1>1, <3>1, <3>3 DEF Suite
    <2>. QED
      BY <2>1
  <1>5. Suite(v) = w
    BY <1>2, <1>3, <1>4 DEF Suite
  <1>6. AssemblerMots(v) = FlattenSeq(w)
    BY <1>5 DEF AssemblerMots, Suite, Joint
  <1>7. Len(FlattenSeq(w)) = M[k]
    <2>1. k \in 0..Len(Suite(mots))
      BY <1>1, <1>2
    <2>. QED
      BY <1>1, <2>1, LongueurPrefixe DEF LongueurDe, w
  <1>. QED
    BY <1>6, <1>7 DEF v

-----------------------------------------------------------------------------
(* The boxes of one page *)

\* The k-th word of a page and its box, in the text of that page.
BoiteDePage(u, mots, k, debut, fin) ==
  /\ debut \in Nat /\ fin \in 0..Len(u) /\ fin = debut + Len(mots[k].texte)
  /\ \A q \in 1..Len(mots[k].texte) : u[debut + q] = mots[k].texte[q]
  /\ debut = 0 \/ u[debut] \in Blancs
  /\ fin = Len(u) \/ u[fin + 1] \in Blancs

\* A place of a word is a place of what joins it and the word.
LEMMA DansLeMot ==
  ASSUME NEW e \in Nat, NEW l \in Nat, NEW x \in Nat, NEW q \in 1..l
  PROVE  e + q \in 1..(e + l) /\ (x + e) + q = x + (e + q)
  OBVIOUS

\* ocr_image_array: each word has its box, and what is in no box is blank.
LEMMA BoitesDePage ==
  ASSUME NEW mots \in Seq(Mots), NEW page
  PROVE  LET u == AssemblerMots(mots)
             B == BoitesBrutes(mots, page)
         IN /\ DOMAIN B = 1..Len(mots)
            /\ \A k \in 1..Len(mots) :
                 /\ B[k] = [debut |-> B[k].debut, fin |-> B[k].fin, page |-> page, mot |-> k]
                 /\ BoiteDePage(u, mots, k, B[k].debut, B[k].fin)
            /\ \A i \in 1..Len(u) :
                 u[i] \in Blancs \/ \E k \in 1..Len(mots) : B[k].debut < i /\ i <= B[k].fin
  <1>. DEFINE u == AssemblerMots(mots)
              B == BoitesBrutes(mots, page)
              S == Suite(mots)
              n == Len(mots)
              long(k) == Len(mots[k].texte)
              ecart(k) == IF k = 1 THEN 0 ELSE 1
  <1>1. /\ n \in Nat /\ DOMAIN mots = 1..n
        /\ \A k \in 1..n : long(k) \in Nat
        /\ S \in Seq(Seq(Car)) /\ Len(S) = n /\ u = FlattenSeq(S)
    BY SuiteBonne
  <1>2. \A k \in 1..n :
          /\ Len(S[k]) = ecart(k) + long(k)
          /\ \A q \in 1..long(k) : S[k][ecart(k) + q] = mots[k].texte[q]
          /\ k # 1 => S[k][1] \in Blancs
    <2>1. ASSUME NEW k \in 1..n
          PROVE  /\ Len(S[k]) = ecart(k) + long(k)
                 /\ \A q \in 1..long(k) : S[k][ecart(k) + q] = mots[k].texte[q]
                 /\ k # 1 => S[k][1] \in Blancs
      <3>1. CASE k = 1
        <4>1. S[k] = mots[k].texte /\ long(k) \in Nat /\ ecart(k) = 0
          BY <3>1, SuiteBonne
        <4>2. \A q \in 1..long(k) : 0 + q = q
          OBVIOUS
        <4>. HIDE DEF S, ecart
        <4>. QED
          BY <3>1, <4>1, <4>2
      <3>2. CASE k # 1
        BY <3>2, SuiteBonne
      <3>. QED
        BY <3>1, <3>2
    <2>. QED
      BY <2>1
  <1>3. PICK M : Cumul(M, S)
    BY <1>1, CumulExiste
  <1>4. EnPlace(Car, u, S, M, n)
    BY <1>1, <1>3, BoutABout
  <1>5. \A k \in 1..n : Len(AssemblerMots(SubSeq(mots, 1, k))) = M[k]
    BY <1>3, PremiersMots
  <1>6. /\ DOMAIN B = 1..n
        /\ \A k \in 1..n : B[k] = [debut |-> M[k] - long(k), fin |-> M[k], page |-> page, mot |-> k]
    BY <1>1, <1>5 DEF BoitesBrutes
  <1>. HIDE DEF u, B, S, n
  <1>7. /\ \A k \in 0..n : M[k] \in Nat
        /\ \A k \in 1..n : M[k] = M[k - 1] + Len(S[k])
        /\ M[0] = 0 /\ Len(u) = M[n]
        /\ \A k \in 1..n : \A p \in 1..Len(S[k]) : u[M[k - 1] + p] = S[k][p]
    BY <1>1, <1>3, <1>4 DEF Cumul, EnPlace
  <1>8. \A k \in 0..n : M[k] <= M[n]
    <2>1. ASSUME NEW k \in 0..n PROVE M[k] <= M[n]
      <3>1. n \in k..n
        BY <1>1
      <3>. QED
        BY <1>1, <1>3, <3>1, CumulCroit
    <2>. QED
      BY <2>1
  <1>9. ASSUME NEW k \in 1..n
        PROVE  /\ k \in 0..n /\ k - 1 \in 0..n /\ M[k] \in Nat /\ M[k - 1] \in Nat
               /\ M[k] <= M[n] /\ M[n] \in Nat
               /\ long(k) \in Nat /\ ecart(k) \in Nat /\ M[k] = M[k - 1] + Len(S[k])
               /\ Len(S[k]) = ecart(k) + long(k)
               /\ B[k].debut = M[k - 1] + ecart(k) /\ B[k].fin = M[k]
    <2>1. k \in 0..n /\ k - 1 \in 0..n /\ n \in 0..n
      BY <1>1
    <2>2. M[k] \in Nat /\ M[k - 1] \in Nat /\ M[k] <= M[n] /\ M[n] \in Nat
      BY <1>7, <1>8, <2>1
    <2>3. long(k) \in Nat /\ Len(S[k]) = ecart(k) + long(k) /\ M[k] = M[k - 1] + Len(S[k])
      BY <1>1, <1>2, <1>7
    <2>4. B[k].debut = M[k] - long(k) /\ B[k].fin = M[k]
      BY <1>6
    <2>5. ecart(k) \in Nat
      OBVIOUS
    <2>. HIDE DEF long, ecart
    <2>6. M[k] - long(k) = M[k - 1] + ecart(k)
      BY <2>2, <2>3, <2>5
    <2>. QED
      BY <2>1, <2>2, <2>3, <2>4, <2>5, <2>6
  <1>10. ASSUME NEW k \in 1..n
         PROVE  BoiteDePage(u, mots, k, B[k].debut, B[k].fin)
    <2>. DEFINE debut == M[k - 1] + ecart(k)
    <2>1. /\ M[k] \in Nat /\ M[k - 1] \in Nat /\ M[k] <= M[n] /\ M[n] \in Nat
          /\ long(k) \in Nat /\ ecart(k) \in Nat /\ M[k] = M[k - 1] + Len(S[k])
          /\ Len(S[k]) = ecart(k) + long(k)
      BY <1>9
    <2>2. debut \in Nat /\ M[k] \in 0..Len(u) /\ M[k] = debut + long(k)
      <3>. HIDE DEF long, ecart
      <3>. QED
        BY <1>7, <2>1
    <2>3. \A q \in 1..long(k) : u[debut + q] = mots[k].texte[q]
      <3>1. ASSUME NEW q \in 1..long(k) PROVE u[debut + q] = mots[k].texte[q]
        <4>. HIDE DEF long, ecart
        <4>1. ecart(k) + q \in 1..Len(S[k]) /\ debut + q = M[k - 1] + (ecart(k) + q)
          <5>1. /\ ecart(k) \in Nat /\ long(k) \in Nat /\ M[k - 1] \in Nat
                /\ Len(S[k]) = ecart(k) + long(k)
            BY <2>1
          <5>2. /\ ecart(k) + q \in 1..(ecart(k) + long(k))
                /\ (M[k - 1] + ecart(k)) + q = M[k - 1] + (ecart(k) + q)
            BY <5>1, DansLeMot
          <5>. QED
            BY <5>1, <5>2
        <4>2. u[M[k - 1] + (ecart(k) + q)] = S[k][ecart(k) + q]
          BY <1>7, <4>1
        <4>. QED
          BY <1>2, <4>1, <4>2
      <3>. QED
        BY <3>1
    <2>4. debut = 0 \/ u[debut] \in Blancs
      <3>1. CASE k = 1
        <4>1. k - 1 = 0
          BY <3>1
        <4>2. M[k - 1] = 0
          BY <1>7, <4>1
        <4>3. ecart(k) = 0
          BY <3>1
        <4>. QED
          BY <4>2, <4>3
      <3>2. CASE k # 1
        <4>1. ecart(k) = 1 /\ debut = M[k - 1] + 1
          BY <3>2
        <4>. HIDE DEF ecart, long, debut
        <4>2. 1 \in 1..Len(S[k])
          BY <2>1, <4>1
        <4>3. u[M[k - 1] + 1] = S[k][1] /\ S[k][1] \in Blancs
          BY <1>2, <1>7, <3>2, <4>2
        <4>. QED
          BY <4>1, <4>3
      <3>. QED
        BY <3>1, <3>2
    <2>5. M[k] = Len(u) \/ u[M[k] + 1] \in Blancs
      <3>1. CASE k = n
        BY <1>7, <3>1
      <3>2. CASE k # n
        <4>1. k + 1 \in 1..n /\ (k + 1) - 1 = k /\ k + 1 # 1
          BY <1>1, <3>2
        <4>2. Len(S[k + 1]) = ecart(k + 1) + long(k + 1) /\ long(k + 1) \in Nat
          BY <1>9, <4>1
        <4>3. 1 \in 1..Len(S[k + 1])
          <5>1. ecart(k + 1) = 1
            BY <4>1
          <5>. HIDE DEF ecart, long
          <5>. QED
            BY <4>2, <5>1
        <4>4. u[M[(k + 1) - 1] + 1] = S[k + 1][1]
          BY <1>7, <4>1, <4>3
        <4>5. S[k + 1][1] \in Blancs
          BY <1>2, <4>1
        <4>. QED
          BY <4>1, <4>4, <4>5
      <3>. QED
        BY <3>1, <3>2
    <2>6. B[k].debut = debut /\ B[k].fin = M[k]
      BY <1>9
    <2>. HIDE DEF debut, ecart
    <2>. QED
      BY <2>2, <2>3, <2>4, <2>5, <2>6 DEF BoiteDePage
  <1>11. ASSUME NEW i \in 1..Len(u)
         PROVE  u[i] \in Blancs \/ \E k \in 1..n : B[k].debut < i /\ i <= B[k].fin
    <2>1. i \in 1..M[Len(S)]
      BY <1>1, <1>7
    <2>2. PICK k \in 1..n : M[k - 1] < i /\ i <= M[k] /\ i - M[k - 1] \in 1..Len(S[k])
      BY <1>1, <1>3, <2>1, CumulBloc
    <2>3. /\ M[k] \in Nat /\ M[k - 1] \in Nat
          /\ B[k].debut = M[k - 1] + ecart(k) /\ B[k].fin = M[k]
      BY <1>9
    <2>4. u[M[k - 1] + (i - M[k - 1])] = S[k][i - M[k - 1]]
      BY <1>7, <2>2
    <2>5. i \in Nat
      OBVIOUS
    <2>6. CASE k = 1 \/ i # M[k - 1] + 1
      <3>1. M[k - 1] + ecart(k) < i
        BY <2>2, <2>3, <2>5, <2>6
      <3>. QED
        BY <2>2, <2>3, <3>1
    <2>7. CASE k # 1 /\ i = M[k - 1] + 1
      <3>1. i - M[k - 1] = 1 /\ M[k - 1] + 1 = i
        BY <2>3, <2>7
      <3>2. S[k][1] \in Blancs
        BY <1>2, <2>7
      <3>. QED
        BY <2>4, <3>1, <3>2
    <2>. QED
      BY <2>6, <2>7
  <1>12. \A k \in 1..n : B[k] = [debut |-> B[k].debut, fin |-> B[k].fin, page |-> page, mot |-> k]
    BY <1>6
  <1>. QED
    BY <1>6, <1>10, <1>11, <1>12 DEF u, B, n

\* The boxes, in the raw text or in the working text.
LesBoites == [debut : Nat, fin : Nat, page : Nat, mot : Nat]

\* The boxes of a text read by OCR, in the raw text: what is in none is blank.
BoitesLues(s, L, scans, B) ==
  /\ \A j \in DOMAIN B : B[j] \in LesBoites /\ BoiteBrute(s, L, scans, B[j])
  /\ \A i \in 1..Len(s) :
       s[i] \in Blancs \/ \E j \in DOMAIN B : B[j].debut < i /\ i <= B[j].fin

\* The ends of a box moved with its page.
LEMMA BoutsDeplaces ==
  ASSUME NEW debut \in Nat, NEW off \in Nat, NEW l \in Nat, NEW n \in Nat, NEW len \in Nat,
         NEW fin \in 0..l, fin = debut + len, len >= 1, off + l <= n
  PROVE  /\ debut + off \in Nat /\ fin + off \in Nat /\ debut + off < fin + off
         /\ fin + off <= off + l /\ fin + off <= n /\ fin + off = (debut + off) + len
         /\ off <= debut + off
         /\ debut # 0 => debut \in 1..l /\ debut + off = off + debut
         /\ \A q \in 1..len : debut + q \in 1..l /\ (debut + off) + q = off + (debut + q)
  OBVIOUS

\* The characters of a slice.
LEMMA TrancheDe ==
  ASSUME NEW S, NEW s \in Seq(S), NEW d \in Nat, NEW f \in Nat, d <= f, f <= Len(s)
  PROVE  /\ SubSeq(s, d + 1, f) \in Seq(S) /\ Len(SubSeq(s, d + 1, f)) = f - d
         /\ \A q \in 1..((f - (d + 1)) + 1) : SubSeq(s, d + 1, f)[q] = s[(d + 1) + q - 1]
  <1>1. Len(s) \in Nat
    OBVIOUS
  <1>2. \A q \in (d + 1)..f : q \in 1..Len(s)
    BY <1>1
  <1>3. SubSeq(s, d + 1, f) \in Seq(S)
    BY <1>1, <1>2
  <1>4. Len(SubSeq(s, d + 1, f)) = f - d
    BY <1>1
  <1>5. \A q \in 1..((f - (d + 1)) + 1) : SubSeq(s, d + 1, f)[q] = s[(d + 1) + q - 1]
    BY <1>1
  <1>. QED
    BY <1>3, <1>4, <1>5

\* A box of a page, moved with the text of its page.
LEMMA PlaceDeBoite ==
  ASSUME NEW s \in Seq(Car), NEW u \in Seq(Car), NEW off \in Nat, off + Len(u) <= Len(s),
         \A i \in 1..Len(u) : s[off + i] = u[i],
         off = 0 \/ s[off] \in Blancs,
         off + Len(u) = Len(s) \/ s[(off + Len(u)) + 1] \in Blancs,
         NEW mots, NEW k, NEW debut, NEW fin, BoiteDePage(u, mots, k, debut, fin),
         mots[k].texte \in Seq(Car), MotLu(mots[k].texte),
         NEW L, NEW scans, NEW page \in 1..Len(scans), scans[page] = mots,
         L[page - 1] = off, L[page] \in Nat, off + Len(u) <= L[page]
  PROVE  BoiteBrute(s, L, scans,
                    [debut |-> debut + off, fin |-> fin + off, page |-> page, mot |-> k])
  <1>. DEFINE d == debut + off
              f == fin + off
              t == mots[k].texte
              l == Len(u)
              n == Len(s)
  <1>1. l \in Nat /\ n \in Nat /\ Len(t) \in Nat /\ t \in Seq(Car) /\ DOMAIN t = 1..Len(t)
    OBVIOUS
  <1>2. /\ debut \in Nat /\ fin \in 0..l /\ fin = debut + Len(t)
        /\ \A q \in 1..Len(t) : u[debut + q] = t[q]
        /\ debut = 0 \/ u[debut] \in Blancs
        /\ fin = l \/ u[fin + 1] \in Blancs
    BY DEF BoiteDePage
  <1>3. t # <<>> /\ t[1] # "bom" /\ \A i \in 1..Len(t) : t[i] \notin Blancs
    BY <1>1 DEF MotLu
  <1>4. Len(t) >= 1
    <2>. HIDE DEF t
    <2>1. CASE Len(t) = 0
      BY <1>1, <1>3, <2>1
    <2>. QED
      BY <1>1, <2>1
  <1>5. /\ off + l <= n /\ \A i \in 1..l : s[off + i] = u[i]
        /\ off = 0 \/ s[off] \in Blancs
        /\ off + l = n \/ s[(off + l) + 1] \in Blancs
    OBVIOUS
  <1>. HIDE DEF t, l, n
  <1>6. /\ d \in Nat /\ f \in Nat /\ d < f /\ f <= off + l /\ f <= n /\ f = d + Len(t)
        /\ off <= d
        /\ debut # 0 => debut \in 1..l /\ d = off + debut
        /\ \A q \in 1..Len(t) : debut + q \in 1..l /\ d + q = off + (debut + q)
    <2>1. /\ debut \in Nat /\ off \in Nat /\ l \in Nat /\ n \in Nat /\ Len(t) \in Nat
          /\ fin \in 0..l /\ fin = debut + Len(t) /\ Len(t) >= 1 /\ off + l <= n
      BY <1>1, <1>2, <1>4, <1>5
    <2>. DEFINE lt == Len(t)
    <2>2. /\ debut \in Nat /\ off \in Nat /\ l \in Nat /\ n \in Nat /\ lt \in Nat
          /\ fin \in 0..l /\ fin = debut + lt /\ lt >= 1 /\ off + l <= n
      BY <2>1
    <2>. HIDE DEF lt
    <2>3. /\ debut + off \in Nat /\ fin + off \in Nat /\ debut + off < fin + off
          /\ fin + off <= off + l /\ fin + off <= n /\ fin + off = (debut + off) + lt
          /\ off <= debut + off
          /\ debut # 0 => debut \in 1..l /\ debut + off = off + debut
          /\ \A q \in 1..lt : debut + q \in 1..l /\ (debut + off) + q = off + (debut + q)
      BY <2>2, BoutsDeplaces
    <2>. QED
      BY <2>3 DEF lt
  <1>7. \A q \in 1..Len(t) : s[d + q] = t[q]
    <2>1. ASSUME NEW q \in 1..Len(t) PROVE s[d + q] = t[q]
      <3>1. debut + q \in 1..l /\ d + q = off + (debut + q)
        BY <1>6
      <3>2. s[off + (debut + q)] = u[debut + q]
        BY <1>5, <3>1
      <3>. QED
        BY <1>2, <3>1, <3>2
    <2>. QED
      BY <2>1
  <1>8. d = 0 \/ s[d] \in Blancs
    <2>1. CASE debut = 0
      <3>1. d = off
        BY <2>1
      <3>. HIDE DEF d
      <3>. QED
        BY <1>5, <3>1
    <2>2. CASE debut # 0
      <3>1. debut \in 1..l /\ d = off + debut
        BY <1>6, <2>2
      <3>. QED
        BY <1>2, <1>5, <2>2, <3>1
    <2>. QED
      BY <2>1, <2>2
  <1>9. f = n \/ s[f + 1] \in Blancs
    <2>1. CASE fin = l
      <3>1. f = off + l
        BY <1>1, <2>1
      <3>. QED
        BY <1>5, <3>1
    <2>2. CASE fin # l
      <3>1. fin + 1 \in 1..l /\ f + 1 = off + (fin + 1)
        <4>1. fin \in 0..l /\ fin # l /\ l \in Nat /\ off \in Nat
          BY <1>1, <1>2, <2>2
        <4>. QED
          BY <4>1
      <3>. QED
        BY <1>2, <1>5, <2>2, <3>1
    <2>. QED
      BY <2>1, <2>2
  <1>. HIDE DEF d, f
  <1>10. \A i \in (d + 1)..f : s[i] \notin Blancs
    <2>1. ASSUME NEW i \in (d + 1)..f PROVE s[i] \notin Blancs
      <3>1. i - d \in 1..Len(t) /\ d + (i - d) = i
        BY <1>1, <1>6
      <3>. QED
        BY <1>3, <1>7, <3>1
    <2>. QED
      BY <2>1
  <1>11. s[d + 1] # "bom"
    <2>1. 1 \in 1..Len(t)
      BY <1>1, <1>4
    <2>. QED
      BY <1>3, <1>7, <2>1
  <1>12. Tranche(s, d, f) = t
    <2>. DEFINE v == SubSeq(s, d + 1, f)
    <2>1. v \in Seq(Car) /\ Len(v) = Len(t) /\ \A q \in 1..Len(t) : v[q] = s[d + q]
      <3>1. Len(s) \in Nat /\ f <= Len(s) /\ d + 1 \in 1..Len(s) /\ f - d = Len(t)
        BY <1>1, <1>6 DEF n
      <3>2. v \in Seq(Car) /\ Len(v) = f - d
        <4>1. d \in Nat /\ f \in Nat /\ d <= f /\ f <= Len(s)
          BY <1>6, <3>1
        <4>. HIDE DEF d, f
        <4>2. SubSeq(s, d + 1, f) \in Seq(Car) /\ Len(SubSeq(s, d + 1, f)) = f - d
          BY <4>1, TrancheDe, SMTT(30)
        <4>. QED
          BY <4>2
      <3>3. ASSUME NEW q \in 1..Len(t) PROVE v[q] = s[d + q]
        <4>1. q \in Nat /\ (d + 1) + q - 1 = d + q /\ q \in 1..((f - (d + 1)) + 1)
          BY <1>6, <3>1
        <4>2. d \in Nat /\ f \in Nat /\ d <= f /\ f <= Len(s)
          BY <1>6, <3>1
        <4>3. v[q] = s[(d + 1) + q - 1]
          BY <4>1, <4>2, TrancheDe
        <4>. QED
          BY <4>1, <4>3
      <3>. QED
        BY <3>1, <3>2, <3>3
    <2>. HIDE DEF v
    <2>2. \A q \in 1..Len(v) : v[q] = t[q]
      BY <1>7, <2>1
    <2>3. v = t
      BY <1>1, <2>1, <2>2, MemesCaracteres
    <2>. QED
      BY <2>3 DEF Tranche, v
  <1>13. L[page - 1] <= d /\ d < L[page]
    <2>1. off + l <= L[page]
      BY DEF l
    <2>. QED
      BY <1>1, <1>6, <2>1
  <1>14. scans[page][k].texte = t
    BY DEF t
  <1>. DEFINE b == [debut |-> d, fin |-> f, page |-> page, mot |-> k]
  <1>15. b.debut = d /\ b.fin = f /\ b.page = page /\ b.mot = k
    OBVIOUS
  <1>16. f \in 0..Len(s) /\ (f = Len(s) \/ s[f + 1] \in Blancs)
    BY <1>1, <1>6, <1>9 DEF n
  <1>. HIDE DEF b
  <1>17. BoiteBrute(s, L, scans, b)
    BY <1>6, <1>8, <1>10, <1>11, <1>12, <1>13, <1>14, <1>15, <1>16 DEF BoiteBrute
  <1>. QED
    BY <1>17 DEF b, d, f

-----------------------------------------------------------------------------
(* The boxes of several pages *)

\* The box of the m-th word of page k, where that page begins in the whole text.
BoiteDecalee(scans, L, k, m) ==
  LET b == BoitesBrutes(scans[k], k)[m]
  IN [debut |-> b.debut + L[k - 1], fin |-> b.fin + L[k - 1], page |-> k, mot |-> m]

\* The boxes are those of every word of every page, and no other.
BoitesDesMots(scans, L, B) ==
  /\ \A j \in DOMAIN B : \E k \in DOMAIN scans : \E m \in DOMAIN scans[k] :
       B[j] = BoiteDecalee(scans, L, k, m)
  /\ \A k \in DOMAIN scans : \A m \in DOMAIN scans[k] : \E j \in DOMAIN B :
       B[j] = BoiteDecalee(scans, L, k, m)

\* Pages read by OCR, each followed by some blanks, or one page alone.
PagesLues(scans, blocs, sep) ==
  /\ scans \in Seq(Seq(Mots)) /\ blocs \in Seq(Seq(Car)) /\ Len(blocs) = Len(scans)
  /\ \A k \in DOMAIN scans : \A m \in DOMAIN scans[k] : MotLu(scans[k][m].texte)
  /\ sep \in Seq(Car) /\ \A i \in 1..Len(sep) : sep[i] \in Blancs
  /\ \A k \in DOMAIN scans : blocs[k] = AssemblerMots(scans[k]) \o sep
  /\ Len(sep) >= 1 \/ Len(scans) = 1

\* Where the text of a page is in the whole, and the blanks around it.
LEMMA PlaceDePage ==
  ASSUME NEW scans, NEW blocs, NEW sep, PagesLues(scans, blocs, sep),
         NEW L, Cumul(L, blocs), NEW k \in 1..Len(scans)
  PROVE  LET s == FlattenSeq(blocs)
             u == AssemblerMots(scans[k])
             off == L[k - 1]
         IN /\ s \in Seq(Car) /\ u \in Seq(Car) /\ off \in Nat /\ L[k] \in Nat
            /\ off + Len(u) <= L[k] /\ off + Len(u) <= Len(s)
            /\ \A i \in 1..Len(u) : s[off + i] = u[i]
            /\ \A i \in 1..Len(sep) : s[(off + Len(u)) + i] = sep[i]
            /\ L[k] = (off + Len(u)) + Len(sep)
            /\ off = 0 \/ s[off] \in Blancs
            /\ off + Len(u) = Len(s) \/ s[(off + Len(u)) + 1] \in Blancs
  <1>. DEFINE s == FlattenSeq(blocs)
              u(j) == AssemblerMots(scans[j])
              n == Len(scans)
              ls == Len(sep)
  <1>1. /\ n \in Nat /\ DOMAIN scans = 1..n /\ \A j \in 1..n : scans[j] \in Seq(Mots)
        /\ blocs \in Seq(Seq(Car)) /\ Len(blocs) = n
        /\ sep \in Seq(Car) /\ ls \in Nat /\ \A i \in 1..ls : sep[i] \in Blancs
        /\ \A j \in 1..n : blocs[j] = u(j) \o sep
        /\ ls >= 1 \/ n = 1
    BY ElementsDe DEF PagesLues
  <1>2. \A j \in 1..n : u(j) \in Seq(Car)
    BY <1>1, AssemblerTypee DEF Mots
  <1>3. EnPlace(Car, s, blocs, L, n)
    BY <1>1, BoutABout
  <1>4. /\ s \in Seq(Car) /\ Len(s) = L[n] /\ L[0] = 0
        /\ \A j \in 0..n : L[j] \in Nat
        /\ \A j \in 1..n : L[j] = L[j - 1] + Len(blocs[j])
        /\ \A j \in 1..n : \A p \in 1..Len(blocs[j]) : s[L[j - 1] + p] = blocs[j][p]
    BY <1>1, <1>3 DEF Cumul, EnPlace
  <1>5. \A j \in 1..n : L[j] <= L[n]
    <2>1. \A j \in 1..n : j \in 0..n /\ n \in j..n
      BY <1>1
    <2>. HIDE DEF n
    <2>. QED
      BY <1>1, <2>1, CumulCroit
  <1>. HIDE DEF s, u, n, ls
  <1>6. ASSUME NEW j \in 1..n
        PROVE  /\ Len(u(j)) \in Nat /\ L[j - 1] \in Nat /\ L[j] \in Nat /\ L[n] \in Nat /\ L[j] <= L[n]
               /\ L[j] = (L[j - 1] + Len(u(j))) + ls
               /\ \A i \in 1..Len(u(j)) : s[L[j - 1] + i] = u(j)[i]
               /\ \A i \in 1..ls : s[(L[j - 1] + Len(u(j))) + i] = sep[i]
    <2>1. j \in 0..n /\ j - 1 \in 0..n /\ n \in 0..n
      BY <1>1
    <2>2. /\ blocs[j] = u(j) \o sep /\ Len(blocs[j]) = Len(u(j)) + ls /\ Len(u(j)) \in Nat
          /\ \A i \in 1..Len(u(j)) : blocs[j][i] = u(j)[i]
          /\ \A i \in 1..ls : blocs[j][Len(u(j)) + i] = sep[i]
      <3>1. u(j) \in Seq(Car) /\ sep \in Seq(Car) /\ blocs[j] = u(j) \o sep
        BY <1>1, <1>2
      <3>. QED
        BY <3>1, MisALaSuite DEF ls
    <2>3. L[j - 1] \in Nat /\ L[j] \in Nat /\ L[n] \in Nat /\ L[j] <= L[n]
          /\ L[j] = L[j - 1] + Len(blocs[j])
      BY <1>4, <1>5, <2>1
    <2>. DEFINE lu == Len(u(j))
                o == L[j - 1]
    <2>4. lu \in Nat /\ o \in Nat /\ ls \in Nat /\ Len(blocs[j]) = lu + ls
      BY <1>1, <2>2, <2>3
    <2>. HIDE DEF lu, o
    <2>5. ASSUME NEW i \in 1..lu PROVE s[o + i] = u(j)[i]
      <3>1. i \in 1..Len(blocs[j])
        BY <2>4
      <3>. QED
        BY <1>4, <2>2, <3>1 DEF lu, o
    <2>6. ASSUME NEW i \in 1..ls PROVE s[(o + lu) + i] = sep[i]
      <3>1. lu + i \in 1..Len(blocs[j]) /\ o + (lu + i) = (o + lu) + i
        BY <2>4
      <3>2. s[o + (lu + i)] = blocs[j][lu + i]
        BY <1>4, <3>1 DEF o
      <3>. QED
        BY <2>2, <3>1, <3>2 DEF lu
    <2>7. L[j] = (o + lu) + ls
      BY <2>3, <2>4 DEF o
    <2>. QED
      BY <2>2, <2>3, <2>5, <2>6, <2>7 DEF lu, o
  <1>7. k \in 1..n
    BY DEF n
  <1>8. L[k - 1] = 0 \/ s[L[k - 1]] \in Blancs
    <2>1. CASE k = 1
      BY <1>4, <2>1
    <2>2. CASE k # 1
      <3>1. k - 1 \in 1..n /\ n # 1
        BY <1>1, <1>7, <2>2
      <3>2. ls \in 1..ls
        BY <1>1, <3>1
      <3>3. L[k - 1] = (L[(k - 1) - 1] + Len(u(k - 1))) + ls
            /\ s[(L[(k - 1) - 1] + Len(u(k - 1))) + ls] = sep[ls]
        BY <1>6, <3>1, <3>2
      <3>. QED
        BY <1>1, <3>2, <3>3
    <2>. QED
      BY <2>1, <2>2
  <1>9. L[k - 1] + Len(u(k)) = Len(s) \/ s[(L[k - 1] + Len(u(k))) + 1] \in Blancs
    <2>1. CASE ls >= 1
      <3>1. 1 \in 1..ls
        BY <1>1, <2>1
      <3>2. s[(L[k - 1] + Len(u(k))) + 1] = sep[1]
        BY <1>6, <1>7, <3>1
      <3>. QED
        BY <1>1, <3>1, <3>2
    <2>2. CASE ~(ls >= 1)
      <3>1. ls = 0 /\ k = n
        BY <1>1, <1>7, <2>2
      <3>2. L[k] = (L[k - 1] + Len(u(k))) + ls /\ Len(u(k)) \in Nat /\ L[k - 1] \in Nat
        BY <1>6, <1>7
      <3>. QED
        BY <1>4, <3>1, <3>2
    <2>. QED
      BY <2>1, <2>2
  <1>10. L[k - 1] + Len(u(k)) <= L[k] /\ L[k - 1] + Len(u(k)) <= Len(s)
    <2>1. /\ Len(u(k)) \in Nat /\ L[k - 1] \in Nat /\ L[k] \in Nat /\ L[n] \in Nat /\ L[k] <= L[n]
          /\ L[k] = (L[k - 1] + Len(u(k))) + ls /\ ls \in Nat /\ Len(s) = L[n]
      BY <1>1, <1>4, <1>6, <1>7
    <2>. QED
      BY <2>1
  <1>11. u(k) \in Seq(Car) /\ s \in Seq(Car)
    BY <1>2, <1>4, <1>7
  <1>12. /\ L[k - 1] \in Nat /\ L[k] \in Nat
         /\ L[k] = (L[k - 1] + Len(u(k))) + ls
         /\ \A i \in 1..Len(u(k)) : s[L[k - 1] + i] = u(k)[i]
         /\ \A i \in 1..ls : s[(L[k - 1] + Len(u(k))) + i] = sep[i]
    BY <1>6, <1>7
  <1>. QED
    BY <1>8, <1>9, <1>10, <1>11, <1>12 DEF s, u, ls

\* Every word of the pages has its box in the whole text, and what is in none is blank.
LEMMA BoitesDesPages ==
  ASSUME NEW scans, NEW blocs, NEW sep, PagesLues(scans, blocs, sep),
         NEW L, Cumul(L, blocs), NEW B, BoitesDesMots(scans, L, B)
  PROVE  BoitesLues(FlattenSeq(blocs), L, scans, B)
  <1>. DEFINE s == FlattenSeq(blocs)
              u(k) == AssemblerMots(scans[k])
              n == Len(scans)
  <1>1. /\ n \in Nat /\ DOMAIN scans = 1..n /\ blocs \in Seq(Seq(Car)) /\ Len(blocs) = n
        /\ \A k \in 1..n : scans[k] \in Seq(Mots)
        /\ \A k \in 1..n : \A m \in DOMAIN scans[k] : MotLu(scans[k][m].texte)
        /\ \A i \in 1..Len(sep) : sep[i] \in Blancs
    BY ElementsDe DEF PagesLues
  <1>2. ASSUME NEW k \in 1..n
        PROVE  /\ s \in Seq(Car) /\ u(k) \in Seq(Car) /\ L[k - 1] \in Nat /\ L[k] \in Nat
               /\ L[k - 1] + Len(u(k)) <= L[k] /\ L[k - 1] + Len(u(k)) <= Len(s)
               /\ \A i \in 1..Len(u(k)) : s[L[k - 1] + i] = u(k)[i]
               /\ \A i \in 1..Len(sep) : s[(L[k - 1] + Len(u(k))) + i] = sep[i]
               /\ L[k] = (L[k - 1] + Len(u(k))) + Len(sep)
               /\ L[k - 1] = 0 \/ s[L[k - 1]] \in Blancs
               /\ L[k - 1] + Len(u(k)) = Len(s) \/ s[(L[k - 1] + Len(u(k))) + 1] \in Blancs
    BY PlaceDePage
  <1>3. ASSUME NEW k \in 1..n
        PROVE  /\ DOMAIN BoitesBrutes(scans[k], k) = 1..Len(scans[k])
               /\ DOMAIN scans[k] = 1..Len(scans[k])
               /\ \A m \in 1..Len(scans[k]) :
                    BoiteDePage(u(k), scans[k], m, BoitesBrutes(scans[k], k)[m].debut,
                                BoitesBrutes(scans[k], k)[m].fin)
               /\ \A i \in 1..Len(u(k)) :
                    u(k)[i] \in Blancs \/ \E m \in 1..Len(scans[k]) :
                      BoitesBrutes(scans[k], k)[m].debut < i /\ i <= BoitesBrutes(scans[k], k)[m].fin
    <2>1. scans[k] \in Seq(Mots)
      BY <1>1
    <2>2. DOMAIN scans[k] = 1..Len(scans[k])
      BY <2>1, ElementsDe
    <2>. QED
      BY <2>1, <2>2, BoitesDePage
  <1>. HIDE DEF s, u, n
  <1>4. ASSUME NEW k \in 1..n, NEW m \in DOMAIN scans[k]
        PROVE  /\ BoiteDecalee(scans, L, k, m) \in LesBoites
               /\ BoiteBrute(s, L, scans, BoiteDecalee(scans, L, k, m))
    <2>. DEFINE debut == BoitesBrutes(scans[k], k)[m].debut
                fin == BoitesBrutes(scans[k], k)[m].fin
                mots == scans[k]
                off == L[k - 1]
    <2>1. mots \in Seq(Mots) /\ m \in 1..Len(mots) /\ MotLu(mots[m].texte)
          /\ Len(mots) \in Nat /\ DOMAIN mots = 1..Len(mots)
      BY <1>1, <1>3, ElementsDe
    <2>2. mots[m].texte \in Seq(Car)
      BY <2>1, SuiteBonne
    <2>3. BoiteDePage(u(k), mots, m, debut, fin)
      BY <1>3, <2>1
    <2>4. /\ s \in Seq(Car) /\ u(k) \in Seq(Car) /\ off \in Nat /\ L[k] \in Nat
          /\ off + Len(u(k)) <= L[k] /\ off + Len(u(k)) <= Len(s)
          /\ \A i \in 1..Len(u(k)) : s[off + i] = u(k)[i]
          /\ off = 0 \/ s[off] \in Blancs
          /\ off + Len(u(k)) = Len(s) \/ s[(off + Len(u(k))) + 1] \in Blancs
      BY <1>2
    <2>5. k \in 1..Len(scans) /\ scans[k] = mots /\ L[k - 1] = off
      BY DEF n
    <2>6. BoiteDecalee(scans, L, k, m) =
            [debut |-> debut + off, fin |-> fin + off, page |-> k, mot |-> m]
      BY DEF BoiteDecalee
    <2>. HIDE DEF debut, fin, mots, off
    <2>7. BoiteBrute(s, L, scans, [debut |-> debut + off, fin |-> fin + off, page |-> k, mot |-> m])
      BY <2>1, <2>2, <2>3, <2>4, <2>5, PlaceDeBoite
    <2>8. debut \in Nat /\ fin \in Nat
      BY <2>3, <2>4 DEF BoiteDePage
    <2>9. debut + off \in Nat /\ fin + off \in Nat /\ k \in Nat /\ m \in Nat
      <3>1. k \in Nat /\ m \in Nat
        <4>. HIDE DEF n
        <4>. QED
          BY <1>1, <2>1
      <3>. QED
        BY <2>4, <2>8, <3>1
    <2>. QED
      BY <2>6, <2>7, <2>9 DEF LesBoites
  <1>5. ASSUME NEW j \in DOMAIN B PROVE B[j] \in LesBoites /\ BoiteBrute(s, L, scans, B[j])
    <2>1. PICK k \in DOMAIN scans : \E m \in DOMAIN scans[k] : B[j] = BoiteDecalee(scans, L, k, m)
      BY DEF BoitesDesMots
    <2>. QED
      BY <1>1, <1>4, <2>1
  <1>6. ASSUME NEW i \in 1..Len(s)
        PROVE  s[i] \in Blancs \/ \E j \in DOMAIN B : B[j].debut < i /\ i <= B[j].fin
    <2>1. i \in 1..L[Len(blocs)]
      BY <1>1, BoutABout DEF EnPlace, s
    <2>2. PICK k \in 1..n : L[k - 1] < i /\ i <= L[k]
      BY <1>1, <2>1, CumulBloc
    <2>. DEFINE off == L[k - 1]
                lu == Len(u(k))
    <2>3. off \in Nat /\ L[k] \in Nat /\ lu \in Nat /\ L[k] = (off + lu) + Len(sep)
          /\ i \in Nat /\ off < i /\ i <= L[k] /\ Len(sep) \in Nat
      <3>1. u(k) \in Seq(Car) /\ sep \in Seq(Car)
        BY <1>2 DEF PagesLues
      <3>2. lu \in Nat /\ Len(sep) \in Nat
        BY <3>1, ElementsDe
      <3>. QED
        BY <1>2, <2>2, <3>2
    <2>4. CASE i <= off + lu
      <3>1. i - off \in 1..lu /\ off + (i - off) = i
        <4>. HIDE DEF off, lu
        <4>. QED
          BY <2>3, <2>4
      <3>2. s[i] = u(k)[i - off]
        <4>1. \A q \in 1..lu : s[off + q] = u(k)[q]
          BY <1>2
        <4>. QED
          BY <3>1, <4>1
      <3>3. CASE u(k)[i - off] \in Blancs
        BY <3>2, <3>3
      <3>4. CASE u(k)[i - off] \notin Blancs
        <4>1. PICK m \in 1..Len(scans[k]) : /\ BoitesBrutes(scans[k], k)[m].debut < i - off
                                            /\ i - off <= BoitesBrutes(scans[k], k)[m].fin
          BY <1>3, <3>1, <3>4
        <4>2. PICK j \in DOMAIN B : B[j] = BoiteDecalee(scans, L, k, m)
          <5>1. k \in DOMAIN scans /\ m \in DOMAIN scans[k]
            BY <1>1, <1>3
          <5>. QED
            BY <5>1 DEF BoitesDesMots
        <4>. DEFINE debut == BoitesBrutes(scans[k], k)[m].debut
                    fin == BoitesBrutes(scans[k], k)[m].fin
        <4>3. debut \in Nat /\ fin \in Nat
          <5>1. BoiteDePage(u(k), scans[k], m, debut, fin)
            BY <1>3
          <5>. QED
            BY <2>3, <5>1 DEF BoiteDePage
        <4>4. B[j].debut = debut + off /\ B[j].fin = fin + off
          BY <4>2 DEF BoiteDecalee
        <4>5. debut < i - off /\ i - off <= fin
          BY <4>1
        <4>. HIDE DEF debut, fin, off, lu
        <4>6. debut + off < i /\ i <= fin + off
          BY <2>3, <4>3, <4>5
        <4>. QED
          BY <4>4, <4>6
      <3>. QED
        BY <3>3, <3>4
    <2>5. CASE ~(i <= off + lu)
      <3>1. i - (off + lu) \in 1..Len(sep) /\ (off + lu) + (i - (off + lu)) = i
        <4>. HIDE DEF off, lu
        <4>. QED
          BY <2>3, <2>5
      <3>2. \A q \in 1..Len(sep) : s[(off + lu) + q] = sep[q]
        BY <1>2
      <3>3. s[i] = sep[i - (off + lu)]
        BY <3>1, <3>2
      <3>. QED
        BY <1>1, <3>1, <3>3
    <2>. QED
      BY <2>4, <2>5
  <1>. QED
    BY <1>5, <1>6 DEF BoitesLues, s

-----------------------------------------------------------------------------
(* The boxes of a document *)

\* The boxes of a result are those of the words of its scans, brought to its text.
BoitesBonnes(d, r) ==
  /\ FlattenSeq(r.pagesBrutes) = r.brut
  /\ \E scans, L, B :
       /\ Len(scans) = Len(r.pagesBrutes)
       /\ \A k \in 1..Len(scans) : k \in DOMAIN d.scans /\ scans[k] = d.scans[k]
       /\ Cumul(L, r.pagesBrutes) /\ BoitesLues(r.brut, L, scans, B)
       /\ r.boites = reprojeter_boites(r.texte, B)

\* The scans of a document are pages of words.
LEMMA ScansLus ==
  ASSUME NEW d, DocumentPossible(d)
  PROVE  /\ d.scans \in Seq(Seq(Mots)) /\ Len(d.scans) \in Nat /\ DOMAIN d.scans = 1..Len(d.scans)
         /\ \A k \in DOMAIN d.scans : \A m \in DOMAIN d.scans[k] : MotLu(d.scans[k][m].texte)
  <1>1. d.scans \in Seq(Seq(Mots))
    BY DeCaracteres DEF Mots
  <1>. QED
    BY <1>1, ElementsDe DEF MotLu, DocumentPossible

\* A function on the first integers is a sequence.
LEMMA FaitUneSuite ==
  ASSUME NEW S, NEW n \in Nat, NEW f, f = [k \in 1..n |-> f[k]], \A k \in 1..n : f[k] \in S
  PROVE  f \in Seq(S) /\ Len(f) = n /\ DOMAIN f = 1..n
  OBVIOUS

\* A box, and a box moved.
Boite(debut, fin, page, mot) == [debut |-> debut, fin |-> fin, page |-> page, mot |-> mot]
Mue(b, o) == [b EXCEPT !.debut = @ + o, !.fin = @ + o]

\* The moved box is the box of the moved ends.
LEMMA BoiteMue ==
  ASSUME NEW b, b.debut \in Nat, b.fin \in Nat, NEW page \in Nat, NEW mot \in Nat, NEW o \in Nat,
         b = Boite(b.debut, b.fin, page, mot)
  PROVE  Mue(b, o) = Boite(b.debut + o, b.fin + o, page, mot)
  <1>. DEFINE d == b.debut + o
              f == b.fin + o
              c == [b EXCEPT !.debut = d, !.fin = f]
              e == [debut |-> d, fin |-> f, page |-> page, mot |-> mot]
              E == [debut : Nat, fin : Nat, page : Nat, mot : Nat]
  <1>1. d \in Nat /\ f \in Nat
    OBVIOUS
  <1>2. b \in E
    <2>1. \A x, y \in Nat : [debut |-> x, fin |-> y, page |-> page, mot |-> mot] \in E
      BY SMT
    <2>2. [debut |-> b.debut, fin |-> b.fin, page |-> page, mot |-> mot] \in E
      BY <2>1
    <2>. HIDE DEF E
    <2>. QED
      BY <2>2 DEF Boite
  <1>3. b.page = page /\ b.mot = mot /\ DOMAIN b = {"debut", "fin", "page", "mot"}
    <2>1. \A x, y : LET r == [debut |-> x, fin |-> y, page |-> page, mot |-> mot]
                    IN r.page = page /\ r.mot = mot /\ DOMAIN r = {"debut", "fin", "page", "mot"}
      BY SMT
    <2>. QED
      BY <2>1 DEF Boite
  <1>. HIDE DEF d, f
  <1>4. c \in E
    BY <1>1, <1>2, Zenon
  <1>5. e \in E
    BY <1>1, SMT
  <1>6. c.debut = d /\ c.fin = f /\ c.page = page /\ c.mot = mot
    BY <1>3, SMT
  <1>. HIDE DEF c
  <1>7. c.debut = e.debut /\ c.fin = e.fin /\ c.page = e.page /\ c.mot = e.mot
    BY <1>6
  <1>. HIDE DEF e
  <1>8. c = e
    BY <1>4, <1>5, <1>7, SMT
  <1>. QED
    BY <1>8, Zenon DEF c, e, d, f, Mue, Boite

\* The boxes of an image are those of its words (ocr.py, ocr_image_array).
LEMMA BoitesImage ==
  ASSUME NEW d, DocumentPossible(d), deviner_type(d) = "image", d.lisible
  PROVE  BoitesBonnes(d, ExtraireImage(d))
  <1>. DEFINE mots == d.scans[1]
              u == AssemblerMots(mots)
              scans == <<mots>>
              blocs == <<u>>
              B == BoitesBrutes(mots, 1)
  <1>1. 1 \in DOMAIN d.scans /\ mots \in Seq(Mots) /\ \A m \in DOMAIN mots : MotLu(mots[m].texte)
    <2>1. d.scans # <<>>
      BY DEF DocumentPossible
    <2>2. 1 \in DOMAIN d.scans
      <3>1. d.scans \in Seq(Seq(Mots)) /\ Len(d.scans) \in Nat /\ DOMAIN d.scans = 1..Len(d.scans)
        BY ScansLus
      <3>2. CASE Len(d.scans) = 0
        BY <2>1, <3>1, <3>2
      <3>. QED
        BY <3>1, <3>2
    <2>. QED
      BY <2>2, ScansLus
  <1>2. u \in Seq(Car)
    BY <1>1, AssemblerTypee DEF Mots
  <1>. HIDE DEF u, mots
  <1>3. blocs \in Seq(Seq(Car)) /\ FlattenSeq(blocs) = u /\ Len(blocs) = 1 /\ blocs[1] = u
    BY <1>2, UneSeulePage
  <1>4. scans \in Seq(Seq(Mots)) /\ Len(scans) = 1 /\ scans[1] = mots /\ DOMAIN scans = {1}
    BY <1>1, Courtes
  <1>. HIDE DEF scans, blocs
  <1>5. PagesLues(scans, blocs, <<>>)
    <2>1. u \o <<>> = u
      BY <1>2
    <2>2. <<>> \in Seq(Car) /\ Len(<<>>) = 0 /\ 1..0 = {}
      OBVIOUS
    <2>. QED
      BY <1>1, <1>3, <1>4, <2>1, <2>2 DEF PagesLues, u
  <1>6. PICK L : Cumul(L, blocs)
    BY <1>3, CumulExiste
  <1>7. DOMAIN mots = 1..Len(mots)
        /\ DOMAIN B = 1..Len(mots)
        /\ \A m \in 1..Len(mots) :
             /\ B[m] = [debut |-> B[m].debut, fin |-> B[m].fin, page |-> 1, mot |-> m]
             /\ B[m].debut \in Nat /\ B[m].fin \in Nat
    <2>1. /\ DOMAIN B = 1..Len(mots)
          /\ \A m \in 1..Len(mots) :
               /\ B[m] = [debut |-> B[m].debut, fin |-> B[m].fin, page |-> 1, mot |-> m]
               /\ BoiteDePage(AssemblerMots(mots), mots, m, B[m].debut, B[m].fin)
      BY <1>1, BoitesDePage
    <2>. HIDE DEF B
    <2>2. \A m \in 1..Len(mots) : B[m].debut \in Nat /\ B[m].fin \in Nat
      <3>1. Len(AssemblerMots(mots)) \in Nat
        BY <1>2 DEF u
      <3>. QED
        BY <2>1, <3>1 DEF BoiteDePage
    <2>. QED
      BY <1>1, <2>1, <2>2, ElementsDe
  <1>8. \A m \in DOMAIN mots : BoiteDecalee(scans, L, 1, m) = B[m]
    <2>1. L[1 - 1] = 0
      BY <1>6 DEF Cumul
    <2>. HIDE DEF B
    <2>2. ASSUME NEW m \in 1..Len(mots)
          PROVE  [debut |-> B[m].debut + L[1 - 1], fin |-> B[m].fin + L[1 - 1],
                  page |-> 1, mot |-> m] = B[m]
      <3>1. B[m].debut + L[1 - 1] = B[m].debut /\ B[m].fin + L[1 - 1] = B[m].fin
        BY <1>7, <2>1
      <3>. QED
        BY <1>7, <3>1
    <2>. QED
      BY <1>4, <1>7, <2>2 DEF BoiteDecalee, B
  <1>. HIDE DEF B
  <1>9. BoitesDesMots(scans, L, B)
    <2>1. ASSUME NEW j \in DOMAIN B
          PROVE  \E k \in DOMAIN scans : \E m \in DOMAIN scans[k] : B[j] = BoiteDecalee(scans, L, k, m)
      <3>1. 1 \in DOMAIN scans /\ j \in DOMAIN scans[1] /\ B[j] = BoiteDecalee(scans, L, 1, j)
        BY <1>4, <1>7, <1>8
      <3>. QED
        BY <3>1
    <2>2. ASSUME NEW k \in DOMAIN scans, NEW m \in DOMAIN scans[k]
          PROVE  \E j \in DOMAIN B : B[j] = BoiteDecalee(scans, L, k, m)
      <3>1. k = 1
        BY <1>4
      <3>2. m \in DOMAIN mots
        BY <1>4, <3>1
      <3>3. m \in DOMAIN B /\ B[m] = BoiteDecalee(scans, L, k, m)
        BY <1>7, <1>8, <3>1, <3>2
      <3>. QED
        BY <3>3
    <2>. QED
      BY <2>1, <2>2 DEF BoitesDesMots
  <1>10. BoitesLues(u, L, scans, B)
    BY <1>3, <1>5, <1>6, <1>9, BoitesDesPages
  <1>11. LET r == ExtraireImage(d)
         IN /\ r.pagesBrutes = blocs /\ r.brut = u
            /\ r.boites = reprojeter_boites(r.texte, B)
    BY DEF ExtraireImage, Resultat, u, mots, blocs, B
  <1>12. \A k \in 1..Len(scans) : k \in DOMAIN d.scans /\ scans[k] = d.scans[k]
    <2>1. \A k \in 1..1 : k = 1
      OBVIOUS
    <2>. QED
      BY <1>1, <1>4, <2>1 DEF mots
  <1>. DEFINE r == ExtraireImage(d)
  <1>13. /\ FlattenSeq(r.pagesBrutes) = r.brut /\ Len(scans) = Len(r.pagesBrutes)
         /\ Cumul(L, r.pagesBrutes) /\ BoitesLues(r.brut, L, scans, B)
         /\ r.boites = reprojeter_boites(r.texte, B)
    <2>1. r.pagesBrutes = blocs /\ r.brut = u /\ r.boites = reprojeter_boites(r.texte, B)
      BY <1>11
    <2>. HIDE DEF r
    <2>. QED
      BY <1>3, <1>4, <1>6, <1>10, <2>1
  <1>. HIDE DEF r
  <1>. QED
    BY <1>12, <1>13 DEF BoitesBonnes, r

\* The boxes of a PDF are those of the words of each page, moved with it (_ocr_pdf).
LEMMA BoitesPdf ==
  ASSUME NEW d, DocumentPossible(d), d.lisible
  PROVE  BoitesBonnes(d, OcrPdf(d))
  <1>. DEFINE scans == d.scans
              n == Len(scans)
              blocs == [k \in DOMAIN scans |-> BlocOcr(scans[k])]
              decalage(k) == LongueurDe([j \in 1..(k - 1) |-> BlocOcr(scans[j])])
              decalees(k) == [b \in DOMAIN BoitesBrutes(scans[k], k) |->
                               [BoitesBrutes(scans[k], k)[b] EXCEPT
                                  !.debut = @ + decalage(k), !.fin = @ + decalage(k)]]
              P == [k \in DOMAIN scans |-> decalees(k)]
              B == FlattenSeq(P)
  <1>1. /\ scans \in Seq(Seq(Mots)) /\ n \in Nat /\ DOMAIN scans = 1..n
        /\ \A k \in 1..n : scans[k] \in Seq(Mots)
        /\ \A k \in 1..n : \A m \in DOMAIN scans[k] : MotLu(scans[k][m].texte)
    <2>1. scans \in Seq(Seq(Mots)) /\ n \in Nat /\ DOMAIN scans = 1..n
          /\ \A k \in DOMAIN scans : \A m \in DOMAIN scans[k] : MotLu(scans[k][m].texte)
      BY ScansLus
    <2>. HIDE DEF scans, n
    <2>2. \A k \in 1..n : scans[k] \in Seq(Mots)
      BY <2>1, ElementsDe
    <2>. QED
      BY <2>1, <2>2
  <1>2. /\ Separateur \in Seq(Car) /\ Len(Separateur) = 2
        /\ \A i \in 1..Len(Separateur) : Separateur[i] \in Blancs
    <2>1. "lf" \in Blancs
      BY DEF Blancs
    <2>2. \A i \in 1..Len(<<"lf", "lf">>) : <<"lf", "lf">>[i] \in Blancs
      BY <2>1, UnOuDeux
    <2>3. Len(<<"lf", "lf">>) = 2
      OBVIOUS
    <2>. QED
      BY <2>2, <2>3, SeparateurTypee DEF Separateur
  <1>3. /\ blocs \in Seq(Seq(Car)) /\ Len(blocs) = n
        /\ \A k \in 1..n : blocs[k] = AssemblerMots(scans[k]) \o Separateur
    <2>. HIDE DEF scans, n
    <2>1. \A k \in 1..n : AssemblerMots(scans[k]) \in Seq(Car)
      BY <1>1, AssemblerTypee DEF Mots
    <2>2. \A k \in 1..n : BlocOcr(scans[k]) \in Seq(Car)
      BY <1>2, <2>1, MisALaSuite DEF BlocOcr
    <2>3. blocs = [k \in 1..n |-> BlocOcr(scans[k])]
      BY <1>1
    <2>4. blocs \in Seq(Seq(Car)) /\ Len(blocs) = n
      BY <1>1, <2>2, <2>3
    <2>. QED
      BY <2>3, <2>4 DEF BlocOcr
  <1>. HIDE DEF blocs
  <1>4. PagesLues(scans, blocs, Separateur)
    <2>1. Len(Separateur) >= 1
      BY <1>2
    <2>2. Len(blocs) = Len(scans)
      BY <1>3
    <2>3. \A k \in DOMAIN scans : blocs[k] = AssemblerMots(scans[k]) \o Separateur
      BY <1>1, <1>3
    <2>4. \A k \in DOMAIN scans : \A m \in DOMAIN scans[k] : MotLu(scans[k][m].texte)
      BY <1>1
    <2>. HIDE DEF scans, n
    <2>. QED
      BY <1>1, <1>2, <1>3, <2>1, <2>2, <2>3, <2>4 DEF PagesLues
  <1>5. PICK L : Cumul(L, blocs)
    BY <1>3, CumulExiste
  <1>6. ASSUME NEW k \in 1..n PROVE decalage(k) = L[k - 1] /\ L[k - 1] \in Nat
    <2>. HIDE DEF scans, n
    <2>1. k - 1 \in 0..Len(blocs) /\ k - 1 \in Nat /\ k - 1 <= n
      BY <1>1, <1>3
    <2>2. [j \in 1..(k - 1) |-> BlocOcr(scans[j])] = SubSeq(blocs, 1, k - 1)
      <3>1. \A j \in 1..(k - 1) : j \in 1..n /\ blocs[j] = BlocOcr(scans[j])
        <4>1. \A j \in 1..(k - 1) : j \in 1..n
          BY <1>1
        <4>. QED
          BY <1>1, <4>1 DEF blocs
      <3>2. SubSeq(blocs, 1, k - 1) = [j \in 1..(k - 1) |-> blocs[j]]
        BY <1>3, <2>1
      <3>. QED
        BY <3>1, <3>2
    <2>3. LongueurDe(SubSeq(blocs, 1, k - 1)) = L[k - 1]
      BY <1>3, <1>5, <2>1, LongueurPrefixe
    <2>4. L[k - 1] \in Nat
      BY <1>5, <2>1 DEF Cumul
    <2>. QED
      BY <2>2, <2>3, <2>4
  <1>. HIDE DEF decalage
  <1>7. ASSUME NEW k \in 1..n
        PROVE  /\ DOMAIN scans[k] = 1..Len(scans[k])
               /\ DOMAIN P[k] = 1..Len(scans[k]) /\ P[k] \in Seq(LesBoites)
               /\ Len(P[k]) = Len(scans[k])
               /\ \A m \in 1..Len(scans[k]) : P[k][m] = BoiteDecalee(scans, L, k, m)
    <2>. DEFINE mots == scans[k]
                C == BoitesBrutes(mots, k)
    <2>1. mots \in Seq(Mots) /\ DOMAIN mots = 1..Len(mots) /\ Len(mots) \in Nat
      BY <1>1, ElementsDe
    <2>2. P[k] = [b \in DOMAIN C |-> [C[b] EXCEPT !.debut = @ + L[k - 1], !.fin = @ + L[k - 1]]]
      BY <1>1, <1>6
    <2>. HIDE DEF P, mots, scans, n
    <2>3. /\ DOMAIN C = 1..Len(mots)
          /\ \A m \in 1..Len(mots) :
               /\ C[m] = [debut |-> C[m].debut, fin |-> C[m].fin, page |-> k, mot |-> m]
               /\ BoiteDePage(AssemblerMots(mots), mots, m, C[m].debut, C[m].fin)
      BY <2>1, BoitesDePage
    <2>4. Len(AssemblerMots(mots)) \in Nat
      <3>1. AssemblerMots(mots) \in Seq(Car)
        BY <2>1, AssemblerTypee DEF Mots
      <3>. QED
        BY <3>1
    <2>5. \A m \in 1..Len(mots) : BoiteDecalee(scans, L, k, m) =
               [debut |-> C[m].debut + L[k - 1], fin |-> C[m].fin + L[k - 1], page |-> k, mot |-> m]
      BY DEF BoiteDecalee, mots
    <2>. HIDE DEF C
    <2>6. \A m \in 1..Len(mots) : C[m].debut \in Nat /\ C[m].fin \in Nat
      BY <2>3, <2>4 DEF BoiteDePage
    <2>7. k \in Nat /\ L[k - 1] \in Nat
      BY <1>1, <1>6 DEF n
    <2>8. ASSUME NEW m \in 1..Len(mots) PROVE P[k][m] = BoiteDecalee(scans, L, k, m)
      <3>1. P[k][m] = [C[m] EXCEPT !.debut = @ + L[k - 1], !.fin = @ + L[k - 1]]
        <4>1. m \in DOMAIN C
          BY <2>3
        <4>. QED
          BY <2>2, <4>1, Zenon
      <3>2. C[m] = [debut |-> C[m].debut, fin |-> C[m].fin, page |-> k, mot |-> m]
        BY <2>3
      <3>3. [C[m] EXCEPT !.debut = @ + L[k - 1], !.fin = @ + L[k - 1]] =
              [debut |-> C[m].debut + L[k - 1], fin |-> C[m].fin + L[k - 1], page |-> k, mot |-> m]
        <4>1. C[m].debut \in Nat /\ C[m].fin \in Nat /\ m \in Nat
          BY <2>1, <2>6
        <4>2. C[m] = Boite(C[m].debut, C[m].fin, k, m)
          BY <3>2 DEF Boite
        <4>3. Mue(C[m], L[k - 1]) = Boite(C[m].debut + L[k - 1], C[m].fin + L[k - 1], k, m)
          <5>. DEFINE c == C[m]
                      o == L[k - 1]
          <5>1. /\ c.debut \in Nat /\ c.fin \in Nat /\ m \in Nat /\ k \in Nat /\ o \in Nat
                /\ c = Boite(c.debut, c.fin, k, m)
            BY <2>7, <4>1, <4>2
          <5>. HIDE DEF c, o
          <5>2. Mue(c, o) = Boite(c.debut + o, c.fin + o, k, m)
            BY <5>1, BoiteMue
          <5>. QED
            BY <5>2 DEF c, o
        <4>. QED
          BY <4>3, Zenon DEF Mue, Boite
      <3>. QED
        BY <2>5, <3>1, <3>3
    <2>9. \A m \in 1..Len(mots) : BoiteDecalee(scans, L, k, m) \in LesBoites
      <3>1. ASSUME NEW m \in 1..Len(mots)
            PROVE  C[m].debut + L[k - 1] \in Nat /\ C[m].fin + L[k - 1] \in Nat /\ m \in Nat
        BY <2>1, <2>6, <2>7
      <3>. QED
        BY <2>5, <2>7, <3>1 DEF LesBoites
    <2>10. P[k] = [m \in 1..Len(mots) |-> P[k][m]]
      BY <2>2, <2>3
    <2>11. P[k] \in Seq(LesBoites) /\ Len(P[k]) = Len(mots) /\ DOMAIN P[k] = 1..Len(mots)
      <3>1. \A m \in 1..Len(mots) : P[k][m] \in LesBoites
        BY <2>8, <2>9
      <3>. QED
        BY <2>1, <2>10, <3>1, FaitUneSuite
    <2>. QED
      BY <2>1, <2>8, <2>11 DEF mots
  <1>8. P \in Seq(Seq(LesBoites)) /\ Len(P) = n
    <2>1. DOMAIN P = 1..n /\ P = [k \in 1..n |-> P[k]]
      BY <1>1
    <2>2. \A k \in 1..n : P[k] \in Seq(LesBoites)
      BY <1>7
    <2>. HIDE DEF P, n, scans
    <2>. QED
      BY <1>1, <2>1, <2>2, FaitUneSuite
  <1>. HIDE DEF P, n
  <1>9. PICK N : Cumul(N, P)
    BY <1>8, CumulExiste
  <1>10. EnPlace(LesBoites, B, P, N, n)
    BY <1>8, <1>9, BoutABout
  <1>. HIDE DEF B, scans
  <1>11. B \in Seq(LesBoites) /\ Len(B) = N[n] /\ DOMAIN B = 1..Len(B)
         /\ \A k \in 1..n : \A p \in 1..Len(P[k]) : B[N[k - 1] + p] = P[k][p]
    BY <1>10, ElementsDe DEF EnPlace
  <1>12. ASSUME NEW j \in DOMAIN B
         PROVE  \E k \in DOMAIN scans : \E m \in DOMAIN scans[k] : B[j] = BoiteDecalee(scans, L, k, m)
    <2>1. j \in 1..N[Len(P)]
      BY <1>8, <1>11
    <2>2. PICK k \in 1..n : j - N[k - 1] \in 1..Len(P[k])
      BY <1>8, <1>9, <2>1, CumulBloc
    <2>3. N[k - 1] \in Nat
      <3>1. k - 1 \in 0..n
        BY <1>1
      <3>. QED
        BY <1>8, <1>9, <3>1 DEF Cumul
    <2>4. N[k - 1] + (j - N[k - 1]) = j
      BY <1>11, <2>3
    <2>5. B[j] = P[k][j - N[k - 1]]
      BY <1>11, <2>2, <2>4
    <2>6. k \in DOMAIN scans /\ j - N[k - 1] \in DOMAIN scans[k]
      BY <1>1, <1>7, <2>2
    <2>7. B[j] = BoiteDecalee(scans, L, k, j - N[k - 1])
      BY <1>7, <2>2, <2>5
    <2>. QED
      BY <2>6, <2>7
  <1>13. ASSUME NEW k \in DOMAIN scans, NEW m \in DOMAIN scans[k]
         PROVE  \E j \in DOMAIN B : B[j] = BoiteDecalee(scans, L, k, m)
    <2>1. k \in 1..n /\ m \in 1..Len(P[k])
      BY <1>1, <1>7
    <2>2. B[N[k - 1] + m] = BoiteDecalee(scans, L, k, m)
      BY <1>7, <1>11, <2>1
    <2>3. N[k - 1] + m \in DOMAIN B
      <3>1. k - 1 \in 0..n /\ k \in 0..n /\ n \in 0..n /\ n \in k..n /\ n \in Nat
        BY <1>1, <2>1
      <3>2. /\ N[k - 1] \in Nat /\ N[k] \in Nat /\ N[n] \in Nat
            /\ N[k] = N[k - 1] + Len(P[k])
        BY <1>8, <1>9, <2>1, <3>1 DEF Cumul
      <3>3. N[k] <= N[n]
        BY <1>8, <1>9, <3>1, CumulCroit
      <3>4. Len(P[k]) \in Nat
        BY <1>7, <2>1, ElementsDe
      <3>5. N[k - 1] + m \in 1..N[n]
        BY <2>1, <3>2, <3>3, <3>4
      <3>. QED
        BY <1>11, <3>5
    <2>. QED
      BY <2>2, <2>3
  <1>14. BoitesDesMots(scans, L, B)
    BY <1>12, <1>13 DEF BoitesDesMots
  <1>15. BoitesLues(FlattenSeq(blocs), L, scans, B)
    BY <1>4, <1>5, <1>14, BoitesDesPages
  <1>16. LET r == OcrPdf(d)
         IN /\ r.pagesBrutes = blocs /\ r.brut = FlattenSeq(blocs)
            /\ r.boites = reprojeter_boites(r.texte, B)
    BY DEF OcrPdf, Resultat, BoitesOcrPdf, blocs, B, P, scans, decalage
  <1>17. \A k \in 1..Len(scans) : k \in DOMAIN d.scans
    BY <1>1 DEF n, scans
  <1>. QED
    BY <1>3, <1>5, <1>15, <1>16, <1>17 DEF BoitesBonnes, n, scans

\* A PDF whose pages OCR cannot read has no text and no box (_ocr_pdf).
LEMMA BoitesSansTexte ==
  ASSUME NEW d
  PROVE  BoitesBonnes(d, SansTexte("ocr"))
  <1>. DEFINE r == SansTexte("ocr")
              L == [k \in 0..0 |-> 0]
              vide == <<>>
  <1>1. r.pagesBrutes = <<>> /\ r.brut = <<>> /\ r.boites = <<>>
    BY DEF SansTexte, Resultat
  <1>2. Len(vide) = 0 /\ DOMAIN vide = {} /\ FlattenSeq(<<>>) = <<>>
    BY DEF FlattenSeq
  <1>3. Cumul(L, <<>>)
    BY DEF Cumul
  <1>. HIDE DEF L
  <1>4. reprojeter_boites(r.texte, vide) = <<>>
    <2>. HIDE DEF r
    <2>1. reprojeter_boites(r.texte, vide) = [k \in {} |->
            [vide[k] EXCEPT !.debut = Traduire(r.texte, @), !.fin = Traduire(r.texte, @)]]
      BY <1>2, Zenon DEF reprojeter_boites
    <2>2. \A f, g : DOMAIN f = {} /\ DOMAIN g = {} /\ f = [k \in {} |-> f[k]]
                      /\ g = [k \in {} |-> g[k]] => f = g
      OBVIOUS
    <2>. QED
      BY <1>2, <2>1
  <1>5. BoitesLues(<<>>, L, vide, vide)
    BY <1>2 DEF BoitesLues
  <1>6. \A k \in 1..Len(vide) : k \in DOMAIN d.scans /\ vide[k] = d.scans[k]
    BY <1>2
  <1>. HIDE DEF r
  <1>. QED
    BY <1>1, <1>2, <1>3, <1>4, <1>5, <1>6 DEF BoitesBonnes, r, vide

\* A text that comes from OCR comes from an image or from the pages of a PDF (router.py).
LEMMA BoitesExtraites ==
  ASSUME NEW d, DocumentPossible(d), extraire(d).methode = "ocr"
  PROVE  BoitesBonnes(d, extraire(d))
  <1>1. CASE d.vide
    BY <1>1 DEF extraire, SansTexte, Resultat
  <1>2. CASE ~d.vide /\ deviner_type(d) = "pdf"
    <2>1. extraire(d) = ExtrairePdf(d)
      BY <1>2 DEF extraire
    <2>2. CASE d.lecteurs = {} \/ Scanne(d.couches)
      <3>1. extraire(d) = OcrPdf(d)
        BY <2>1, <2>2 DEF ExtrairePdf
      <3>2. CASE d.lisible
        BY <3>1, <3>2, BoitesPdf
      <3>3. CASE ~d.lisible
        <4>1. OcrPdf(d) = SansTexte("ocr")
          BY <3>3 DEF OcrPdf
        <4>. QED
          BY <3>1, <4>1, BoitesSansTexte
      <3>. QED
        BY <3>2, <3>3
    <2>3. CASE ~(d.lecteurs = {} \/ Scanne(d.couches))
      BY <2>1, <2>3 DEF ExtrairePdf, Resultat
    <2>. QED
      BY <2>2, <2>3
  <1>3. CASE ~d.vide /\ deviner_type(d) = "docx"
    <2>1. extraire(d) = ExtraireDocx(d)
      BY <1>3 DEF extraire
    <2>2. CASE d.lisible
      <3>1. \A u, v : Resultat(u, "docx", v).methode = "docx"
        BY DEF Resultat
      <3>2. ExtraireDocx(d).methode = "docx"
        BY <2>2, <3>1, Zenon DEF ExtraireDocx
      <3>. QED
        BY <2>1, <3>2
    <2>3. CASE ~d.lisible
      <3>1. ExtraireDocx(d) = Echec
        BY <2>3, Zenon DEF ExtraireDocx
      <3>. QED
        BY <2>1, <3>1 DEF Echec, SansTexte, Resultat
    <2>. QED
      BY <2>2, <2>3
  <1>4. CASE ~d.vide /\ deviner_type(d) = "image"
    <2>1. extraire(d) = ExtraireImage(d)
      BY <1>4 DEF extraire
    <2>2. CASE d.lisible
      BY <1>4, <2>1, <2>2, BoitesImage
    <2>3. CASE ~d.lisible
      BY <2>1, <2>3 DEF ExtraireImage, Echec, SansTexte, Resultat
    <2>. QED
      BY <2>2, <2>3
  <1>5. CASE ~d.vide /\ deviner_type(d) = "texte"
    <2>1. extraire(d) = ExtraireTexte(d)
      BY <1>5 DEF extraire
    <2>. QED
      BY <2>1 DEF ExtraireTexte, Resultat
  <1>6. deviner_type(d) \in {"pdf", "docx", "image", "texte"}
    BY DEF deviner_type, Familles
  <1>. QED
    BY <1>1, <1>2, <1>3, <1>4, <1>5, <1>6

=============================================================================
