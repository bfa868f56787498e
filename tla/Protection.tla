------------------------------ MODULE Protection ------------------------------
(***************************************************************************)
(* Requests for a protected document, from the gateway to the engine and   *)
(* back: POST /proteger (ai-engine/app/main.py, proteger), then the tokens *)
(* the gateway keeps one by one before it serves                           *)
(* (gateway/src/documents/documents.service.ts, proteger;                  *)
(* catalog.service.ts, enregistrerPseudonyme).  Requests run together and  *)
(* share the table of pseudonyms.                                          *)
(***************************************************************************)
EXTENDS Masquage, Pseudonymes, Sensibilite

CONSTANTS
  Requetes,          \* the requests in progress
  Charges,           \* what may be asked in a behaviour
  Demandables(_, _), \* Demandables(c, r): the documents request r may ask for under c
  Detections(_, _)   \* the sequences of [debut, fin, type] that analysis may find

\* What the rules and NER find in a text: a span of it that is not blank; no end of it is,
\* except in a text of OCR, where spans come back from the repaired text (rules.py,
\* _appliquer and detecter; ner.py, recadrer and detecter_adresses).  The Presidio adapter,
\* a reference for comparison, narrows nothing and is left out.
Trouvable(x, e) ==
  LET texte == x.texte.texte
      pleins == {p \in (e.debut + 1)..e.fin : texte[p] \notin Blancs}
  IN /\ e.debut < e.fin /\ e.fin <= Len(texte)
     /\ pleins # {}
     /\ x.methode # "ocr" => {e.debut + 1, e.fin} \subseteq pleins

\* The documents are possible; the analysis returns a list of spans of their text.
ASSUME DetectionsPossibles ==
  \A c \in Charges, r \in Requetes : \A d \in Demandables(c, r) :
    LET x == extraire(d)
    IN /\ DocumentPossible(d)
       /\ \A detections \in Detections(d, x.texte.texte) :
            /\ detections \in Seq([debut : Nat, fin : Nat, type : STRING])
            /\ \A k \in DOMAIN detections : Trouvable(x, detections[k])

VARIABLES
  charge,            \* what is asked in this behaviour
  cle,               \* AES_KEY
  pseudonymes,       \* the table pseudonyme
  requetes           \* requetes[r]: what request r is doing

vars == <<charge, cle, pseudonymes, requetes>>

Actions == {"masque", "pseudonymise"}

Repos == [etape |-> "repos"]

Init ==
  /\ charge \in Charges /\ cle \in Cles
  /\ pseudonymes = {}
  /\ requetes = [r \in Requetes |-> Repos]

Avancer(r, requete) == requetes' = [requetes EXCEPT ![r] = requete]

\* remplacer
Remplacement(action, e) ==
  IF action = "masque" THEN masquer_valeur(e.valeur, e.type) ELSE jeton(e.valeur, e.type)

\* What replaces the entities of a DOCX, by their place in es.
RemplacementDe(action, es) ==
  [i \in DOMAIN es |-> Remplacement(action, es[i])]

\* The correspondences, one per token, in the order remplacer was called.
Correspondances(action, es, remplaces) ==
  LET jetons == [k \in DOMAIN remplaces |-> jeton(es[remplaces[k]].valeur, es[remplaces[k]].type)]
      nouveaux == EnOrdre(Len(remplaces), {k \in DOMAIN remplaces :
                            \A j \in 1..(k - 1) : jetons[j] # jetons[k]})
  IN IF action = "masque" THEN <<>>
     ELSE [n \in DOMAIN nouveaux |->
            correspondance(es[remplaces[nouveaux[n]]].valeur,
                           es[remplaces[nouveaux[n]]].type, cle)]

\* The entities of the analysis at the threshold or above, in their order.
AProteger(x, detections, seuil) ==
  LET entites == [i \in DOMAIN detections |->
                   [debut |-> detections[i].debut, fin |-> detections[i].fin,
                    type |-> detections[i].type,
                    valeur |-> Tranche(x.texte.texte, detections[i].debut, detections[i].fin)]]
      gardees == EnOrdre(Len(entites), {i \in DOMAIN entites :
                           entites[i] \in filtrer_par_seuil(Range(entites), seuil)})
  IN [k \in DOMAIN gardees |-> entites[gardees[k]]]

-----------------------------------------------------------------------------

\* The engine raises on a PDF that PyMuPDF does not open: 502.
Ouvrable(d) == deviner_type(d) = "pdf" => "pymupdf" \in d.lecteurs

\* proteger of the engine: the document is analysed again, then protected.  liens: the
\* tokens the gateway has left to keep.
Proteger(r) ==
  /\ requetes[r].etape = "repos"
  /\ \E d \in Demandables(charge, r), action \in Actions, seuil \in {"moyen", "critique"} :
       LET x == extraire(d)
       IN /\ x.methode # "erreur"
          /\ \E detections \in Detections(d, x.texte.texte) :
               LET es == AProteger(x, detections, seuil)
                   remplacements == RemplacementDe(action, es)
                   rendu == appliquer(d, x, es, remplacements)
               IN /\ es = <<>> \/ Ouvrable(d)
                  /\ Avancer(r, [etape |-> "enregistre", document |-> d, extrait |-> x,
                                 entites |-> es, action |-> action, rendu |-> rendu,
                                 liens |-> Correspondances(action, es, rendu.remplaces),
                                 vue |-> {}, cause |-> "aucune"])
  /\ UNCHANGED <<charge, cle, pseudonymes>>

\* Mutant: no index refuses the row.
InsererSansIndex(r) ==
  /\ requetes[r].etape = "insere"
  /\ Avancer(r, [requetes[r] EXCEPT !.etape = "enregistre", !.liens = Tail(@)])
  /\ pseudonymes' = pseudonymes \union {Rangee(Head(requetes[r].liens))}
  /\ UNCHANGED <<charge, cle>>

\* The next correspondence.  One without an encrypted value is not kept; one whose
\* fingerprint the table has is passed.  vue: the table the statement has looked at.
Enregistrer(r) ==
  LET lien == Head(requetes[r].liens)
  IN /\ requetes[r].etape = "enregistre" /\ requetes[r].liens # <<>>
     /\ IF lien.chiffree /\ ~Connue(pseudonymes, lien)
        THEN Avancer(r, [requetes[r] EXCEPT !.etape = "insere", !.vue = pseudonymes])
        ELSE Avancer(r, [requetes[r] EXCEPT !.liens = Tail(@)])
     /\ UNCHANGED <<charge, cle, pseudonymes>>

\* The request ends in an error, at the correspondence it could not keep; what was
\* inserted before stays.
Echouer(r, cause) == Avancer(r, [requetes[r] EXCEPT !.etape = "erreur", !.cause = cause])

\* The insertion, other requests having inserted in between.  The violation of the
\* uniqueness of jeton is not an engine failure: it is thrown again.
Inserer(r) ==
  LET lien == Head(requetes[r].liens)
  IN /\ requetes[r].etape = "insere"
     /\ \E issue \in Issues(pseudonymes, lien) :
          /\ IF issue = "doublon" THEN Echouer(r, "doublon")
             ELSE Avancer(r, [requetes[r] EXCEPT !.etape = "enregistre", !.liens = Tail(@)])
          /\ pseudonymes' = IF issue = "inseree" THEN pseudonymes \union {Rangee(lien)}
                            ELSE pseudonymes
     /\ UNCHANGED <<charge, cle>>

\* The query fails otherwise (the base, the connection): it has had no effect, or its
\* answer is lost.
RequeteEchoue(r) ==
  LET lien == Head(requetes[r].liens)
  IN /\ requetes[r].etape \in {"enregistre", "insere"}
     /\ requetes[r].liens # <<>> /\ lien.chiffree
     /\ Echouer(r, "panne")
     /\ \/ UNCHANGED pseudonymes
        \/ /\ requetes[r].etape = "insere" /\ "inseree" \in Issues(pseudonymes, lien)
           /\ pseudonymes' = pseudonymes \union {Rangee(lien)}
     /\ UNCHANGED <<charge, cle>>

\* Mutant: the content leaves while its tokens are still being kept.
ServirSansAttendre(r) ==
  /\ requetes[r].etape = "enregistre"
  /\ Avancer(r, [requetes[r] EXCEPT !.etape = "servi", !.liens = <<>>])
  /\ UNCHANGED <<charge, cle, pseudonymes>>

\* Every token is kept: the content leaves, whatever the count says.
Servir(r) ==
  /\ requetes[r].etape = "enregistre" /\ requetes[r].liens = <<>>
  /\ Avancer(r, [requetes[r] EXCEPT !.etape = "servi"])
  /\ UNCHANGED <<charge, cle, pseudonymes>>

\* No more requests come.
Termine ==
  (\A r \in Requetes : requetes[r].etape \in {"repos", "servi", "erreur"}) /\ UNCHANGED vars

Next ==
  \/ Termine
  \/ \E r \in Requetes :
       Proteger(r) \/ Enregistrer(r) \/ Inserer(r) \/ RequeteEchoue(r) \/ Servir(r)

Spec == Init /\ [][Next]_vars

-----------------------------------------------------------------------------
(* Properties *)

Servie(r) == requetes[r].etape = "servi"

\* Type correctness: a finished request has no token left, and no row of the table has
\* the fingerprint or the token of another.
TypeOK ==
  /\ cle \in Cles
  /\ \A r \in Requetes :
       /\ requetes[r].etape \in {"repos", "enregistre", "insere", "servi", "erreur"}
       /\ Servie(r) => requetes[r].liens = <<>>
  /\ \A a, b \in pseudonymes : a.empreinte = b.empreinte \/ a.jeton = b.jeton => a = b

\* A word of a scan can be read: it is not covered, and what it displays of the text
\* layer is still there.
MotVisible(d, rendu, k, m) ==
  /\ m \in rendu.mots[k]
  /\ d.scans[k][m].couche = {} \/ d.scans[k][m].couche \intersect rendu.pages[k] # {}

\* The characters of the source an entity was found in.
SourceDe(x, e) == SubSeq(x.brut, SpanDe(x, e)[1] + 1, SpanDe(x, e)[2])

\* The pieces the ends of paragraphs cut s into.
LignesDe(s) ==
  LET coupes == {0, Len(s) + 1} \union {k \in DOMAIN s : s[k] = "lf"}
      lignes == {c \in coupes \X coupes :
                   c[1] + 1 < c[2] /\ \A k \in (c[1] + 1)..(c[2] - 1) : k \notin coupes}
  IN {SubSeq(s, c[1] + 1, c[2] - 1) : c \in lignes}

\* An entity can still be read, as a whole or in part, where it was found; in a DOCX, a
\* piece of its source is, whole, in some paragraph.
Lisible(q, x, i) ==
  LET d == q.document
      e == q.entites[i]
      src == SpanDe(x, e)
  IN CASE deviner_type(d) = "texte" -> \E p \in src[1]..(src[2] - 1) : p \in Range(q.rendu.texte)
       [] deviner_type(d) = "docx" ->
            \E k \in DOMAIN d.couches : \E m \in LignesDe(SourceDe(x, e)) :
              Contient(q.rendu.paragraphes[k], m)
       [] x.methode = "pdf" ->
            \E p \in (src[1] + 1)..src[2] :
              LET k == page_de(x.pages, e.debut)
                  local == p - BornesSource(x.pagesBrutes)[k].debut
              IN /\ x.brut[p] \notin Blancs
                 /\ local \in q.rendu.pages[k]
       [] OTHER ->
            \E b \in BoitesDe(x, e) :
              MotVisible(d, q.rendu, x.boites[b].page, x.boites[b].mot)

\* What the code does not protect, format by format; the rest must be unreadable.
Disjointes(x, es) ==
  \A i, j \in DOMAIN es : i # j => SpanDe(x, es[i])[2] <= SpanDe(x, es[j])[1]
                                  \/ SpanDe(x, es[j])[2] <= SpanDe(x, es[i])[1]

\* The value is what its place in the source normalises to: neither end is in a ligature.
Alignee(x, e) ==
  SpanDe(x, e)[1] < SpanDe(x, e)[2] /\ normaliser(SourceDe(x, e)).texte = e.valeur

\* What is written in the place of the entities.
Signes(es) == {PUCE} \union UNION {Range(jeton(es[i].valeur, es[i].type)) : i \in DOMAIN es}

\* The value ends with a letter or a digit, which its mask never does, and has nothing of
\* what is written in the place of another.
Marquante(v, es) == v[Len(v)] \in Alphanumeriques /\ Range(v) \intersect Signes(es) = {}

\* A text or a PDF: an entity that begins or ends inside a ligature.
\* A text: entities that overlap.
\* A PDF: an entity across two pages, or whose value is not what search_for compares of its
\*   source (accents, quotes, dashes, marks, ligatures it does not decompose); a scan whose
\*   text layer also has the value, or whose pages were straightened.
\* A DOCX: hyperlinks, a value that is not its source as it is (blanks, ligatures, accents,
\*   quotes), that spans paragraphs or is inside another, one that does not end with a
\*   letter or a digit, or that has something of a replacement.
\* An image: one OpenCV does not decode or encode, or that was straightened.
Protegeable(d, x, es) ==
  CASE deviner_type(d) = "texte" ->
         Disjointes(x, es) /\ \A i \in DOMAIN es : Alignee(x, es[i])
    [] deviner_type(d) = "docx" ->
         /\ \A k \in DOMAIN d.couches : d.liens[k] = 0
         /\ \A i \in DOMAIN es : LET v == Depouille(es[i].valeur)
                                 IN /\ SourceDe(x, es[i]) = v /\ "lf" \notin Range(v)
                                    /\ Marquante(v, es)
         /\ \A i, j \in DOMAIN es : LET v == Depouille(es[i].valeur)
                                        w == Depouille(es[j].valeur)
                                    IN v # w => ~Contient(v, w)
    [] x.methode = "pdf" ->
         \A i \in DOMAIN es :
           /\ Alignee(x, es[i])
           /\ Replier(SourceDe(x, es[i])) = Replier(es[i].valeur)
           /\ page_de(x.pages, es[i].debut) = page_de(x.pages, es[i].fin - 1)
    [] OTHER ->
         /\ \A k \in DOMAIN d.scans : ~redressee(d.angles[k])
         /\ deviner_type(d) = "image" => d.decodable
         /\ deviner_type(d) = "pdf" => \A i \in DOMAIN es, k \in DOMAIN d.couches :
              Occurrences(Depouille(es[i].valeur), d.couches[k]) = {}

\* Substitution by offsets moves nothing: a served text is its source, character by
\* character, with one replacement at the place of each entity replaced; an entity is
\* left only when it overlaps one that is replaced, or when its span in the source is
\* empty; the number returned is the number replaced.
TexteSubstitue ==
  \A r \in Requetes : Servie(r) /\ deviner_type(requetes[r].document) = "texte" =>
    LET q == requetes[r]
        x == q.extrait
        src(i) == SpanDe(x, q.entites[i])
        faites == Range(q.rendu.remplaces)
        attendu == FlattenSeq([p \in 1..(Len(x.brut) + 1) |->
                     SetToSeq({-i : i \in {j \in faites : src(j)[1] = p - 1}})
                       \o (IF p > Len(x.brut) \/ \E i \in faites : src(i)[1] < p /\ p <= src(i)[2]
                           THEN <<>> ELSE <<p - 1>>)])
    IN /\ q.rendu.texte = attendu
       /\ q.rendu.nombre = Cardinality(faites)
       /\ \A i \in DOMAIN q.entites :
            i \in faites \/ src(i)[1] = src(i)[2]
              \/ \E j \in faites : src(i)[1] < src(j)[2] /\ src(j)[1] < src(i)[2]

\* None of the values at the threshold or above that the analysis found can be read any
\* more, outside the cases Protegeable leaves out: whatever the order, the page and the way
\* it was read, where it was found (a text, a PDF, an image), and however many times it is
\* there and whatever the substitutions before it have left, anywhere (a DOCX).
RienDeLisible ==
  \A r \in Requetes : Servie(r) =>
    LET q == requetes[r]
    IN Protegeable(q.document, q.extrait, q.entites) =>
         \A i \in DOMAIN q.entites : ~Lisible(q, q.extrait, i)

\* A request has put the token of lien in the place of its value.
APseudonymise(q, lien) ==
  /\ q.etape # "repos" /\ q.action = "pseudonymise"
  /\ \E k \in Range(q.rendu.remplaces) :
       LET e == q.entites[k]
       IN lien.empreinte = empreinte(e.valeur) /\ lien.jeton = jeton(e.valeur, e.type)

\* A value that was kept before never makes a request end on a duplicate, served again or
\* not: the token it could not keep is the one of another value, or another request for
\* the same value has inserted it since the statement looked for it.
EchecParCollision ==
  \A r \in Requetes : requetes[r].etape = "erreur" /\ requetes[r].cause = "doublon" =>
    LET lien == Head(requetes[r].liens)
    IN \/ \E rangee \in pseudonymes :
            rangee.jeton = lien.jeton /\ rangee.empreinte # lien.empreinte
       \/ /\ Rangee(lien) \in pseudonymes \ requetes[r].vue
          /\ \E s \in Requetes \ {r} : APseudonymise(requetes[s], lien)

\* "réversible via la table pseudonyme" (README.md:278-279), as far as it goes: with a
\* key, the token of every value of a served document is in the table with that value,
\* unless the value is there under the token of another type or another value of the same
\* document has the same token.
JetonsResolus ==
  \A r \in Requetes : Servie(r) /\ requetes[r].action = "pseudonymise" /\ cle = "valide" =>
    LET q == requetes[r]
        lien(k) == Rangee(correspondance(q.entites[k].valeur, q.entites[k].type, cle))
    IN \A k \in Range(q.rendu.remplaces) :
         \/ lien(k) \in pseudonymes
         \/ \E rangee \in pseudonymes :
              rangee.empreinte = lien(k).empreinte /\ rangee.jeton # lien(k).jeton
         \/ \E j \in Range(q.rendu.remplaces) :
              lien(j).jeton = lien(k).jeton /\ lien(j).empreinte # lien(k).empreinte

\* "Refus par défaut : sans protection applicable, on ne rend rien"
\* (gateway/src/documents/documents.service.ts:314): a document with values to protect is
\* not served when none could be protected.
RefusParDefaut ==
  \A r \in Requetes : Servie(r) /\ requetes[r].entites # <<>> => requetes[r].rendu.nombre > 0
=============================================================================
