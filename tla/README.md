# Verification of the zero-trust document access gateway

The gateway puts a policy enforcement point between users and documents that
stay in their file stores. An orchestrator lists the stores, an AI engine finds
the personal data in each file and gives it a level, and a request for a
document is answered in full, masked, pseudonymised or refused according to a
matrix *role x level*. Every answer is written to a chained audit journal.

This directory holds TLA+ modules that model the gateway, where steps of several
actors interleave, fail and are retried, and the AI engine, whose algorithms decide
what is found in a document and what is left readable in it; the TLC
configurations that check them on small instances; and proofs, checked by
TLAPS, that hold for every value of the constants.

    tlc -workers 2 -config orch_un.cfg MCOrchestration     # one run
    tlapm Orchestration_proofs.tla                         # the proofs

## 1. Inventory

| Part | State it keeps | Operations | Interacts with | What is hard |
|---|---|---|---|---|
| **Scans and analyses** (`gateway/src/scheduler/scan.service.ts`, `scan.processor.ts`, `queue.ts`) | jobs `scan-<source>`, `analyse-<document>` in Redis; locals of the handlers | `planifierScan`, `planifierAnalyses`, `traiterScan`, `scanner`, `replanifierEnAttente`, `traiterAnalyse` | catalogue, connectors, AI engine, BullMQ, journal | scan against running analyses, job identity, retries at two levels, crash between two awaits |
| **Cron planning** (`scheduler.service.ts`) | map of cron tasks | `recharger` every minute | catalogue, queue | a changed expression, an error in the timer |
| **Catalogue** (`catalog/catalog.service.ts`, `db/migrations/001_init.sql`) | tables `source`, `document`, `entite_detectee`, `pseudonyme`, `scan_execution` | `upsertDocument`, `marquerStatut`, `enregistrerEntites`, `enregistrerPseudonyme`, listings | everything | statements of several handlers on one row |
| **Audit journal** (`audit/audit.service.ts`) | table `journal_audit` | `append`, `verifyChain`, `rechercher` | PEP, scans, auth | concurrent appends, serialization failures, reading while writing, alterations |
| **PEP** (`documents/documents.service.ts`, `documents.controller.ts`) | locals of one request | `restituer`, `metadonnees` | catalogue, PDP, connectors, AI engine, journal | the row, the bytes and the matrix are read at different times; errors between the decision and the entry |
| **PDP** (`policy/policy.service.ts`, `policy.repository.ts`) | matrix in memory, retry interval | `onModuleInit`, `programmerReprise`, `recharger`, `decide` | database | start before the database, swap under requests |
| **Authentication and guards** (`auth/`) | signed tokens, accounts | `connecter`, `rafraichir`, `JwtAuthGuard`, `RolesGuard` | journal, account tables | a role that outlives its change, 401 outside the journal |
| **Connectors** (`connectors/`) | none | `lister`, `lire` | file stores | files that change between listing and reading |
| **AI client** (`ai/ai.client.ts`) | none | `analyser`, `proteger` with a timeout | engine | late answers |
| **Sources controller** (`sources/`) | none | create a source, scan on demand | catalogue, queue | - |
| **Statistics, health** | none | read-only queries | database | - |
| **Migrations** (`db/migrate.ts`, `db/migrations/`) | `schema_migrations` | one transaction per file | database | concurrent runs, state between two files |
| **Engine: pipeline, fusion, classification** (`ai-engine/app/main.py`, `pipeline.py`, `detection/merge.py`, `classification/`) | none | `analyser`, `fusionner`, `classer`, `niveau_maximum`, `filtrer_par_seuil` | detectors, protection | ties, overlaps of more than two, a threshold read on two sides |
| **Engine: detection** (`detection/`) | lazily loaded model, its lock | rules and validators, `obtenir_moteur`, windows, OCR repair | libraries | offsets at window borders, first concurrent calls, misread characters |
| **Engine: extraction** (`extraction/`) | none | `extraire`, `normaliser`, `depuis_texte`, `reprojeter_boites` | libraries | the table of offsets through blanks, accents, ligatures and pages; boxes |
| **Engine: protection** (`protection/`) | none | `appliquer`, `masquer_valeur`, `jeton`, `correspondance` | libraries; the gateway's table `pseudonyme` | overlapping entities, collisions of tokens, order of substitutions, values that cannot be located |
| **Dashboard**, **corpus and evaluation** | - | user interface; offline measures | gateway API; engine | not part of the service |

What makes each part correct:

- *scans and analyses*: every catalogued document ends analysed or given up;
  a document is served only under a level and entities of one content; a new
  analysis first withdraws it; a given-up document stays so until its content
  changes; a file modified during its analysis is analysed again;
- *journal*: one chain however many writers; no entry twice, none lost once
  acknowledged; `verifyChain` never cries wolf and its "intact" means something;
- *PEP and PDP*: nothing readable that the matrix does not give; exactly one
  entry per answer; the matrix is loaded in the end; default is refusal;
- *tokens*: a role is honoured no longer than stated;
- *engine, detection*: one engine however many threads; a name is seen whole; a
  misread checksum is still found, and lowers nothing; the fusion is the arbitration
  its header defines;
- *engine, extraction*: offsets, pages and boxes name what they stand for, through
  normalisation and repair;
- *engine, protection*: nothing at or above the threshold stays readable; a token leads
  back to its value; a document nothing could be protected in is not served.

## 2. Modules

    CycleDeVie  <-- implemented by --  Orchestration  -- EXTENDS -->  Catalogue, FileTaches
        | (the contract the gateway sees)      ^
        v                                      |
    Restitution -- EXTENDS --> Politique, Catalogue      MCOrchestration, Orchestration_proofs
        ^
    MCRestitution, Restitution_proofs     JournalAudit <-- MCJournalAudit, JournalAudit_proofs

    Validateurs <- Regles <- Analyse -> Fusion, Sensibilite      MCAnalyse, Analyse_proofs
    Normalisation <- Reparation, Extraction <- Lecture           MCLecture, Lecture_proofs
    Segments <- MoteurNER                                        MCMoteurNER, MoteurNER_proofs
    Extraction, Redressement <- Masquage <- Protection -> Pseudonymes, Sensibilite   MCProtection, Protection_proofs
    Suites <- Normalisation, Reparation, Masquage, Protection
    Extraction_proofs (lemmas about what the extractors return) <- Lecture_proofs, Protection_proofs

| Module | Models | State | Actions |
|---|---|---|---|
| `Catalogue` | a row of `document` and what `upsertDocument`, `marquerStatut`, `enregistrerEntites` do to it | - (operators on a row) | - |
| `FileTaches` | one BullMQ job: identity, attempts, delay, stalled check | - (operators on a job) | - |
| `Orchestration` | `traiterScan`/`scanner`/`replanifierEnAttente` and `traiterAnalyse`, one action per await | `fichiers`, `catalogue`, `decouverte`, `taches`, `executions`, `tacheScan`, `scan` | section 2.1 |
| `CycleDeVie` | what the catalogue promises about a document, without queue or worker | `statut`, `resultat` | `Decouvrir`, `Entamer`, `Classer`, `Renoncer` |
| `JournalAudit` | `append` and its transaction, `verifyChain` in batches, alterations by the owner of the table | `journal`, `sequence`, `ecritures`, `verif` (+ histories `acquittes`, `origines`) | section 2.2 |
| `Politique` | start-up, retry and swap of the matrix; `decide` | `base`, `matrice`, `demarree`, `reprise`, `reponses` | one per query and per answer |
| `Restitution` | `restituer` and `metadonnees` over a document that changes | `fichier`, `ligne`, `requetes` (+ history `traces`) | section 2.3 |
| `Sensibilite` | levels, grid, contextual adjustment, `niveau_maximum`, threshold filter | - (operators) | - |
| `Validateurs`, `Regles` | every validator, on digits and letters; what becomes of a match, on native and OCR text | - (operators) | - |
| `Fusion` | `dedupliquer`; the loop of `fusionner` | `candidats`, `methodes`, `restants`, `retenues` | `Arbitrer`, one candidate |
| `Analyse` | `pipeline.analyser` from the findings to the level | `texte`, `etape`, `niveau` | `Detecter`, `Fusionner`, `Classer` |
| `Normalisation`, `Reparation` | `normaliser` and its table, pages, boxes; the two repairs of OCR text | - (operators) | - |
| `Extraction`, `Redressement` | the router and each extractor; the decision to straighten a page | - (operators) | - |
| `Lecture` | the text, table, pages and boxes of one document, then its repair | `document`, `etape`, `resultat`, `repare` | `Extraire`, `Reparer` |
| `Segments`, `MoteurNER` | the windows of `segmenter`, `recadrer`; `obtenir_moteur` under threads, `detecter` of each engine | `backend`, `accepte`, `moteur`, `verrou`, `appels` (+ history `constructions`) | section 2.5 |
| `Masquage`, `Pseudonymes` | `mask.py` for text, PDF, DOCX, image; tokens, correspondences and their table | - (operators) | - |
| `Protection` | `POST /proteger` and the registration of the pseudonyms by the gateway, requests together | `charge`, `cle`, `pseudonymes`, `requetes` | `Proteger`, `Enregistrer`, `Inserer`, `RequeteEchoue`, `Servir` |
| `Suites` | `EnOrdre`: what a loop over a list keeps, in order | - (operator) | - |
| `MC*` | constants and symmetry for TLC | | |
| `Extraction_proofs` | lemmas about `normaliser`, the extractors, pages and boxes, for the two modules that need them | | |
| `*_proofs` | theorems about `Orchestration`, `JournalAudit`, `Restitution`, `MoteurNER`, `Analyse`, `Lecture`, `Protection` | | |

Names are those of the source, in French, so that a definition can be found
with a search. Operators whose comment begins with "Mutant" are faulty variants
of the definition that follows them; they belong to no specification and serve
to show that a property can fail.

### 2.1 Orchestration

A handler is a record: the point it has reached and the locals that outlive an
await. Every database, queue, store or engine call is one action, so a scan, the
analyses and the users who rewrite files interleave at every `await`; both
outcomes of a call are actions (`InscrireRessource` / `InscriptionEchoue`,
`EnregistrerEntites` / `EnregistrementEchoue`...), and `ArretBrutal` kills the
process between any two. A call that throws may also have had its whole effect, only
the answer being lost: `InscriptionSansReponse`, `MettreEnFileLotSansReponse`,
`MarquageSansReponse` and `EnregistrementSansReponse` are those outcomes. The last one
matters most: the COMMIT of `enregistrerEntites` took effect, the row is 'analyse' with
its level and its entities, and the handler is in its `catch`, about to mark the document
'echec' and to have its job retried. Where the handler goes on the same way whether the call
had its effect or not (`Relancer`, `MettreEnFileReste`, `MarquerEchec`), a lost answer is the
successful step followed by the next failure and has no action of its own. A COMMIT that is
still running when its client gives up cannot land after the `catch`: `marquerStatut`
waits for the lock of the row.

A content is a version number: two versions have
different fingerprints, and the level and the entities of a row are named by the
version they were computed from - this is what lets a property say that a
classification belongs to another content than the fingerprint does. A document in which
nothing was found has a NULL `niveau_max` in the database; its row here has the version
all the same, and no property depends on the difference.

Reading the bytes and the engine's answer are one step (`LireEtAnalyser`):
between the two, `traiterAnalyse` neither reads nor writes anything shared.

### 2.2 JournalAudit

SHA-256 is taken to be free of collisions, so a fingerprint *is* the sequence of
contents it was computed from. A content is the seven columns the fingerprint
covers; `annexe` stands for the three it does not. A SERIALIZABLE transaction
sees what was committed before its first query and cannot commit once an append
it did not see has committed; a spurious 40001 is allowed whenever two
transactions overlap. The wait before a replay changes nothing and is left out.
The owner of the table may rewrite a content or an annex column, copy a
fingerprint over another, remove a row or truncate. It does not recompute
fingerprints: the chain has no key, so a full recomputation is invisible to any
verification and nothing is claimed about it.

### 2.3 Restitution and Politique

`Restitution` reduces the orchestrator to the contract of `CycleDeVie` (which
`Orchestration` is shown to implement), and `append` to its outcome, an entry or
an error (`JournalAudit` studies it from the inside). The levels of a content
are a set (`NiveauxDe`), an answer is the set of levels left readable in it, and
the engine is taken to protect everything `filtrer_par_seuil` hands it: `Protection`
says how far that goes.

### 2.4 The engine: texts and documents as data

The regular expressions and the statistical models are inputs. In `Analyse` a text *is*
what they find in it: matches of the rules (each with the value its validator reads, as
digits and letters), matches in the repaired text, entities of the model. The loop of
`fusionner` is one action per candidate; where Python's sort leaves candidates of
equal priority in the order of their place, the model takes any of them, so a result
that depended on it would show. In `Lecture` a text is a sequence of characters of the
kinds `normaliser` tells apart (a letter, a letter and its combining accent, a
ligature, a typographic quote or dash that becomes a plain one, each kind of blank, the byte order mark, punctuation), a table of offsets is
the sequence the code builds, and a page read by OCR is a sequence of words on lines.
`Masquage` uses the same documents and returns *what can still be read*: the positions
left in each text layer, the words still visible on each scan, the text of each
paragraph. `PyMuPDF`'s search and Python's `str.replace` are external definitions: the search folds
blanks and the ligatures of `Decomposees`, and nothing else of what `normaliser` changes.

### 2.5 MoteurNER

Each step of `obtenir_moteur` - the read outside the lock, the lock, the second read,
the construction, the return - is an action of a thread, and each turn of the loop on
the windows another. The life span builds the engine before the first request, and
applications without it are in the initial states too. A model may find the name of the
text or not when it is not whole in a window, with or without the blanks around it,
and finds it when it is (`Reponses`, external); it may raise.

### 2.6 Protection

A request is analysed and protected by the engine in one action (the engine shares
nothing between requests), then the gateway writes its correspondences one by one: the
requests interleave there. `INSERT ... ON CONFLICT (empreinte_valeur) DO NOTHING` is two
steps, a search for the fingerprint (`Enregistrer`, which remembers in `vue` the table it
saw) and the insertion (`Inserer`): another request may insert in between. ON CONFLICT
arbitrates the index of the fingerprints only, so when the same row has been inserted
meanwhile the statement either finds it again or raises on the index of the tokens
(`Issues`). Any query may also fail for another reason, with or without its effect
(`RequeteEchoue`). The error is thrown again, the request ends (`Echouer`, which notes the
`cause`) and what was inserted before stays. The suffix of a token is a parameter, so that two values may
share one. The entities found are any one or two of the document's text, of every
length, so overlaps, repetitions and entities that end inside a ligature occur.

## 3. Runs

| Run | Instance | Checks | Shows |
|---|---|---|---|
| `orch_un` | 1 document, 3 contents, 3 attempts of the job and 3 of the catalogue (the real limits), 2 incidents, fairness; 429 710 states | `TypeOK`, `ServiEstClasse`, `AbandonDefinitif`, `RespecteCycle`, `Convergence` | what is served has the level and the entities of one analysis, and no other one is reading or about to store its result, even when the answer of a COMMIT is lost; a given-up document stays so; `Orchestration` implements `CycleDeVie`; retries, stalls and replanning together end in a result |
| `orch_convergence` | 2 documents, batches of 2, 2 slots, 1 incident, fairness; 208 186 states | `TacheCataloguee`, `Convergence` | nothing uncatalogued is ever queued; a lost batch, a full worker, a crash: the document is brought back |
| `orch_fige` | 1 document, 2 contents | `AucuneClassificationFigee` **violated** | finding 1 |
| `journal_concurrent` | 3 concurrent appends, 3 attempts each, batches of 1 row; 538 251 states | `TypeOK`, `ChaineUnique`, `SansFausseAlerte`, `UneEntreeParAppel`, `OrdreDesIds` | one chain, in the order of ids, no false alarm while entries are appended, no entry twice |
| `journal_alteration` | 3 concurrent appends, 3 alterations, batches of 2 rows; 1 199 202 states | `VerdictFiable` | after a verdict "intact", one row that still bears the fingerprint its author computed proves the content and the place of every row before it |
| `rest_politique` | 1 request at a time, the seeded matrix (6 roles x 4 levels), 3 contents of which one has no entity; 1 423 806 states | `TypeOK`, `UneTraceParReponse`, `ClairAutorise` | one entry per answer that means to leave one; nothing readable the matrix does not give in full |
| `pol_chargement` | the same system, 1 content, fairness of the retry; 29 793 states | `ChargementFinal` | over a ready database the matrix is loaded in the end |
| `ia_analyse` | texts of 3 characters with up to 3 of 59 findings, and 19 values at the limits of the validators, labels of the model with the scores of spaCy (850) and of CamemBERT (950, 450); 378 792 states | `TypeOK`, `ArbitrageStable`, `JamaisDeRetrait`, `CorroborationFondee`, `ToleranceJamaisMoins`, `OcrRemplacants`, `SommeDetruite`, `SeuilCoherent` | the fusion is the arbitration of its header and withdraws nothing; 'fusion' is a corroboration; the tolerance of OCR text finds every misread number and lowers no level, and at equal width only a validated value, an e-mail address or a label of the model above 0.90 displaces it; level and threshold agree |
| `ia_texte` | every text of at most 4 characters of 11 kinds, PDFs of two pages, scans of up to 4 words, every path of the router; 84 652 states | `TypeOK`, `EmpanFidele`, `PageExacte`, `BoitesExactes`, `ReparationFidele`, `ReparationUtile` | what is found in the working text is brought back to exactly its characters, its page, its words; so is what is found in the repaired text |
| `ia_moteur` | 2 threads, a text of 9 characters with up to two blanks and a name anywhere, windows of 6 that share 2, four values of `NER_BACKEND`, fairness; 236 427 states | `TypeOK`, `UnSeulMoteur`, `EntiteVueEntiere`, `ChaqueAppelFinit` | one engine, no name lost at a border, no call that waits for ever |
| `ia_protection` | every small text, DOCX, PDF and scan, masked or pseudonymised, then 2 requests at once over values that share tokens or types, with and without a key, any insertion failing or losing its answer; 134 514 states | `TypeOK`, `TexteSubstitue`, `RienDeLisible`, `EchecParCollision`, `JetonsResolus` | outside the cases of section 5, nothing at the threshold stays readable; a value already kept never ends a request on a duplicate; tokens lead back to values |
| `ia_clair` | images | `RefusParDefaut` **violated** | finding 2 |

### Bounds, and why they are enough

- `MaxVersions`: a hazard of a stale content needs two contents and a third to
  be overtaken; `orch_un` has three.
- `MaxIncidents`: two, so that a failure can hit the recovery from another one
  (a job found stalled twice is removed).
- `PlafondTentatives`: the counter of failures saturates one above the only value
  it is compared with.
- Two documents are the least that can share a batch, a selection and a
  worker; three writers the least for which a replayed append meets a third one.
- `MaxAlterations`: three, so that two alterations can hide a third.
- One request at a time in `Restitution`: requests share only the matrix, the row
  and the file, which change under the one that is modelled as they would with
  any number of others.
- Three findings are the least for which a candidate conflicts with two retained ones
  that do not conflict with each other; three characters give every relation of two
  spans (apart, touching, overlapping, nested, equal).
- Four characters put a blank, an accent, a ligature or a mark on each side of a
  character; two pages and an empty one, a word on each, give every shift of a box.
- Windows of 6 characters over a text of 9 make two to four windows, with the cut at
  each place a blank allows; two threads are the least that compete for a lock.
- Two entities are the least that overlap, share a token or contain each other; two
  requests the least that register the same value.
- `Decomposees`, the ligatures `search_for` decomposes, is `{"fi"}`: it depends on the flags
  of PyMuPDF, and the proofs hold for any set.
- The limits of the code (`EssaisTache` 3, `maxTentatives` 3) are kept in
  `orch_un`; the batch sizes (200, 1000), the concurrency (4) and the attempts of
  append (5) are lowered so that they are reached.

### Fairness

`Orchestration!Equite`: the cron task keeps firing (`PlanifierScan`), Node runs
every continuation (weak fairness of each handler's next step, success *or*
failure: nothing says that a read or an analysis ever succeeds), and a waiting
job reaches the head of BullMQ's FIFO list, hence strong fairness of the two
actions that compete for a slot. `Politique!EquitePolitique`: the interval keeps
firing, the database answers in the end, each answer is handled.

`MoteurNER!SpecEquitable`: the threads of the server are scheduled, hence weak fairness
of the next step of each call, a model that raises among its outcomes. It is enough
for the lock: once the engine is built nobody asks for it, so a thread waits at most
for as many turns as there are threads.

`Convergence` is checked with a batch as large as the number of documents. With
a smaller one it fails in the model: the selection of `replanifierEnAttente` can
be filled, at every scan, by an older document that is being analysed just then
and is analysed again each time. In the program this needs 200 such documents.

## 4. Proofs

`Orchestration_proofs` proves, for every finite set of documents and every value
of the limits, batch size, concurrency and bounds (assumptions
`ConstantesOrchestration` and `PlafondEntier`):

| Theorem | Establishes |
|---|---|
| `TypeCorrect` | `TypeOK` is an invariant |
| `InvariantInductif` | the inductive invariant below |
| `TacheToujoursCataloguee` | `TacheCataloguee`: the branch of `traiterAnalyse` for an absent document is dead code |
| `ServiToujoursClasse` | `ServiEstClasse` |
| `AbandonToujoursDefinitif` | `AbandonDefinitif` |
| `Raffinement` | `Spec => RespecteCycle`: every step of the orchestrator is a step of `CycleDeVie` or a stutter |

None of the safety properties is inductive alone. The invariant `IInv` adds, for
each document, what the phase of its handler implies:

- `HandlerActif`: a handler runs only while its job is active. A job identifier
  names at most one job, so at most one handler works on a document;
- `StatutDuTravail`: from `marquerStatut('en_analyse')` to the storing of its result, a
  handler faces a row that is 'en_analyse' or has gone back to 'decouvert' - only an
  upsert can touch it meanwhile; nothing is said of its `catch`, which may face its own
  'analyse' after a COMMIT whose answer was lost;
- `VersionsOrdonnees`: the content in hand is no newer than the file and no older
  than the one the stored entities describe;
- `ClasseEntier`: a row that is 'analyse' has a level, from the same content as
  its entities;
- `TacheCataloguee`: whatever is selected, batched or queued has a row.

Each action is checked against the parts it can disturb. `ServiEstClasse` follows
from `ClasseEntier` and `StatutDuTravail`. The refinement uses `StatutDuTravail`
and `VersionsOrdonnees`:
`CycleDeVie!Classer` asks for a row that is 'decouvert' or 'en_analyse' and a content that
is not older, which the invariant says of the phase 'ecriture'. `Renoncer` may start from
any status: after a lost answer a document falls from 'analyse' to 'echec' with its results
in place.

`JournalAudit_proofs` proves, for any set of writers (finite or not), any number of
attempts, calls and alterations and any batch size (assumption
`ConstantesJournal`):

| Theorem | Establishes |
|---|---|
| `TypeCorrect` | `TypeOK`, alterations by the owner included |
| `OrdreDesIdsGaranti` | `OrdreDesIds`, alterations included |
| `InvariantInductif` | the inductive invariant below |
| `ChaineToujoursUnique` | `ChaineUnique` |
| `JamaisDeFausseAlerte` | `SansFausseAlerte` |
| `AppelJamaisDouble` | `UneEntreeParAppel` |
| `VerdictFiableGaranti` | `VerdictFiable`, for any number of alterations |

Its invariant `IInv` is made of `IdReserve` (the id of a row not yet committed is
nobody else's and greater than every id of the snapshot), `BaseLue` (a
transaction chains its row to the greatest row of its snapshot), `ContenuNouveau`
(a request has not yet written its current call), `CurseurExact` (`verifyChain`
stands on a row of the table and carries its fingerprint), and the two
properties `ChaineUnique` and `UneEntreeParAppel` themselves. The core of the
argument is `ValiderAjoute`: a commit is accepted only when the snapshot is the
whole table, so the new row comes after all the others and the row it is
chained to is the last. The table then grows at its end only, which keeps the
cursor of `verifyChain` valid; `LotSansTrou` (a batch has no gap) makes every
link of a batch the link `ChaineUnique` speaks of, so none can fail.

`VerdictFiable` has an invariant of its own, `VInv`: rows appended before the first
alteration form one chain in the history (`ChaineDOrigine`), a row of the table still
has the link it was given (`TableEtOrigine`: the owner does not rewrite that column), and
up to its cursor a verification that no alteration has overtaken has read a chain
(`Parcouru`). A fingerprint contains the contents of everything before it, so two rows
of the history have different ones (`EmpreinteUnique`); from a row that bears its own,
the chain that was read goes back through exactly the rows of the history.

`MoteurNER_proofs` proves, for any set of threads, texts, backends, window and overlap
(assumptions `Decoupage`: an overlap of at most half of what a window moves on by, 64
and 512 in the code; `LibreNEstPasUnFil`; `TextesBienFormes`):

| Theorem | Establishes |
|---|---|
| `Invariance` | the inductive invariant below |
| `TypesCorrects` | `TypeOK`: no entity is empty or out of its text |
| `MoteurUnique` | `UnSeulMoteur` |
| `NomVuEntier` | `EntiteVueEntiere` |
| `MoteurDefinitif` | an engine, once built, never changes: a model that fails to load is replaced by the neutral engine for the life of the process, silently but for one line of log |

`Exclusion` (who is past the lock holds it) and `RienDeConstruit` (a thread about to build
found no engine under the lock) give `MoteurUnique`. `DejaVueOuDevant` is the argument
for the windows: at each turn the name either is among the entities or begins at or
after the next window. A window is cut at a blank, which is not in the name's first or
last place but may be inside it; the next one begins `recul` characters before the
cut, hence at or before the beginning of any name the cut goes through, because
`Coupures` only looks in the second half of the window, at `pas \div 2` or more from its
start. That is where `Decoupage` is needed.

`Analyse_proofs` proves, for any set of texts with any number of findings, any threshold
and any width of the context (assumptions `TextesTypes`, `TrouvaillesFinies`: finitely many
findings, none empty; `FenetreEntiere`):

| Theorem | Establishes |
|---|---|
| `Invariance` | the inductive invariant below |
| `TypesCorrects` | `TypeOK` |
| `ArbitrageEstStable` | `ArbitrageStable`: the loop computes the arbitration of the header of `merge.py`, whatever the order of ties |
| `CorroborationEstFondee` | `CorroborationFondee`: 'fusion' is written only where a rule and the model both saw something |
| `ToleranceNeBaissePas` | `ToleranceJamaisMoins`: keeping what OCR misread never lowers the level |
| `OcrRemplacantsConnus` | `OcrRemplacants`, whatever the model returns: what may displace a number OCR misread. That the model never does is false, section 5 |
| `SommeEstDetruite` | `SommeDetruite`: for every IBAN and card number of any length, one character misread or two neighbouring digits exchanged destroys the checksum (but 0 and 9 on a card) |
| `RienNEstRetire` | `JamaisDeRetrait`: lines 90-96 of `merge.py` are dead code |
| `SeuilEstCoherent` | `SeuilCoherent`: the level of the row and the filter of the engine agree |

Its inductive invariant is the header's definition restricted to the candidates already treated
(`StablePartiel`) and the fact that none of those left is stronger (`Ordre`): a
candidate never meets a weaker retained one, so nothing is withdrawn, and nothing that
comes later can change what was decided.

`SommeDetruite` is arithmetic. Both checksums are recurrences over the characters
(`Recurrence` gives the function that satisfies one). Luhn's: a digit, doubled or not, tells
what it adds, so the sums of the two numbers differ by less than 10 from the place they
differ on; two digits a and b exchanged move the sum by D(a) - a - (D(b) - b), D being the
doubling, which is 0 modulo 10 for 0 and 9 only. The remainder by 97: one more character multiplies
the difference by 10 or 100, which have no factor in common with 97, so a difference once
there stays (`ModuloUnSigne`, `ModuloEchange`). The first four characters are divided last
(`Rotation`): two neighbours are then still neighbours, except the last check digit and the
character after it, which come out at the two ends (`ModuloBouts`); they would make up for
each other only if a power of 10 between the first and the 65th were 1 modulo 97, and the
first that is one is the 96th (`PasDeRetour` lists them).

`CorroborationFondee` needs to know where a method came from: `MethodesFondees` says that
a method other than 'fusion' is the one of a detection of the candidate itself, and so
are both for a candidate not met yet. For `ToleranceJamaisMoins` the arbitrations with
and without the tolerated candidates are compared: the strongest candidate on which they
differ (`PremiereDifference`) is a tolerated one or one that a tolerated one displaced,
and a tolerated one has a type with a checksum, which is critical. It uses that an
arbitration always exists (`ArbitrageExiste`) and is unique, which the loop shows.

`Restitution_proofs` proves, for any requests at once, any contents, roles, levels and
matrix (assumptions `ConstantesRestitution`, finitely many levels; `UnSeulSeuil`: a role
that may read a level in any form reads the lower ones in full, which the seeded matrix
satisfies and TLC evaluates on it):

| Theorem | Establishes |
|---|---|
| `Invariant` | the inductive invariant below |
| `TypesPEP` | `TypeOK` |
| `UneTraceParReponseInvariante` | `UneTraceParReponse`: exactly one entry per answer that means to leave one |
| `ClairAutoriseInvariant` | `ClairAutorise`: nothing readable that the matrix does not give in full |

The document, the file and the matrix change under a handler at every await. `Autorisee`
says what survives: the decision it carries is the one of the seeded matrix for the
level it loaded, because the matrix in memory is either empty or the one of the database
and, where it is full, the database is seeded for good (`MatriceLue`). `EnClair` says
that what is left readable is everything or what is under the threshold sent to the
engine; `UnSeulSeuil` and the highest level of a content (`NiveauLePlusHaut`) then give
`ClairAutorise`. Without `UnSeulSeuil` it is false: one threshold cannot express a role
that may read a level masked and a lower one not at all. The entry is written in the
step that ends the handler (`UneTrace`).

`Protection_proofs` proves, for any documents, any detections, any suffixes (collisions
included) and any number of requests at once (assumption `DetectionsPossibles`: documents
are those of `DocumentPossible` below, and the analysis returns a list of spans of the text
it was given, none blank, and not beginning or ending with a blank unless the text comes
from OCR, where spans come back from the repaired text (`Trouvable`, what the patterns and
`recadrer` give); the Presidio adapter, there for comparison, is the only engine that does
not narrow its spans and is left out):

| Theorem | Establishes |
|---|---|
| `Invariant` | the inductive invariant below |
| `TypesProtection` | `TypeOK`: no two rows share a fingerprint or a token, and a served request has no token left |
| `EchecParCollisionSeule` | `EchecParCollision`: a request ends on a duplicate only when its token is another value's, or another request has inserted the same row since the statement looked for it; failing queries are another cause |
| `JetonsResolusToujours` | `JetonsResolus`: no token is served that was not kept first |
| `TexteSubstitueToujours` | `TexteSubstitue`: a text is substituted in place, and nothing else moves |
| `RienDeLisibleToujours` | `RienDeLisible`: no value stays readable, in the characters of the source, in a text, a DOCX, a PDF, a scan or an image, outside the cases of `Protegeable` |

`Suivi` follows each token from the engine's answer to the table: the token of an entity
that was replaced is the one of an entity whose correspondence is still to be written or
whose value already has a row. Rows are never removed, so another request can only help
(`SuiviReste`); when no correspondence is left, every token has its row. For the duplicates,
`Cherchee` says that a request about to insert had not found its fingerprint in the table
it saw (`vue`), and `Inserante` that a row comes from a request that no longer has its link to
keep, or failed on it. So a row in the way of an insertion (`EnTravers`) is another value's,
or came after the search from another request that had pseudonymised the same value. It rests on
`LiensDesRemplaces` (the first entity of each token has its correspondence) and
`RemplacesValides` (what a format replaced are entities of the list, which for a text asks
that each turn of the loop has its own entity, `TourAUneEntite`: the sort is a bijection).

`TexteSubstitue` compares the result of a loop that cuts the text again at every entity with
one text written in one go. The loop goes from the end to the beginning, so what it has not
reached is still the source: at every turn the text is its source, character by character,
with one piece where each entity done was, which is the expected text restricted to those.
An entity skipped overlaps one that was replaced.

`RienDeLisible` follows from where each format covers what. In an image or a page read by
OCR, the boxes of `BoitesBonnes` are those of whole words, so a box touched by the span of
an entity covers its characters whatever it shares the word with. In the text layer of a
PDF, the redaction searches the value on the page: `page_de` names the page the entity is on
(`PageExacte` again), the span lies inside that page (`BoutDePage`), its characters in the
layer are those of the source, stripped (`EstTranche`). `Protegeable` asks that what
`search_for` compares of the source is what it compares of the value (`Replier`), so the
place of the entity is one of the places the search returns, and all of them are covered. In a text it is `TexteSubstitue`.
In a DOCX no place stands for the value: where the source is written as the value is, it is replaced by its text, value after value, and
whether it has gone depends on what the replacements after it put next to it. Two facts carry
the argument through the loop. A replacement ends with a sign no value has (a mask with the
bullet of the last letter, a token with its suffix), and what it has before its first such
sign is the beginning of the value it replaces, which was there before (`MasqueBon`,
`JetonBon`, `Prolonge`). So a value found after a replacement was already there, at a place
where the value replaced was not (`RemplacerBon`): no value appears, and the one replaced is
gone for good. Both facts ask that a value ends with a letter or a digit, has nothing of what
is written in the place of another and is not inside another: `Protegeable` says so.

`Lecture_proofs` proves, for every document - any text, any number of pages, words and
blanks, any path of the router (assumption `DocumentsPossibles`, which TLC evaluates on the
documents of the run: they are those of `DocumentPossible`, whose layers and words are made
of characters; a text file is one layer and an image one scan; a word `ocr_image_array` keeps is not empty, holds no blank - Tesseract cuts at them and
`ocr.py:201` drops what is blank - and does not begin with a byte order mark):

| Theorem | Establishes |
|---|---|
| `Invariant` | the inductive invariant below |
| `TypesLecture` | `TypeOK`: the table of `normaliser` has one entry more than the text, never decreases and ends with the length of the source |
| `PageExacteToujours` | `PageExacte` |
| `EmpanFideleToujours` | `EmpanFidele` |
| `BoitesExactesToujours` | `BoitesExactes`: what is masked with the box of a word is that word and no other, and every visible character has a box |
| `ReparationFideleToujours` | `ReparationFidele` |
| `ReparationUtileToujours` | `ReparationUtile` |

The invariant says that a result is its raw text normalised, with the bounds of the pages
that make that text up (`ResultatBon`), and that what was repaired is that text; the work
is in the operators. `normaliser` puts end to end what it makes of each run of blanks and
each cluster, and `BoutABout` says where `FlattenSeq` puts each of them: the text and the
table are cut at the same places (`Decoupe`), hence `NormaliserBon`. `premiere_position` is
a recursive function on intervals: any function that satisfies its equation answers right
(`ChercherTrouve`, on the width of the interval), and only one answer is right
(`TrouveUnique`). `EmpanFidele` compares the normalisation of a slice with a slice of the
normalisation: in a window cut where blocks begin, the runs and clusters are those of the
text (`DebutsDeFenetre`) and become the same characters (`BlocDansFenetre`), because a block
never looks outside of itself - a line feed looks at the carriage return before it, in the
same run of blanks. The repair is two passes that keep some positions in order
(`GarderExtrait`, through `EnOrdreBon`), the second one in what the first one left.

`BoitesExactes` has an invariant of its own (`BInv`): a text that comes from OCR is made of
pages of words, and its boxes are those of their words (`BoitesBonnes`). In the text of a
page each word is between two blanks or a limit of the text (`BoitesDePage`), and it is so
in the whole text, where each page is followed by a blank line and its boxes are shifted
by what the pages before it take (`PlaceDePage`, `BoitesDesPages`). A block therefore
begins at both ends of a box, and what `traduire` looks for is in the table
(`BoutsDeBoite`): the box of the working text goes back to exactly the raw one
(`BoiteTraduite`). A word that began with a byte order mark would give an empty block, and
`traduire` would answer with the position after it: this is what `DocumentPossible` excludes.

What stands for induction, which the provers cannot instantiate: a set of numbers has a
least element (`NatMinimal`), so a smallest counterexample is refuted. It gives that a
finite strict order has a first element and that `EnOrdre` is the increasing enumeration
of a set (`EnOrdreBon`), which is all the proofs need of a loop over a list.

Only model-checked: the liveness properties (`Convergence`, `ChargementFinal`,
`ChaqueAppelFinit`), which are out of the prover's reach.
The violated properties are counterexamples and need no proof.

## 5. Findings

1. **A classification can be frozen on an older content**
   (`gateway/src/scheduler/queue.ts:61`). A file is rewritten and scanned while
   its analysis runs. The scan records the new fingerprint and queues
   `analyse-<id>`, which is ignored: the running job still has that identifier.
   The running analysis then stores entities and level of the bytes it had read
   and sets 'analyse'; every later scan finds the fingerprint unchanged. The
   document is served under the level of its previous content until the file
   changes again. (`orch_fige`)
2. **An image nothing could be covered in is served** (`ai-engine/app/protection/mask.py:299`):
   OCR falls back on Pillow when OpenCV does not decode an image, `_appliquer_image`
   does not. Values are found, none is covered, the original bytes are returned with
   0 entities protected, and the gateway serves them. So does `mask.py:322` when the
   image cannot be encoded again. (`ia_clair`)

Established on the models while they were built, and not kept as runs:

3. `replanifierEnAttente` takes a document that is 'en_analyse' whatever its attempts,
   and queues it after an await during which the last attempt may fail and its job
   disappear: `tentatives` reaches 4, where `scan.service.ts:148-149` says three. The
   model saturates one above (`PlafondTentatives`).
4. A truncated journal is intact (`audit.service.ts:206`): `verifyChain` has nothing to
   compare the end of the chain with, where `003_audit_privileges.sql:18-19` says
   "un journal tronque ou altere est DETECTABLE". `VerdictFiable` speaks of the entries read.
   Nor does it say anything of a journal in which no row bears its own fingerprint: with
   four alterations, fingerprints copied from row to row vouch for each other.
5. `niveau_en_cause`, `adresse_ip` and `details` are outside the fingerprint
   (`audit.service.ts:76`): changing them breaks no link. `VerdictFiable` speaks of the
   seven columns that are covered.
6. A tick of the retry of the matrix between the two migrations reads zero row without an
   error, and the interval is cleared (`policy.service.ts:72`): the gateway then refuses
   everything until it is restarted. `ChargementFinal` is about a database that is
   ready at the start.
7. The bytes served are those of now, the level that of the last analysis, and nothing
   compares the two (`documents.service.ts:255`). `ClairAutorise` speaks of the content
   the level was computed from.
8. When the COMMIT of an analysis takes effect and its answer is lost
   (`catalog.service.ts:266-272`), a finished analysis is marked 'echec' with its entities and
   its level in place (`scan.processor.ts:109-113`): it is analysed again, or given up
   although its results are stored. What is served in between is whole (`ServiEstClasse`).
9. Two requests that pseudonymise the same new value at once may end one of them in a 500:
   `ON CONFLICT (empreinte_valeur)` does not arbitrate the index of the tokens
   (`catalog.service.ts:304`).
10. A number OCR misread can give way to a guess of the model. It is kept with a score of
    0.90 (`ai-engine/app/detection/rules.py:161`) so that, at equal width, no label of the
    model replaces it: otherwise the IBAN is "remplacé, donc reclassé de `critique` à
    `faible`" (`rules.py:158-159`). The score beats spaCy's constant 0.85, but the deployment
    ships CamemBERT (`docker-compose.yml:92`, repository `README.md:435`), whose score is a
    probability (`ner.py:211`): above 0.90 the label wins. `OcrRemplacants` names the case;
    without its last alternative TLC finds it violated, by an organisation of score 0.95
    over the span of the IBAN.

What stays readable in a protected document (`Protegeable` in `Protection` lists it; outside
of it `RienDeLisible` holds):

- in a text, an entity that overlaps the one after it in the source, and in a text or a
  PDF the rest of a ligature in the middle of which an entity begins or ends;
- in a PDF, a value that continues on the next page: it is searched on one page only;
- in a native PDF, a value `search_for` does not recognise in its source because `normaliser`
  wrote it otherwise (`mask.py:143`): an accent written as a combining mark, a typographic
  quote or dash, a byte order mark, a ligature PyMuPDF does not decompose (œ, æ);
- in a scanned PDF with a text layer, a value the search finds in that layer: its box in
  the image is then not covered (`mask.py:142-156`);
- in a page OCR has straightened, the boxes are those of the straightened page and are
  drawn on the page as it was (`ocr.py:158-170`, `mask.py:208-219`, `303-317`);
- in a DOCX, what is inside a hyperlink, a value inside another one that is replaced
  first, a value that is not written as its source is (blanks, ligatures, combining accents,
  typographic quotes and dashes: `mask.py:251-252` looks for the normalised value), one that
  spans paragraphs or the cells of a table, one that does not end with a letter
  or a digit (without any, it is its own mask: `mask.py:52-62`), and one that has a sign of a
  replacement, which could make it again.

Nothing compares the number protected with the number to protect. Two values of one
document with the same token leave one row; a value seen under two types keeps its
first token (`JetonsResolus` names both cases).

Read in the code, no run being needed: the answers 401, 500 and the 502 of an engine
that does not answer leave no entry in the journal, although `README.md` says that
every refusal is journalised; a PDF whose OCR fails is 'analyse' without a level
(`pdf.py:106-108`) and answers 423 for ever; the spaCy engine that fell back on the
small model reports the name of the large one (`ner.py:139-144`); a birth year written
27 to 30 is read in the future and rejected (`validators.py:155-156`).

## 6. What is not modelled

- One source. Sources share only the worker's slots and the `LIMIT` of the
  selection.
- The rows of `scan_execution` and the counters of a scan.
- A handler that lives on after its job was declared stalled (its lock lost
  because the event loop was blocked): two handlers could then work on one
  document, and `HandlerActif` is exactly what would fail. Loss of Redis's data.
- A document whose analysis kills the process: crashes are bounded, and such a
  document, which never reaches the `catch`, would be brought back for ever.
- The branches for an absent document or source in `traiterAnalyse`,
  `traiterScan` and `lireOctets`: nothing deletes rows. The first is proved dead.
- Tokens, roles and accounts; the cron map; concurrent migrations.
- The regular expressions, the statistical models, OCR, the pixels of an image and the
  confidences: inputs of the models. What follows from them is modelled.
- An e-mail address with the very span of a number read by OCR would win over it:
  `OcrRemplacants` says so, and no e-mail is written like a number. A year of four digits
  below 100.
- AES: encryption is taken as an injection; SHA-256 as free of collisions, but not the four
  hexadecimal digits kept of it.
- Statistics, health, dashboard: read-only or user interface. `ai-engine/evaluation` and
  `corpus`: scripts that generate documents and measure the engine offline; they take no
  part in the service and decide nothing in it.

## 7. Plan

Done, in the order of importance: `Orchestration` and `JournalAudit` with their proofs,
`Politique` and `Restitution`; then the engine: `Analyse` and `MoteurNER` with their proofs,
`Lecture` and `Protection`.

Then the theorems about `Restitution`, `VerdictFiable`, the tolerance, the corroboration
and the checksums of `Analyse`, `Protection` and `Lecture`. Every safety invariant a run
checks is now a theorem.

Left, modules: `Jetons`, access and refresh tokens against accounts that are deactivated
or change role; `ParcoursSource`, the rows of `scan_execution` and what a crash leaves of
them; `Planification`, the cron map; `Migration`, two concurrent migrators.
