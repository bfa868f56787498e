------------------------------- MODULE FileTaches ------------------------------
(***************************************************************************)
(* One job of the BullMQ queue "ztg", known by its jobId                   *)
(* (gateway/src/scheduler/queue.ts), and what the queue does to it.        *)
(*                                                                         *)
(* BullMQ and Redis are not part of the repository: the operators below    *)
(* model them from the options queue.ts passes and from what its comments  *)
(* rely on.  A job id names at most one job; adding an id that exists is   *)
(* ignored without an error; a job that ends leaves no trace               *)
(* (removeOnComplete, removeOnFail); a job whose worker died is put back   *)
(* once (maxStalledCount = 1) and removed the second time.                 *)
(***************************************************************************)
EXTENDS Naturals

(* essais: attempts that ended in an error; blocages: times found stalled. *)
Tache ==
  [etat     : {"absente", "attente", "active", "differee"},
   essais   : Nat,
   blocages : 0..1]

TacheAbsente == [etat |-> "absente", essais |-> 0, blocages |-> 0]

(* queue.add / queue.addBulk with a jobId.                                 *)
TacheAjoutee(t) ==
  IF t.etat = "absente" THEN [TacheAbsente EXCEPT !.etat = "attente"] ELSE t

(* A free worker slot takes the job.                                       *)
TachePrise(t) == [t EXCEPT !.etat = "active"]

(* The handler threw: retried after a delay while attempts remain.         *)
TacheRejetee(t, essaisMax) ==
  IF t.essais + 1 < essaisMax
    THEN [t EXCEPT !.etat = "differee", !.essais = @ + 1]
    ELSE TacheAbsente

(* The delay of the exponential back-off has elapsed.                      *)
TacheReveillee(t) == [t EXCEPT !.etat = "attente"]

(* Mutant: a queue that never counts how often a job was found stalled out. *)
TacheDebloqueeSansLimite(t) == [t EXCEPT !.etat = "attente", !.blocages = @ + 1]

(* The stalled-job check found an active job without a live worker.        *)
TacheDebloquee(t) ==
  IF t.blocages = 0
    THEN [t EXCEPT !.etat = "attente", !.blocages = 1]
    ELSE TacheAbsente

================================================================================
