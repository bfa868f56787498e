------------------------------- MODULE CycleDeVie ------------------------------
(***************************************************************************)
(* What the catalogue promises the rest of the gateway about a document,   *)
(* with no scan, queue or worker in sight.  The restitution point reads    *)
(* "statut" and "niveau_max" and nothing else, so this is the whole        *)
(* contract between the orchestrator and the gateway:                      *)
(*   - a document enters as 'decouvert' and comes back there each time its *)
(*     content changes;                                                    *)
(*   - it becomes 'analyse' only out of 'decouvert' or 'en_analyse': no    *)
(*     analysis stores its results without having withdrawn the document   *)
(*     from restitution first;                                             *)
(*   - it may fall from any status to 'echec', and its results stay; even  *)
(*     from 'analyse', when the results were committed and the analysis    *)
(*     never learnt it;                                                    *)
(*   - the content its entities describe never gets older.                 *)
(***************************************************************************)
EXTENDS Naturals

CONSTANTS Documents,
          Versions    (* the contents a document can have, in order        *)

VARIABLES
  statut,    (* statut_doc, or "absent"                                    *)
  resultat   (* version the entities describe, 0 before any                *)

cvars == <<statut, resultat>>

Init ==
  /\ statut = [d \in Documents |-> "absent"]
  /\ resultat = [d \in Documents |-> 0]

Decouvrir(d) ==
  /\ statut' = [statut EXCEPT ![d] = "decouvert"]
  /\ UNCHANGED resultat

Entamer(d) ==
  /\ statut[d] # "absent"
  /\ statut' = [statut EXCEPT ![d] = "en_analyse"]
  /\ UNCHANGED resultat

EnCours(d) == statut[d] \in {"decouvert", "en_analyse"}

Classer(d) ==
  /\ EnCours(d)
  /\ statut' = [statut EXCEPT ![d] = "analyse"]
  /\ \E v \in Versions : v >= resultat[d] /\ resultat' = [resultat EXCEPT ![d] = v]

Renoncer(d) ==
  /\ statut[d] # "absent"
  /\ statut' = [statut EXCEPT ![d] = "echec"]
  /\ UNCHANGED resultat

Next == \E d \in Documents :
          Decouvrir(d) \/ Entamer(d) \/ Classer(d) \/ Renoncer(d)

Spec == Init /\ [][Next]_cvars

================================================================================
