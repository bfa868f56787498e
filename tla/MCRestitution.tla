----------------------------- MODULE MCRestitution -----------------------------
(* The roles, levels and matrix of db/migrations/002_seed_roles.sql, and   *)
(* the contents one file goes through.                                     *)
EXTENDS Restitution, TLC

MCNiveaux == {"faible", "moyen", "eleve", "critique"}
MCRang == [n \in MCNiveaux |->
             CASE n = "faible" -> 0 [] n = "moyen" -> 1
               [] n = "eleve" -> 2 [] n = "critique" -> 3]

LigneMatrice(role, faible, moyen, eleve, critique) ==
  [c \in {role} \X MCNiveaux |->
     CASE c[2] = "faible" -> faible [] c[2] = "moyen" -> moyen
       [] c[2] = "eleve" -> eleve [] c[2] = "critique" -> critique]

MCMatrice ==
     LigneMatrice("support_n1", "complet", "masque", "refus", "refus")
  @@ LigneMatrice("support_n2", "complet", "complet", "masque", "refus")
  @@ LigneMatrice("operations", "complet", "complet", "pseudonymise", "refus")
  @@ LigneMatrice("conformite", "complet", "complet", "complet", "complet")
  @@ LigneMatrice("service_partenaire", "complet", "masque", "refus", "refus")
  @@ LigneMatrice("admin_systeme", "refus", "refus", "refus", "refus")

MCRoles == {c[1] : c \in DOMAIN MCMatrice}

(* A file that names people, then a scan in which nothing is found, then a *)
(* file with contact details.                                              *)
ContenusVaries == <<{"faible", "moyen"}, {}, {"faible", "moyen", "eleve"}>>

ContenuUnique == <<{"faible", "eleve"}>>

================================================================================
