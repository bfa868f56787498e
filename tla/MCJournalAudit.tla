----------------------------- MODULE MCJournalAudit ----------------------------
(* Symmetry for the runs of JournalAudit: requests are interchangeable.    *)
EXTENDS JournalAudit, TLC

Symetrie == Permutations(Appelants)

================================================================================
