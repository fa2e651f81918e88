------------------------------ MODULE MCServices ------------------------------
(***************************************************************************)
(* Two mails and two syncs; two invoices and two calls about them.         *)
(***************************************************************************)
EXTENDS Services, TLC

CONSTANTS l1, l2, s1, s2, e1, e2

Letters == {l1, l2}
Syncing == {s1, s2}
Invoices == {e1, e2}

\* Mails are alike and syncs are; the run has no liveness property.
Alike == Permutations(Letters) \union Permutations(Syncing)

\* Both invoices are in order, or none is.
Evidences == {[e \in Invoices |-> "clean"],
              [e \in Invoices |-> IF e = e1 THEN "suspect" ELSE "doubtful"]}

=============================================================================
