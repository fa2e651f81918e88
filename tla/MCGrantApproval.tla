-------------------------- MODULE MCGrantApproval --------------------------
(***************************************************************************)
(* Model values for GrantApproval's runs.  No symmetry: the passing run    *)
(* checks liveness.                                                        *)
(***************************************************************************)
EXTENDS GrantApproval

CONSTANTS s1, s2, r1, r2, c1, c2

OneSender == {s1}
TwoSenders == {s1, s2}
OneRail == {r1}
TwoRails == {r1, r2}
TwoCalls == {c1, c2}

=============================================================================
