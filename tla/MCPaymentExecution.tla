------------------------- MODULE MCPaymentExecution -------------------------
(***************************************************************************)
(* Model values and symmetry for PaymentExecution's runs.                  *)
(***************************************************************************)
EXTENDS PaymentExecution, TLC

CONSTANTS e1, v1, v2, k1, k2, p1, p2, p3, c1, c2, w1

OneEmail == {e1}
OneTerms == {v1}
TwoTerms == {v1, v2}
TwoKeys == {k1, k2}
TwoPayouts == {p1, p2}
ThreePayouts == {p1, p2, p3}
OneCaller == {c1}
TwoCallers == {c1, c2}
OneReconciler == {w1}

Symmetry == Permutations(Payable) \union Permutations(Key)
            \union Permutations(PayoutId) \union Permutations(Caller)

=============================================================================
