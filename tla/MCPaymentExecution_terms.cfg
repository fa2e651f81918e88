CONSTANTS
  e1 = e1  v1 = v1  v2 = v2  k1 = k1  k2 = k2
  p1 = p1  p2 = p2  p3 = p3  c1 = c1  c2 = c2  w1 = w1
  None = None
  Email <- OneEmail
  Payable <- TwoTerms
  Key <- TwoKeys
  PayoutId <- TwoPayouts
  Caller <- TwoCallers
  Reconciler <- OneReconciler
  Provider = "perflo"
  MaxFailures = 0
SPECIFICATION Spec
INVARIANT RecordIsWhatWasPaid
