CONSTANTS
  s1 = s1  s2 = s2  r1 = r1  r2 = r2  c1 = c1  c2 = c2
  None = None
  LastLine = FALSE
  Sender <- OneSender
  Rail <- OneRail
  Call <- TwoCalls
SPECIFICATION Spec
INVARIANTS ApprovedHasGrant
