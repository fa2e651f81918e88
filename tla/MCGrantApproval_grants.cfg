CONSTANTS
  s1 = s1  s2 = s2  r1 = r1  r2 = r2  c1 = c1  c2 = c2
  None = None
  LastLine = TRUE
  Sender <- TwoSenders
  Rail <- TwoRails
  Call <- TwoCalls
SPECIFICATION FairSpec
INVARIANTS TypeOK OneApprovalAtPerflo ApprovedAsAsked
PROPERTIES ApprovedStays LockSpec LockReleased
