CONSTANTS
  l1 = l1  l2 = l2  s1 = s1  s2 = s2  e1 = e1  e2 = e2
  Letter <- Letters
  Sync <- Syncing
  Overlap = 1
  Limit = 1
  LastTime = 3
  Unset = Unset
  Invoice <- Invoices
  Caller = {1, 2}
  MaxPayments = 1
  Budget = 1
  Checks = 2
  Evidence <- Evidences
  MaxCalls = 2
  MaxChanges = 1
SYMMETRY Alike
SPECIFICATION ServicesSpec
INVARIANTS ServicesTypeOK MailKept BudgetKept UnverifiedStands SuspicionNamed
PROPERTIES AutoPayDue CheckedBeforePaid CapInTurn
CHECK_DEADLOCK FALSE
