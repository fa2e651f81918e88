CONSTANTS
  i1 = i1  i2 = i2  c1 = c1  c2 = c2
  Mail <- Items
  Pass <- Processes
  Worker = c1
  Book <- Books
  Later <- Changes
  Mailbox <- Batches
  MaxDeaths = 1
  None = None
  Grantee <- Items
  Warner <- Processes
  MaxStops = 1
  Event <- Items
  KindOf <- Kinds
  Digester <- Processes
  DayOf <- Day
  HourOf <- Hour
  DigestHour = 9
  LastTick = 3
  Never = None
SPECIFICATION NoticesSpec
INVARIANTS
  NoticesTypeOK
  PaidOnceInTurn OneStays ReviewedNotPaid StampBacked
  OneDigestADay NothingBetweenDigests
PROPERTIES AlertsOnce EveryRowJudged WarningsOnce EveryGrantClaimed
CHECK_DEADLOCK FALSE
