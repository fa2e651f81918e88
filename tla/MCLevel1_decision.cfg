CONSTANTS
  p1 = p1  p2 = p2
  s1 = s1  s2 = s2  alike = alike  stranger = stranger
  r1 = r1  r2 = r2  r3 = r3
  inv = inv  INV = INV  inv2 = inv2  hash = hash
  d1 = d1  d2 = d2  d0 = d0  ds = ds
  m1 = m1  m2 = m2
  None = None
  Payee <- Payees
  Sender <- Senders
  DomainOf <- Domains
  SkeletonOf <- Skeletons
  Rail <- Rails
  Reference <- References
  Canonical <- Canonicals
  Hash = hash
  Email <- Emails
  Ceiling = 8
  Floor = None
  Fee = 1
  FeeShare = 50
  SignSet <- Signs
  MarkSet <- Marks
  KindAnswer <- KindAnswers
  TextSet <- Texts
  FieldAnswer <- FieldAnswers
  EnvelopeSet <- Envelopes
  Environment <- Environments
SPECIFICATION Spec
INVARIANTS TypeOK AutoPayBacked InjectionContained RailChangeReviewed DoubtfulNotPaid
           ReplayDropped
CHECK_DEADLOCK FALSE
