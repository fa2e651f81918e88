------------------------------- MODULE Level1 -------------------------------
(***************************************************************************)
(* Level 1: from a stored mail to a policy decision, and nothing paid      *)
(* (worker/src/level1-pipeline.ts, verifier.ts, payee-resolver.ts,         *)
(* duplicate-detector.ts, auto-pay-eligibility.ts, payment-usage.ts,       *)
(* payee-store.ts, policy-engine.ts).                                      *)
(*                                                                         *)
(* One mail goes through the stages.  Its parts are read as a stage needs  *)
(* them; a language model may be asked twice and answers what it likes.    *)
(* The payees, their use and the fingerprints of earlier mails are what    *)
(* the database held when they were loaded.                                *)
(***************************************************************************)
EXTENDS Extraction, FiniteSets

CONSTANTS
  Payee,        \* the approved payees
  Sender,       \* sender addresses
  DomainOf,     \* DomainOf[s]: the part after the @
  SkeletonOf,   \* SkeletonOf[d]: compactDomain, equal for domains that look alike
  Email,        \* earlier mails
  Ceiling,      \* AUTO_PAY_MAX_AMOUNT_INR, None when unset or not a positive number
  Floor,        \* AUTO_PAY_MIN_AMOUNT_INR, likewise
  Fee,          \* AUTO_PAY_FEE_INR, or its default
  FeeShare,     \* AUTO_PAY_MAX_FEE_SHARE in percent, or its default
  \* bounds: what a mail, a language model and the database may hold
  SignSet, MarkSet, TextSet, EnvelopeSet, KindAnswer, FieldAnswer, Environment

Resolution == {"resolved", "new_payee", "details_changed", "unknown_sender",
               "identity_method_conflict", "multiple_payment_methods"}
HardFail == {"prompt_injection", "lookalike_sender_domain", "payment_method_mismatch",
             "link_domain_mismatch"}
Decision == {"auto_pay", "needs_approval", "quarantine", "ignore"}
Reason == {"injection", "conflict", "hard_fail", "duplicate", "not_payable",
           "classification", "amount", "payment_method", "reference", "currency",
           "payee_name", "resolution", "authentication", "score", "unverified",
           "grant", "ceiling", "minimum", "global_pause", "payee_off", "foreign"}

\* An authentication header: no pass, a pass for another domain, a pass that
\* is aligned with the visible sender's.
Auth == {"none", "pass", "aligned"}

Envelope == [sender : Sender, dmarc : Auth, spf : Auth, dkim : Auth,
             replyElsewhere : BOOLEAN, foreignLink : BOOLEAN]

\* A payee and its grant; a cap or a count of None is no limit.
PayeeRow == [sender : Sender, rails : SUBSET Rail, grantApproved : BOOLEAN,
             active : BOOLEAN, expired : BOOLEAN, autoPay : BOOLEAN,
             perPayment : Nat \union {None}, total : Nat \union {None},
             payments : Nat \union {None}]

Usage == [paid : Nat, count : Nat]

Fingerprint == [email : Email, payee : Payee, reference : Reference \union {None},
                fallback : BOOLEAN, amount : Amount \union {None}]

Env == [payees : [Payee -> PayeeRow],
        usage : [Payee -> Usage],
        history : SUBSET Fingerprint,
        autoPayMode : BOOLEAN,                \* AUTO_PAY_MODE is "on"
        demo : BOOLEAN,                       \* DEMO_MODE is "true"
        classifier : {"rules", "llm"},        \* CLASSIFIER_MODE
        extractor : {"rules", "llm"}]         \* EXTRACTOR_MODE

Finding == [status : Resolution, payee : Payee \union {None}, authPassed : BOOLEAN,
            score : Percent, hardFails : SUBSET HardFail, duplicate : BOOLEAN]
Verdict == [decision : Decision, reasons : SUBSET Reason]

ASSUME DomainAssumption == \A s \in Sender : DomainOf[s] \in DOMAIN SkeletonOf
ASSUME LimitAssumption ==
  /\ Ceiling \in Nat \union {None} /\ Floor \in Nat \union {None}
  /\ Fee \in Nat /\ FeeShare \in Nat \ {0}
ASSUME InputAssumption ==
  /\ SignSet \subseteq SUBSET JunkSign
  /\ MarkSet \subseteq SUBSET Mark
  /\ TextSet \subseteq Text
  /\ EnvelopeSet \subseteq Envelope
  /\ Environment \subseteq Env
\* No mail and no model happens to spell the hash of its own payee, amount and date.
ASSUME HashAssumption ==
  /\ \A t \in TextSet : t.labelled # Hash /\ t.mentioned # Hash
  /\ \A answer \in FieldAnswer : ValidAnswer(answer) => answer.reference # Hash
ASSUME NoneIsNull ==
  /\ None \notin Payee /\ None \notin Nat /\ None \notin Amount
  /\ None \notin Classification /\ None \notin Extracted /\ None \notin Envelope
  /\ None \notin Finding /\ None \notin Verdict

VARIABLES
  stage,        \* how far the mail has come
  env,          \* the database and the process environment
  marks,        \* what the classifier's patterns find, None before it looks
  text,         \* what the extractor's patterns find
  cls,          \* its classification
  extraction,   \* its extraction
  envelope,     \* its headers
  found,        \* resolution, verification and duplicate check
  verdict       \* what is written on the row: decision and reasons

vars == <<stage, env, marks, text, cls, extraction, envelope, found, verdict>>

---------------------------------------------------------------------------
(* Payees *)

\* loadApprovedPayees: one row per identity and active method, so a payee
\* without one is not known at all.
Approved(payees) == {p \in Payee : payees[p].grantApproved /\ payees[p].rails # {}}

KnownSenders(payees) == {payees[p].sender : p \in Approved(payees)}
KnownRails(payees) == UNION {payees[p].rails : p \in Approved(payees)}

BySender(payees, sender) == {p \in Approved(payees) : payees[p].sender = sender}
ByRail(payees, rail) == {p \in Approved(payees) : rail \in payees[p].rails}

\* resolvePayee: sender and rail must lead to one payee.  A normalised rail
\* is never invalid.
Resolve(payees, sender, rail, anySender) ==
  LET senders == BySender(payees, sender)
      owners == ByRail(payees, rail)
      outcome(status, p) == [status |-> status, payee |-> p]
  IN CASE senders # {} /\ owners # {} ->
            {IF p = q THEN outcome("resolved", p) ELSE outcome("identity_method_conflict", None)
               : p \in senders, q \in owners}
       [] senders # {} /\ owners = {} -> {outcome("details_changed", None)}
       [] senders = {} /\ owners # {} ->
            {IF anySender THEN outcome("resolved", q) ELSE outcome("unknown_sender", None)
               : q \in owners}
       [] OTHER -> {outcome("new_payee", None)}

\* processLevel1's own cases: no rail, and more than one.
Resolutions(payees, sender, rails, anySender) ==
  CASE Len(rails) = 1 -> Resolve(payees, sender, rails[1], anySender)
    [] Len(rails) > 1 -> {[status |-> "multiple_payment_methods", payee |-> None]}
    [] OTHER -> {[status |-> "new_payee", payee |-> None]}

---------------------------------------------------------------------------
(* The verifier *)

AuthPassed(m) == m.dmarc = "aligned" \/ (m.spf = "aligned" /\ m.dkim = "aligned")

LooksLikeKnown(payees, sender) ==
  LET known == {DomainOf[s] : s \in KnownSenders(payees)}
  IN /\ DomainOf[sender] \notin known
     /\ SkeletonOf[DomainOf[sender]] \in {SkeletonOf[d] : d \in known}

\* verifyEmail
HardFails(payees, m, rails, injection) ==
  {f \in HardFail :
     \/ f = "prompt_injection" /\ injection
     \/ f = "lookalike_sender_domain" /\ LooksLikeKnown(payees, m.sender)
     \/ /\ f = "payment_method_mismatch"
        /\ m.sender \in KnownSenders(payees)
        /\ \E i \in DOMAIN rails : rails[i] \notin KnownRails(payees)
     \/ f = "link_domain_mismatch" /\ m.foreignLink}

Score(m) == IF m.replyElsewhere THEN 90 ELSE 100

\* (Mutation: a changed rail never counts against the sender.)
ForgivesAnyChange(resolution, m) ==
  resolution.status \in {"multiple_payment_methods", "details_changed"}

\* A changed rail is the owner's to review when the mail authenticates.
ForgivesMismatch(resolution, m) ==
  \/ resolution.status = "multiple_payment_methods"
  \/ resolution.status = "details_changed" /\ AuthPassed(m)

KeptFails(fails, resolution, m) ==
  IF ForgivesMismatch(resolution, m) THEN fails \ {"payment_method_mismatch"} ELSE fails

---------------------------------------------------------------------------
(* Duplicates *)

\* A reference below 85 percent is a fallback: also one that the two parsers
\* disagree about.
IsFallback(x) == x.referenceConfidence > 0 /\ x.referenceConfidence < 85

\* The earlier mails with the payee and the reference.  The reference is
\* compared as it is spelled.
Priors(history, payee, x) ==
  {f \in history : f.payee = payee /\ f.reference = x.reference}

\* (Mutation: a fallback reference identifies an invoice.)
SameByAnyReference(x, prior) == prior.amount = x.amount

SameInvoice(x, prior) == ~IsFallback(x) /\ ~prior.fallback /\ prior.amount = x.amount

\* findDuplicate: the first prior in the order of an unordered query decides.
Duplicates(history, resolution, x) ==
  IF resolution.status # "resolved" \/ x.amount = None \/ x.reference = None
     \/ Priors(history, resolution.payee, x) = {}
  THEN {FALSE}
  ELSE {SameInvoice(x, prior) : prior \in Priors(history, resolution.payee, x)}

---------------------------------------------------------------------------
(* Eligibility *)

Within(amount, limit) == limit = None \/ amount <= limit

\* (Mutation: what has been paid already is forgotten.)
GrantIgnoresUse(row, usage, amount) ==
  row.active /\ ~row.expired /\ Within(amount, row.perPayment) /\ Within(amount, row.total)

\* computeGrantStatus, and all of it.
GrantOk(row, usage, amount) ==
  /\ row.active
  /\ ~row.expired
  /\ Within(amount, row.perPayment)
  /\ Within(usage.paid + amount, row.total)
  /\ row.payments = None \/ usage.count < row.payments

WithinCeiling(amount) == Within(amount, Ceiling)

\* The fee may take FeeShare percent of the amount, unless a floor is set.
AboveMinimum(amount) ==
  IF Floor # None THEN amount > Floor ELSE amount * FeeShare > Fee * 100

---------------------------------------------------------------------------
(* The policy *)

ConfidenceBar == 90
ScoreBar == 80

\* What keeps a payable mail from being paid automatically.
Blockers(c, x, f, e) ==
  LET p == f.payee
      payable == f.status = "resolved" /\ x.amount # None
  IN {r \in Reason :
     \/ r = "classification" /\ c.confidence < ConfidenceBar
     \/ r \in {"amount", "currency"} /\ (x.amount = None \/ x.amountConfidence < ConfidenceBar)
     \/ r = "payment_method" /\ x.railConfidence < ConfidenceBar
     \/ r = "reference" /\ x.referenceConfidence < ConfidenceBar
     \/ r = "payee_name" /\ f.status # "resolved" /\ x.payeeConfidence < ConfidenceBar
     \/ r = "resolution" /\ f.status # "resolved"
     \/ r = "authentication" /\ ~f.authPassed
     \/ r = "score" /\ f.score < ScoreBar
     \/ r = "grant" /\ ~(payable /\ GrantOk(e.payees[p], e.usage[p], x.amount.value))
     \/ r = "ceiling" /\ ~(x.amount # None /\ WithinCeiling(x.amount.value))
     \/ r = "minimum" /\ ~(x.amount # None /\ AboveMinimum(x.amount.value))
     \/ r = "global_pause" /\ ~e.autoPayMode
     \/ r = "payee_off" /\ ~(f.status = "resolved" /\ e.payees[p].autoPay)}

QuarantineReasons(c, f) ==
  {r \in Reason : \/ r = "injection" /\ c.injection
                  \/ r = "conflict" /\ f.status = "identity_method_conflict"
                  \/ r = "hard_fail" /\ f.hardFails # {}}

\* decidePolicy: quarantine outranks a duplicate, a duplicate every gate.
Decide(c, x, f, e) ==
  CASE QuarantineReasons(c, f) # {} ->
         [decision |-> "quarantine", reasons |-> QuarantineReasons(c, f)]
    [] QuarantineReasons(c, f) = {} /\ f.duplicate ->
         [decision |-> "ignore", reasons |-> {"duplicate"}]
    [] OTHER -> [decision |-> IF Blockers(c, x, f, e) = {} THEN "auto_pay" ELSE "needs_approval",
                 reasons |-> Blockers(c, x, f, e)]

\* applyCurrencyGuard: the limits are in rupees.
CurrencyGuard(v, x) ==
  IF v.decision = "auto_pay" /\ x.amount # None /\ x.amount.currency # "INR"
  THEN [decision |-> "needs_approval", reasons |-> v.reasons \union {"foreign"}]
  ELSE v

---------------------------------------------------------------------------
(* The stages *)

Unread == /\ marks = None /\ text = None /\ cls = None /\ extraction = None
          /\ envelope = None /\ found = None /\ verdict = None

Init == stage = "received" /\ env \in Environment /\ Unread

\* Junk is labelled before the classifier sees it.
Ignored == [kind |-> "ignored", confidence |-> 0, injection |-> FALSE]

FilterJunk ==
  /\ stage = "received"
  /\ \E signs \in SignSet : Junk(signs)
  /\ cls' = Ignored
  /\ stage' = "classified"
  /\ UNCHANGED <<env, marks, text, extraction, envelope, found, verdict>>

\* classifyWithSelectedBackend
Classify ==
  /\ stage = "received"
  /\ \E signs \in SignSet : ~Junk(signs)
  /\ \E m \in MarkSet :
       /\ marks' = m
       /\ \/ env.classifier = "rules" /\ cls' = ClassifyByRules(m)
          \/ env.classifier = "llm" /\ \E answer \in KindAnswer : cls' = ClassifyByModel(m, answer)
  /\ stage' = "classified"
  /\ UNCHANGED <<env, text, extraction, envelope, found, verdict>>

\* notPayableResult: an injection is quarantined, everything else ignored.
NotPayable ==
  /\ stage = "classified"
  /\ cls.kind \notin PayableKind
  /\ extraction' = Nothing
  /\ found' = [status |-> "new_payee", payee |-> None, authPassed |-> FALSE, score |-> 100,
               hardFails |-> {f \in {"prompt_injection"} : cls.injection}, duplicate |-> FALSE]
  /\ verdict' = IF cls.injection
                THEN [decision |-> "quarantine", reasons |-> QuarantineReasons(cls, found')]
                ELSE [decision |-> "ignore", reasons |-> {"not_payable"}]
  /\ stage' = "decided"
  /\ UNCHANGED <<env, marks, text, cls, envelope>>

\* extractWithSelectedBackend
Extract ==
  /\ stage = "classified"
  /\ cls.kind \in PayableKind
  /\ \E t \in TextSet :
       /\ text' = t
       /\ \/ env.extractor = "rules" /\ extraction' = ExtractByRules(cls, t)
          \/ env.extractor = "llm" /\ \E answer \in FieldAnswer :
                                        extraction' = ExtractByModel(cls, t, answer)
  /\ stage' = "extracted"
  /\ UNCHANGED <<env, marks, cls, envelope, found, verdict>>

\* Verification, resolution and the duplicate check.
Identify ==
  /\ stage = "extracted"
  /\ \E m \in EnvelopeSet :
     \E resolution \in Resolutions(env.payees, m.sender, extraction.rails, env.demo) :
     \E duplicate \in Duplicates(env.history, resolution, extraction) :
       LET fails == HardFails(env.payees, m, extraction.rails, cls.injection) IN
       /\ envelope' = m
       /\ found' = [status |-> resolution.status, payee |-> resolution.payee,
                    authPassed |-> AuthPassed(m), score |-> Score(m),
                    hardFails |-> KeptFails(fails, resolution, m), duplicate |-> duplicate]
  /\ stage' = "identified"
  /\ UNCHANGED <<env, marks, text, cls, extraction, verdict>>

\* decidePolicy, with the payee's use and grant, then applyCurrencyGuard.
DecidePolicy ==
  /\ stage = "identified"
  /\ verdict' = CurrencyGuard(Decide(cls, extraction, found, env), extraction)
  /\ stage' = "decided"
  /\ UNCHANGED <<env, marks, text, cls, extraction, envelope, found>>

Next == FilterJunk \/ Classify \/ NotPayable \/ Extract \/ Identify \/ DecidePolicy

Spec == Init /\ [][Next]_vars

---------------------------------------------------------------------------
(* Properties *)

\* Every stage has its own part of the row and no later one.
TypeOK ==
  /\ env \in Env
  /\ marks \in (SUBSET Mark) \union {None}
  /\ text \in Text \union {None}
  /\ envelope \in Envelope \union {None}
  /\ cls \in Classification \union {None} /\ (cls = None <=> stage = "received")
  /\ extraction \in Extracted \union {None}
  /\ found \in Finding \union {None}
  /\ verdict \in Verdict \union {None}
  /\ verdict # None <=> stage = "decided"

Paid == stage = "decided" /\ verdict.decision = "auto_pay"

\* What AutoPayMode stands on (level1-pipeline.ts, policy-engine.ts): a mail
\* is paid without the owner only if its one rail and its sender are those of
\* the payee it is paid to (the demo mode waives the sender), the sender's
\* domain authenticates, and the amount, in rupees, fits with what was paid
\* before into that payee's caps.
AutoPayBacked ==
  Paid =>
    \E p \in Payee :
      LET row == env.payees[p] IN
      /\ p = found.payee
      /\ row.grantApproved /\ row.active /\ ~row.expired /\ row.autoPay /\ env.autoPayMode
      /\ extraction.rails \in {<<r>> : r \in row.rails}
      /\ envelope.sender = row.sender \/ env.demo
      /\ envelope.dmarc = "aligned" \/ {envelope.spf, envelope.dkim} = {"aligned"}
      /\ extraction.amount.currency = "INR"
      /\ row.total # None => env.usage[p].paid + extraction.amount.value <= row.total
      /\ row.payments # None => env.usage[p].count + 1 <= row.payments
      /\ Ceiling # None => extraction.amount.value <= Ceiling

\* A mail with text addressed to the model (classifier.ts, llm-classifier.ts)
\* is quarantined and nothing is read out of it, whatever a model would have
\* answered and even when it repeats an earlier invoice.
InjectionContained ==
  stage = "decided" /\ marks # None /\ "injection" \in marks =>
    verdict.decision = "quarantine" /\ extraction = Nothing

\* A known sender's mail with one rail nobody is known by
\* (level1-pipeline.ts, "T-17"): the owner decides when it authenticates, and
\* it is quarantined when it does not.
RailChangeReviewed ==
  stage = "decided" /\ envelope # None =>
    (/\ envelope.sender \in KnownSenders(env.payees)
     /\ Len(extraction.rails) = 1
     /\ extraction.rails[1] \notin KnownRails(env.payees)
     => verdict.decision = IF AuthPassed(envelope) /\ ~envelope.foreignLink
                           THEN "needs_approval" ELSE "quarantine")

\* What the mail does not say clearly is never paid without the owner: an
\* amount chosen among several unlabelled ones, a total line put in for a
\* doubtful amount, and a reference that the two parsers read differently.
DoubtfulNotPaid ==
  Paid =>
    /\ text.labelled # None => Agree(extraction.reference, text.labelled)
    /\ extraction.reference # Hash
    /\ env.extractor = "rules" =>
         \/ \E i \in DOMAIN text.figures : /\ text.figures[i].total
                                           /\ text.figures[i].amount = extraction.amount
         \/ Cardinality(Wholes(text.figures)) = 1
    /\ env.extractor = "llm" /\ extraction.amount = text.totalLine =>
         extraction.amountConfidence > BackstopConfidence

\* The rules alone are sure enough of an invoice only (classifier.ts,
\* policy-engine.ts): with the model off, or its answer lost or invalid, a
\* payment request or a reminder always waits for the owner.
RulesPayInvoicesOnly ==
  Paid /\ cls = ClassifyByRules(marks) => cls.kind = "invoice"

\* What an earlier mail asked of the payee under this mail's reference, and
\* which of it is this very invoice.
Asked == Priors(env.history, found.payee, extraction)
Replayed == {f \in Asked : ~f.fallback /\ f.amount = extraction.amount}

\* A mail is dropped as a replay only when an earlier one asked the same payee
\* for the same amount under the same reference of its own, and nothing about
\* it is suspect; and it is not paid when every earlier mail with that
\* reference is this invoice (duplicate-detector.ts, policy-engine.ts).  When
\* only some are, the first that findDuplicate meets decides.
ReplayDropped ==
  stage = "decided" /\ envelope # None =>
    /\ verdict.decision = "ignore" => found.hardFails = {} /\ \E f \in Replayed : f.reference # Hash
    /\ verdict.decision = "auto_pay" /\ Asked # {} => Replayed # Asked

=============================================================================
