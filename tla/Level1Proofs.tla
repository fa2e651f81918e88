---------------------------- MODULE Level1Proofs ----------------------------
(***************************************************************************)
(* What Level 1 decides, for any mail, payees, history, limits and answers *)
(* of a language model.                                                    *)
(***************************************************************************)
EXTENDS Level1, WellFoundedInduction, FiniteSetTheorems, TLAPS

---------------------------------------------------------------------------
(* The least of a set of numbers, which the rules and the extractor choose *)

LEMMA LeastNumber ==
  ASSUME NEW T \in SUBSET Nat, T # {}
  PROVE  \E i \in T : \A j \in T : i <= j
<1>1. PICK i \in T : \A j \in T : ~(<<j, i>> \in OpToRel(<, Nat))
  BY NatLessThanWellFounded, WFMin
<1>2. OpToRel(<, Nat) = {ss \in Nat \X Nat : ss[1] < ss[2]}
  BY DEF OpToRel
<1>3. \A j \in T : ~(j < i)
  BY <1>1, <1>2
<1> QED BY <1>3

LEMMA FirstOfSet ==
  ASSUME NEW T \in SUBSET Nat, T # {}
  PROVE  First(T) \in T
BY LeastNumber DEF First

---------------------------------------------------------------------------
(* The classifier *)

\* Only the first rule finds an injection, and what it finds is not payable;
\* only the invoice rule is sure enough to pay.
Sound(rule) ==
  /\ rule.rank \in Nat
  /\ rule.says \in Classification
  /\ rule.says.injection <=> rule.rank = 1
  /\ rule.says.injection => rule.says.kind = "unrelated"
  /\ rule.says.kind \in PayableKind /\ rule.says.confidence >= 90 => rule.says.kind = "invoice"

LEMMA RuleSound ==
  ASSUME NEW rank \in Nat, NEW needs, NEW kind \in Kind, NEW confidence \in 0..100,
         "injection" \in needs <=> rank = 1,
         rank = 1 => kind = "unrelated",
         kind \in PayableKind /\ confidence >= 90 => kind = "invoice"
  PROVE  Sound(Rule(rank, needs, kind, confidence))
<1> DEFINE caught == "injection" \in needs
           rule == Rule(rank, needs, kind, confidence)
<1>1. rule.rank = rank
  BY DEF Rule
<1>2. rule.says = [kind |-> kind, confidence |-> confidence, injection |-> caught]
  BY DEF Rule
<1>3. caught \in BOOLEAN /\ (caught <=> rank = 1)
  OBVIOUS
<1> HIDE DEF caught, rule
<1>4. rule.says.kind = kind /\ rule.says.confidence = confidence /\ rule.says.injection = caught
  BY <1>2
<1>5. rule.says \in Classification
  BY <1>2, <1>3 DEF Classification, Percent
<1>6. Sound(rule)
  BY <1>1, <1>3, <1>4, <1>5 DEF Sound
<1> QED BY <1>6 DEF rule

LEMMA RuleTypes == \A rule \in Rules : Sound(rule)
<1> USE DEF Kind, PayableKind
<1>1. Sound(Rule(1, {"injection"}, "unrelated", 100))
  BY RuleSound
<1>2. Sound(Rule(2, {"settled"}, "receipt", 90))
  BY RuleSound
<1>3. Sound(Rule(3, {"reminder"}, "reminder", 85))
  BY RuleSound
<1>4. Sound(Rule(4, {"statement"}, "statement", 92))
  BY RuleSound
<1>5. Sound(Rule(5, {"scam"}, "unrelated", 90))
  BY RuleSound
<1>6. Sound(Rule(6, {"invoice"}, "invoice", 90))
  BY RuleSound
<1>7. Sound(Rule(7, {"amount", "request"}, "payment_request", 85))
  BY RuleSound
<1>8. Sound(Rule(8, {"amount"}, "unrelated", 85))
  BY RuleSound
<1>9. Sound(Rule(9, {"request"}, "unrelated", 20))
  BY RuleSound
<1>10. Sound(Rule(10, {"notice"}, "unrelated", 90))
  BY RuleSound
<1>11. Sound(Rule(11, {"editorial"}, "unrelated", 95))
  BY RuleSound
<1>12. Sound(Rule(12, {}, "unrelated", 20))
  BY RuleSound
<1> QED BY <1>1, <1>2, <1>3, <1>4, <1>5, <1>6, <1>7, <1>8, <1>9, <1>10, <1>11, <1>12
        DEF Rules

\* The rule that answers is the first one that applies.
LEMMA RuleAnswers ==
  ASSUME NEW m
  PROVE  \E rule \in Rules :
           /\ Applies(rule, m) /\ ClassifyByRules(m) = rule.says
           /\ \A other \in Rules : Applies(other, m) => rule.rank <= other.rank
<1> DEFINE applying == {rule \in Rules : Applies(rule, m)}
           ranks == {rule.rank : rule \in applying}
<1>1. Rule(12, {}, "unrelated", 20) \in applying
  BY DEF Rules, Rule, Applies
<1>2. ranks \in SUBSET Nat /\ ranks # {}
  BY <1>1, RuleTypes DEF Sound
<1>3. PICK i \in ranks : \A j \in ranks : i <= j
  BY <1>2, LeastNumber
<1>4. \E rule \in Rules : /\ Applies(rule, m)
                          /\ \A other \in Rules : Applies(other, m) => rule.rank <= other.rank
  BY <1>3
<1> QED BY <1>4 DEF ClassifyByRules

LEMMA RulesClassify ==
  ASSUME NEW m
  PROVE  /\ ClassifyByRules(m) \in Classification
         /\ ClassifyByRules(m).injection => ClassifyByRules(m).kind = "unrelated"
         /\ ClassifyByRules(m).kind \in PayableKind /\ ClassifyByRules(m).confidence >= 90
              => ClassifyByRules(m).kind = "invoice"
         /\ "injection" \in m => ClassifyByRules(m).injection
<1>1. PICK rule \in Rules :
        /\ Applies(rule, m) /\ ClassifyByRules(m) = rule.says
        /\ \A other \in Rules : Applies(other, m) => rule.rank <= other.rank
  BY RuleAnswers
<1> DEFINE first == Rule(1, {"injection"}, "unrelated", 100)
<1>2. first \in Rules /\ first.rank = 1 /\ first.needs = {"injection"}
  BY DEF Rules, Rule
<1>3. \A other \in Rules : other.rank >= 1 /\ other.rank \in Nat
  BY DEF Rules, Rule
<1>4. ASSUME "injection" \in m PROVE rule.says.injection
  <2>1. Applies(first, m)
    BY <1>2, <1>4 DEF Applies
  <2>2. rule.rank = 1
    BY <1>1, <1>2, <1>3, <2>1
  <2> QED BY <2>2, RuleTypes DEF Sound
<1> QED BY <1>1, <1>4, RuleTypes DEF Sound

LEMMA ModelClassifies ==
  ASSUME NEW m, NEW answer
  PROVE  /\ ClassifyByModel(m, answer) \in Classification
         /\ ClassifyByModel(m, answer).injection => ClassifyByModel(m, answer).kind = "unrelated"
         /\ "injection" \in m => ClassifyByModel(m, answer).injection
BY RulesClassify DEF ClassifyByModel, Classification

---------------------------------------------------------------------------
(* The extractor *)

LEMMA NothingExtracted == Nothing \in Extracted
BY DEF Nothing, Extracted, Percent

LEMMA AmountType ==
  ASSUME NEW t \in Text
  PROVE  AmountOf(t.figures) \in Amount \union {None}
<1>1. t.figures \in Seq(Figure)
  BY DEF Text
<1>2. DOMAIN t.figures \subseteq Nat /\ \A i \in DOMAIN t.figures : t.figures[i].amount \in Amount
  <2>1. \A i \in DOMAIN t.figures : t.figures[i] \in Figure
    BY <1>1
  <2> QED BY <1>1, <2>1 DEF Figure
<1>3. Totals(t.figures) \in SUBSET Nat /\ Totals(t.figures) \subseteq DOMAIN t.figures
  BY <1>2 DEF Totals
<1>4. Wholes(t.figures) \in SUBSET Nat /\ Wholes(t.figures) \subseteq DOMAIN t.figures
  BY <1>2 DEF Wholes
<1>5. CASE Totals(t.figures) # {}
  BY <1>2, <1>3, <1>5, FirstOfSet DEF AmountOf
<1>6. CASE Totals(t.figures) = {} /\ \E i \in Wholes(t.figures) : Wholes(t.figures) = {i}
  BY <1>2, <1>4, <1>6, FirstOfSet DEF AmountOf
<1> QED BY <1>5, <1>6 DEF AmountOf

LEMMA ReferenceType ==
  ASSUME NEW t \in Text
  PROVE  /\ ReferenceOf(t)[1] \in Reference \union {None}
         /\ ReferenceOf(t)[2] \in Percent
<1>1. t.labelled \in Reference \union {None} /\ t.mentioned \in Reference \union {None}
  BY DEF Text
<1> QED BY <1>1, ReferenceAssumption DEF ReferenceOf, Percent

LEMMA RulesExtract ==
  ASSUME NEW c, NEW t \in Text
  PROVE  ExtractByRules(c, t) \in Extracted
<1>1. t.rails \in Seq(Rail) /\ t.payee \in {"line", "label", "sender", "none"}
  BY DEF Text
<1>2. PayeeConfidence(t) \in Percent
  <2>1. {0, 75, 90} \subseteq Percent
    BY DEF Percent
  <2>2. PayeeConfidence(t) \in {0, 75, 90}
    BY <1>1, Zenon DEF PayeeConfidence
  <2> QED BY <2>1, <2>2
<1>3. /\ (IF AmountOf(t.figures) = None THEN 0 ELSE 95) \in Percent
      /\ (IF t.rails = <<>> THEN 0 ELSE 90) \in Percent
  BY DEF Percent
<1> QED BY <1>1, <1>2, <1>3, AmountType, ReferenceType, NothingExtracted DEF ExtractByRules, Extracted

LEMMA ModelExtracts ==
  ASSUME NEW c, NEW t \in Text, NEW answer
  PROVE  ExtractByModel(c, t, answer) \in Extracted
<1> DEFINE source == ExtractByRules(c, t)
           taken == IF ValidAnswer(answer) THEN CorroborateReference(answer, source) ELSE source
           backed == CorroborateAmount(taken, t)
<1>1. source \in Extracted
  BY RulesExtract
<1> HIDE DEF source
<1>2. taken \in Extracted
  <2>1. ASSUME ValidAnswer(answer) PROVE CorroborateReference(answer, source) \in Extracted
    <3>1. /\ answer \in Extracted /\ source.reference \in Reference \union {None}
          /\ answer.referenceConfidence \in Percent /\ source.referenceConfidence \in Percent
      BY <1>1, <2>1 DEF ValidAnswer, Extracted
    <3>2. \A a, b \in Percent : Max2(a, b) \in Percent /\ Min2(a, 50) \in Percent
      BY DEF Max2, Min2, Percent
    <3> QED BY <3>1, <3>2 DEF CorroborateReference, Extracted
  <2> QED BY <1>1, <2>1
<1> HIDE DEF taken
<1>3. backed \in Extracted
  <2>1. t.totalLine \in Amount \union {None} /\ BackstopConfidence \in Percent
    BY DEF Text, BackstopConfidence, Percent
  <2> QED BY <1>2, <2>1 DEF CorroborateAmount, Extracted
<1> HIDE DEF backed
<1>4. CorroboratePayee(backed, t) \in Extracted
  <2>1. 100 \in Percent
    BY DEF Percent
  <2>2. [backed EXCEPT !.payeeConfidence = 100] \in Extracted
    BY <1>3, <2>1 DEF Extracted
  <2> QED BY <1>3, <2>2 DEF CorroboratePayee
<1> QED BY <1>1, <1>4 DEF ExtractByModel, source, taken, backed

\* Only a labelled reference, a mentioned one and the hash come out of the
\* rules, each at its own confidence.
LEMMA RulesReference ==
  ASSUME NEW c, NEW t \in TextSet, ~Refuses(c)
  PROVE  LET source == ExtractByRules(c, t) IN
         /\ t.labelled # None => source.reference = t.labelled
         /\ source.reference = Hash => source.referenceConfidence = 60
         /\ source.reference = None => source.referenceConfidence = 0
<1> DEFINE source == ExtractByRules(c, t)
<1>1. source.reference = ReferenceOf(t)[1] /\ source.referenceConfidence = ReferenceOf(t)[2]
  BY DEF ExtractByRules
<1>2. t.labelled # Hash /\ t.mentioned # Hash /\ Hash # None
  BY HashAssumption, ReferenceAssumption, NullAssumption
<1>3. ReferenceOf(t) \in {<<t.labelled, 100>>, <<t.mentioned, 90>>, <<Hash, 60>>, <<None, 0>>}
  BY DEF ReferenceOf
<1>4. /\ t.labelled # None => ReferenceOf(t) = <<t.labelled, 100>>
      /\ t.labelled = None => ReferenceOf(t) # <<t.labelled, 100>>
      /\ t.mentioned = None => ReferenceOf(t) # <<t.mentioned, 90>>
  BY <1>2 DEF ReferenceOf
<1> QED BY <1>1, <1>2, <1>3, <1>4

\* A confidence in the model's reference is kept only if the rules do not read
\* another one; the two later corrections leave the reference alone.
LEMMA ModelReference ==
  ASSUME NEW c, NEW t \in TextSet, ~Refuses(c), NEW answer \in FieldAnswer
  PROVE  LET x == ExtractByModel(c, t, answer) IN
         /\ t.labelled # None /\ x.referenceConfidence >= 90 => Agree(x.reference, t.labelled)
         /\ x.reference = Hash => x.referenceConfidence = 60
         /\ x.reference = None => x.referenceConfidence = 0
<1> DEFINE source == ExtractByRules(c, t)
           taken == IF ValidAnswer(answer) THEN CorroborateReference(answer, source) ELSE source
           backed == CorroborateAmount(taken, t)
           x == ExtractByModel(c, t, answer)
<1>1. source \in Extracted
  BY RulesExtract, InputAssumption
<1>2. /\ t.labelled # None => source.reference = t.labelled
      /\ source.reference = Hash => source.referenceConfidence = 60
      /\ source.reference = None => source.referenceConfidence = 0
  BY RulesReference
<1>3. x = CorroboratePayee(backed, t)
  BY DEF ExtractByModel
<1> HIDE DEF source, x
<1>4. taken \in Extracted /\ backed \in Extracted
  <2>1. ASSUME ValidAnswer(answer) PROVE CorroborateReference(answer, source) \in Extracted
    <3>1. /\ answer \in Extracted /\ source.reference \in Reference \union {None}
          /\ answer.referenceConfidence \in Percent /\ source.referenceConfidence \in Percent
      BY <1>1, <2>1 DEF ValidAnswer, Extracted
    <3>2. \A a, b \in Percent : Max2(a, b) \in Percent /\ Min2(a, 50) \in Percent
      BY DEF Max2, Min2, Percent
    <3> QED BY <3>1, <3>2 DEF CorroborateReference, Extracted
  <2>2. taken \in Extracted
    BY <1>1, <2>1
  <2>3. t.totalLine \in Amount \union {None} /\ BackstopConfidence \in Percent
    BY InputAssumption DEF Text, BackstopConfidence, Percent
  <2> QED BY <2>2, <2>3 DEF CorroborateAmount, Extracted
<1>5. /\ t.labelled # None /\ taken.referenceConfidence >= 90 => Agree(taken.reference, t.labelled)
      /\ taken.reference = Hash => taken.referenceConfidence = 60
      /\ taken.reference = None => taken.referenceConfidence = 0
  <2>1. CASE ~ValidAnswer(answer)
    BY <1>2, <2>1 DEF Agree
  <2>2. CASE ValidAnswer(answer)
    <3>1. /\ answer \in Extracted /\ answer.reference # Hash
          /\ answer.reference = None => answer.referenceConfidence = 0
      BY <2>2, HashAssumption DEF ValidAnswer
    <3>2. taken = CorroborateReference(answer, source)
      BY <2>2
    <3>3. CASE source.reference = None
      BY <1>2, <3>1, <3>2, <3>3 DEF CorroborateReference
    <3>4. CASE source.reference # None /\ answer.reference = None
      <4>1. taken = [answer EXCEPT !.reference = source.reference,
                                   !.referenceConfidence = source.referenceConfidence]
        BY <3>2, <3>4 DEF CorroborateReference
      <4>2. taken.reference = source.reference
            /\ taken.referenceConfidence = source.referenceConfidence
        BY <3>1, <4>1 DEF Extracted
      <4> QED BY <1>2, <3>4, <4>2 DEF Agree
    <3>5. CASE source.reference # None /\ answer.reference # None
      <4> DEFINE conf == IF Agree(answer.reference, source.reference)
                         THEN Max2(answer.referenceConfidence, source.referenceConfidence)
                         ELSE Min2(answer.referenceConfidence, 50)
      <4>1. taken = [answer EXCEPT !.referenceConfidence = conf]
        BY <3>2, <3>5 DEF CorroborateReference
      <4>2. taken.reference = answer.reference /\ taken.referenceConfidence = conf
        BY <3>1, <4>1 DEF Extracted
      <4>3. ~Agree(answer.reference, source.reference) => ~(conf >= 90)
        <5>1. answer.referenceConfidence \in 0..100
          BY <3>1 DEF Extracted, Percent
        <5>2. \A n \in 0..100 : ~(Min2(n, 50) >= 90)
          BY DEF Min2
        <5>3. ~Agree(answer.reference, source.reference) => conf = Min2(answer.referenceConfidence, 50)
          OBVIOUS
        <5> HIDE DEF conf
        <5> QED BY <5>1, <5>2, <5>3
      <4> HIDE DEF conf
      <4> QED BY <1>2, <3>1, <3>5, <4>2, <4>3
    <3> QED BY <3>3, <3>4, <3>5
  <2> QED BY <2>1, <2>2
<1> HIDE DEF taken
<1>6. backed.reference = taken.reference /\ backed.referenceConfidence = taken.referenceConfidence
  BY <1>4 DEF CorroborateAmount, Extracted
<1> HIDE DEF backed
<1>7. x.reference = backed.reference /\ x.referenceConfidence = backed.referenceConfidence
  BY <1>3, <1>4 DEF CorroboratePayee, Extracted
<1>8. /\ t.labelled # None /\ x.referenceConfidence >= 90 => Agree(x.reference, t.labelled)
      /\ x.reference = Hash => x.referenceConfidence = 60
      /\ x.reference = None => x.referenceConfidence = 0
  BY <1>5, <1>6, <1>7
<1> QED BY <1>8 DEF x

\* What Extract reads.
Reads(e, c, t, x) ==
  /\ t \in TextSet
  /\ \/ e.extractor = "rules" /\ x = ExtractByRules(c, t)
     \/ e.extractor = "llm" /\ \E answer \in FieldAnswer : x = ExtractByModel(c, t, answer)

LEMMA ReadReference ==
  ASSUME NEW e, NEW c, NEW t, NEW x, ~Refuses(c), Reads(e, c, t, x)
  PROVE  /\ t.labelled # None /\ x.referenceConfidence >= 90 => Agree(x.reference, t.labelled)
         /\ x.reference = Hash => x.referenceConfidence = 60
         /\ x.reference = None => x.referenceConfidence = 0
<1>1. CASE x = ExtractByRules(c, t)
  BY <1>1, RulesReference DEF Reads, Agree
<1>2. CASE \E answer \in FieldAnswer : x = ExtractByModel(c, t, answer)
  BY <1>2, ModelReference DEF Reads
<1> QED BY <1>1, <1>2 DEF Reads

---------------------------------------------------------------------------
(* Identification and decision *)

LEMMA Resolves ==
  ASSUME NEW payees, NEW sender, NEW rails, NEW any,
         NEW r \in Resolutions(payees, sender, rails, any)
  PROVE  /\ r.status \in Resolution /\ r.payee \in Payee \union {None}
         /\ r.status = "resolved" =>
              /\ Len(rails) = 1
              /\ r.payee \in ByRail(payees, rails[1])
              /\ r.payee \in BySender(payees, sender) \/ any
         /\ Len(rails) = 1 /\ BySender(payees, sender) # {} /\ ByRail(payees, rails[1]) = {}
              => r.status = "details_changed"
<1> DEFINE senders == BySender(payees, sender)
           owners == ByRail(payees, rails[1])
<1>1. senders \subseteq Payee /\ owners \subseteq Payee
  BY DEF BySender, ByRail, Approved
<1>2. CASE Len(rails) = 1
  <2>1. r \in Resolve(payees, sender, rails[1], any)
    BY <1>2 DEF Resolutions
  <2>2. CASE senders # {} /\ owners # {}
    <3>1. PICK p \in senders, q \in owners :
            r = IF p = q THEN [status |-> "resolved", payee |-> p]
                ELSE [status |-> "identity_method_conflict", payee |-> None]
      BY <2>1, <2>2 DEF Resolve
    <3> QED BY <1>1, <1>2, <3>1, <2>2 DEF Resolution
  <2>3. CASE senders # {} /\ owners = {}
    <3>1. r = [status |-> "details_changed", payee |-> None]
      BY <2>1, <2>3 DEF Resolve
    <3> QED BY <3>1 DEF Resolution
  <2>4. CASE senders = {} /\ owners # {}
    <3>1. PICK q \in owners :
            r = IF any THEN [status |-> "resolved", payee |-> q]
                ELSE [status |-> "unknown_sender", payee |-> None]
      BY <2>1, <2>4 DEF Resolve
    <3> QED BY <1>1, <1>2, <3>1, <2>4 DEF Resolution
  <2>5. CASE senders = {} /\ owners = {}
    <3>1. r = [status |-> "new_payee", payee |-> None]
      BY <2>1, <2>5 DEF Resolve
    <3> QED BY <3>1, <2>5 DEF Resolution
  <2> QED BY <2>2, <2>3, <2>4, <2>5
<1>3. CASE Len(rails) # 1
  <2>1. \/ r = [status |-> "multiple_payment_methods", payee |-> None]
        \/ r = [status |-> "new_payee", payee |-> None]
    BY <1>3 DEF Resolutions
  <2> QED BY <1>3, <2>1 DEF Resolution
<1> QED BY <1>2, <1>3

\* What Identify writes.
Identified(m, x, c, e, f) ==
  \E r \in Resolutions(e.payees, m.sender, x.rails, e.demo) :
  \E duplicate \in Duplicates(e.history, r, x) :
    f = [status |-> r.status, payee |-> r.payee, authPassed |-> AuthPassed(m), score |-> Score(m),
         hardFails |-> KeptFails(HardFails(e.payees, m, x.rails, c.injection), r, m),
         duplicate |-> duplicate]

LEMMA IdentifiedType ==
  ASSUME NEW m, NEW x, NEW c, NEW e, NEW f, Identified(m, x, c, e, f)
  PROVE  f \in Finding
<1> DEFINE identity(r, duplicate) ==
             [status |-> r.status, payee |-> r.payee, authPassed |-> AuthPassed(m),
              score |-> Score(m),
              hardFails |-> KeptFails(HardFails(e.payees, m, x.rails, c.injection), r, m),
              duplicate |-> duplicate]
<1>1. PICK r \in Resolutions(e.payees, m.sender, x.rails, e.demo) :
        \E duplicate \in Duplicates(e.history, r, x) : f = identity(r, duplicate)
  BY DEF Identified
<1>2. PICK duplicate \in Duplicates(e.history, r, x) : f = identity(r, duplicate)
  BY <1>1
<1>3. r.status \in Resolution /\ r.payee \in Payee \union {None}
  BY Resolves
<1>4. AuthPassed(m) \in BOOLEAN
  BY DEF AuthPassed
<1>5. duplicate \in BOOLEAN
  BY DEF Duplicates, SameInvoice
<1>6. Score(m) \in Percent
  BY DEF Score, Percent
<1>7. KeptFails(HardFails(e.payees, m, x.rails, c.injection), r, m) \in SUBSET HardFail
  BY DEF KeptFails, HardFails
<1> QED BY <1>2, <1>3, <1>4, <1>5, <1>6, <1>7 DEF Finding

LEMMA VerdictType ==
  ASSUME NEW c, NEW x, NEW f, NEW e
  PROVE  CurrencyGuard(Decide(c, x, f, e), x) \in Verdict
<1>1. QuarantineReasons(c, f) \subseteq Reason /\ Blockers(c, x, f, e) \subseteq Reason
  BY DEF QuarantineReasons, Blockers
<1>2. "duplicate" \in Reason /\ "foreign" \in Reason
  BY DEF Reason
<1>3. Decide(c, x, f, e) \in Verdict
  BY <1>1, <1>2 DEF Decide, Verdict, Decision
<1> QED BY <1>2, <1>3 DEF CurrencyGuard, Verdict, Decision

\* What is paid is resolved and nothing stands against it.
LEMMA PaidDecision ==
  ASSUME NEW c, NEW x, NEW f, NEW e, CurrencyGuard(Decide(c, x, f, e), x).decision = "auto_pay"
  PROVE  /\ Blockers(c, x, f, e) = {} /\ f.hardFails = {} /\ ~f.duplicate
         /\ x.amount # None => x.amount.currency = "INR"
<1>1. Decide(c, x, f, e).decision = "auto_pay" /\ (x.amount # None => x.amount.currency = "INR")
  BY DEF CurrencyGuard
<1>2. QuarantineReasons(c, f) = {} /\ ~f.duplicate
  BY <1>1 DEF Decide
<1>3. Blockers(c, x, f, e) = {}
  BY <1>1, <1>2 DEF Decide
<1>4. f.hardFails = {}
  BY <1>2 DEF QuarantineReasons, Reason
<1> QED BY <1>1, <1>2, <1>3, <1>4

---------------------------------------------------------------------------
(* The inductive invariant *)

\* A classification that has caught an injection is not payable, and the scan
\* is caught whoever classifies.
ClassifiedInv ==
  stage # "received" =>
    /\ cls \in Classification
    /\ cls.injection => cls.kind = "unrelated"
    /\ marks # None => ("injection" \in marks => cls.injection)

\* Which parts of the row a stage has.
StageInv ==
  /\ stage \in {"received", "classified", "extracted", "identified", "decided"}
  /\ stage = "received" => cls = None /\ marks = None
  /\ stage \in {"received", "classified", "extracted"} => envelope = None
  /\ stage = "extracted" => /\ cls.kind \in PayableKind /\ extraction \in Extracted
                             /\ Reads(env, cls, text, extraction)
  /\ stage = "identified" => envelope # None
  /\ stage # "decided" => verdict = None
  /\ stage = "decided" => verdict \in Verdict

\* A row with an envelope has been identified by it.
EnvelopeInv ==
  envelope # None =>
    /\ stage \in {"identified", "decided"}
    /\ cls.kind \in PayableKind /\ extraction \in Extracted
    /\ Reads(env, cls, text, extraction)
    /\ Identified(envelope, extraction, cls, env, found)

\* And a decision is the policy's on what was found, or that of a mail that
\* is not payable.
DecisionInv ==
  stage = "decided" =>
    /\ envelope # None => verdict = CurrencyGuard(Decide(cls, extraction, found, env), extraction)
    /\ envelope = None => /\ cls.kind \notin PayableKind /\ extraction = Nothing
                          /\ verdict.decision = IF cls.injection THEN "quarantine" ELSE "ignore"

Level1Inv == TypeOK /\ ClassifiedInv /\ StageInv /\ EnvelopeInv /\ DecisionInv

LEMMA Level1Initially == Init => Level1Inv
BY InputAssumption DEF Init, Unread, Level1Inv, TypeOK, ClassifiedInv, StageInv, EnvelopeInv,
                       DecisionInv

\* The junk filter and the classifier.
LEMMA ClassifyKeepsInv ==
  ASSUME Level1Inv, FilterJunk \/ Classify
  PROVE  Level1Inv'
<1> USE DEF Level1Inv
<1>1. UNCHANGED <<env, text, extraction, envelope, found, verdict>>
  BY DEF FilterJunk, Classify
<1>2. stage = "received" /\ stage' = "classified"
  BY DEF FilterJunk, Classify
<1>3. marks' \in (SUBSET Mark) \union {None}
  BY InputAssumption DEF FilterJunk, Classify, TypeOK
<1>4. /\ cls' \in Classification
      /\ cls'.injection => cls'.kind = "unrelated"
      /\ marks' # None => ("injection" \in marks' => cls'.injection)
  <2>1. CASE FilterJunk
    <3>1. Ignored \in Classification /\ Ignored.injection = FALSE
      BY DEF Ignored, Classification, Kind, Percent
    <3>2. cls' = Ignored /\ marks' = marks
      BY <2>1 DEF FilterJunk
    <3>3. marks = None
      BY <1>2 DEF TypeOK, StageInv
    <3> QED BY <3>1, <3>2, <3>3
  <2>2. CASE Classify
    <3>1. \/ cls' = ClassifyByRules(marks')
          \/ \E answer \in KindAnswer : cls' = ClassifyByModel(marks', answer)
      BY <2>2 DEF Classify
    <3> QED BY <3>1, RulesClassify, ModelClassifies
  <2> QED BY <2>1, <2>2
<1>5. TypeOK'
  BY <1>1, <1>2, <1>3, <1>4, NoneIsNull DEF TypeOK
<1>6. ClassifiedInv'
  BY <1>4 DEF ClassifiedInv
<1>7. StageInv' /\ EnvelopeInv' /\ DecisionInv'
  BY <1>1, <1>2 DEF StageInv, EnvelopeInv, DecisionInv
<1> QED BY <1>5, <1>6, <1>7

LEMMA NotPayableKeepsInv ==
  ASSUME Level1Inv, NotPayable
  PROVE  Level1Inv'
<1> USE DEF Level1Inv
<1>1. UNCHANGED <<env, marks, text, cls, envelope>>
  BY DEF NotPayable
<1>2. /\ stage = "classified" /\ stage' = "decided" /\ cls.kind \notin PayableKind
      /\ extraction' = Nothing
  BY DEF NotPayable
<1>3. found' \in Finding
  BY DEF NotPayable, Finding, Resolution, HardFail, Percent
<1>4. /\ verdict' \in Verdict
      /\ verdict'.decision = IF cls.injection THEN "quarantine" ELSE "ignore"
  <2>1. QuarantineReasons(cls, found') \subseteq Reason /\ "not_payable" \in Reason
    BY DEF QuarantineReasons, Reason
  <2>2. verdict' = IF cls.injection
                   THEN [decision |-> "quarantine", reasons |-> QuarantineReasons(cls, found')]
                   ELSE [decision |-> "ignore", reasons |-> {"not_payable"}]
    BY DEF NotPayable
  <2> QED BY <2>1, <2>2 DEF Verdict, Decision
<1>5. TypeOK'
  BY <1>1, <1>2, <1>3, <1>4, NothingExtracted, NoneIsNull DEF TypeOK
<1>6. ClassifiedInv'
  BY <1>1, <1>2 DEF ClassifiedInv
<1>7. envelope = None
  BY <1>2 DEF StageInv
<1>8. StageInv' /\ EnvelopeInv' /\ DecisionInv'
  BY <1>1, <1>2, <1>4, <1>7 DEF StageInv, EnvelopeInv, DecisionInv
<1> QED BY <1>5, <1>6, <1>8

LEMMA ExtractKeepsInv ==
  ASSUME Level1Inv, Extract
  PROVE  Level1Inv'
<1> USE DEF Level1Inv
<1>1. UNCHANGED <<env, marks, cls, envelope, found, verdict>>
  BY DEF Extract
<1>2. stage = "classified" /\ stage' = "extracted" /\ cls.kind \in PayableKind
  BY DEF Extract
<1>3. text' \in Text /\ extraction' \in Extracted
  <2>1. PICK t \in TextSet :
          /\ text' = t
          /\ \/ extraction' = ExtractByRules(cls, t)
             \/ \E answer \in FieldAnswer : extraction' = ExtractByModel(cls, t, answer)
    BY DEF Extract
  <2>2. t \in Text
    BY InputAssumption
  <2> QED BY <2>1, <2>2, RulesExtract, ModelExtracts
<1>4. Reads(env, cls, text', extraction')
  BY DEF Extract, Reads
<1>5. TypeOK'
  BY <1>1, <1>2, <1>3 DEF TypeOK
<1>6. ClassifiedInv'
  BY <1>1, <1>2 DEF ClassifiedInv
<1>7. StageInv' /\ EnvelopeInv' /\ DecisionInv'
  BY <1>1, <1>2, <1>3, <1>4 DEF StageInv, EnvelopeInv, DecisionInv
<1> QED BY <1>5, <1>6, <1>7

LEMMA IdentifyKeepsInv ==
  ASSUME Level1Inv, Identify
  PROVE  Level1Inv'
<1> USE DEF Level1Inv
<1>1. UNCHANGED <<env, marks, text, cls, extraction, verdict>>
  BY DEF Identify
<1>2. stage = "extracted" /\ stage' = "identified"
  BY DEF Identify
<1>3. envelope' \in EnvelopeSet /\ Identified(envelope', extraction, cls, env, found')
  BY DEF Identify, Identified
<1>4. envelope' \in Envelope /\ envelope' # None
  BY <1>3, InputAssumption, NoneIsNull
<1>5. found' \in Finding
  BY <1>3, IdentifiedType
<1>6. TypeOK'
  BY <1>1, <1>2, <1>4, <1>5 DEF TypeOK
<1>7. ClassifiedInv'
  BY <1>1, <1>2 DEF ClassifiedInv
<1>8. EnvelopeInv'
  BY <1>1, <1>2, <1>3 DEF EnvelopeInv, StageInv
<1>9. StageInv' /\ DecisionInv'
  BY <1>1, <1>2, <1>4 DEF StageInv, DecisionInv
<1> QED BY <1>6, <1>7, <1>8, <1>9

LEMMA DecideKeepsInv ==
  ASSUME Level1Inv, DecidePolicy
  PROVE  Level1Inv'
<1> USE DEF Level1Inv
<1>1. UNCHANGED <<env, marks, text, cls, extraction, envelope, found>>
  BY DEF DecidePolicy
<1>2. /\ stage = "identified" /\ stage' = "decided"
      /\ verdict' = CurrencyGuard(Decide(cls, extraction, found, env), extraction)
  BY DEF DecidePolicy
<1>3. verdict' \in Verdict /\ verdict' # None
  BY <1>2, VerdictType, NoneIsNull
<1>4. TypeOK'
  BY <1>1, <1>2, <1>3 DEF TypeOK
<1>5. ClassifiedInv' /\ EnvelopeInv'
  BY <1>1, <1>2 DEF ClassifiedInv, EnvelopeInv
<1>6. StageInv' /\ DecisionInv'
  BY <1>1, <1>2, <1>3 DEF StageInv, DecisionInv
<1> QED BY <1>4, <1>5, <1>6

LEMMA Level1StepKeepsInv == Level1Inv /\ [Next]_vars => Level1Inv'
<1> SUFFICES ASSUME Level1Inv, [Next]_vars
             PROVE  Level1Inv'
  OBVIOUS
<1>1. CASE UNCHANGED vars
  BY <1>1 DEF vars, Level1Inv, TypeOK, ClassifiedInv, StageInv, EnvelopeInv, DecisionInv
<1> QED BY <1>1, ClassifyKeepsInv, NotPayableKeepsInv, ExtractKeepsInv, IdentifyKeepsInv,
           DecideKeepsInv DEF Next

LEMMA Level1Inductive == Spec => []Level1Inv
BY Level1Initially, Level1StepKeepsInv, PTL DEF Spec

---------------------------------------------------------------------------
(* Theorems *)

\* Types of what level1-pipeline.ts writes on a row.
THEOREM Level1Types == Spec => []TypeOK
<1>1. Level1Inv => TypeOK
  BY DEF Level1Inv
<1> QED BY <1>1, Level1Inductive, PTL

\* A mail with an injection is quarantined and nothing is read out of it: the
\* scan runs before a model is asked and an injection is never payable.
THEOREM InjectionIsContained == Spec => []InjectionContained
<1>1. Level1Inv => InjectionContained
  <2> SUFFICES ASSUME Level1Inv, stage = "decided", marks # None, "injection" \in marks
               PROVE  verdict.decision = "quarantine" /\ extraction = Nothing
    BY DEF InjectionContained
  <2>1. cls.injection /\ cls.kind = "unrelated"
    BY DEF Level1Inv, ClassifiedInv
  <2>2. cls.kind \notin PayableKind
    BY <2>1 DEF PayableKind
  <2>3. envelope = None
    BY <2>2 DEF Level1Inv, EnvelopeInv
  <2> QED BY <2>1, <2>3 DEF Level1Inv, DecisionInv
<1> QED BY <1>1, Level1Inductive, PTL

\* What is paid has been identified, and every blocker was looked at.
LEMMA PaidIsIdentified ==
  ASSUME Level1Inv, Paid
  PROVE  /\ envelope # None /\ cls.kind \in PayableKind /\ extraction \in Extracted
         /\ ~Refuses(cls) /\ Reads(env, cls, text, extraction)
         /\ Identified(envelope, extraction, cls, env, found)
         /\ Blockers(cls, extraction, found, env) = {}
         /\ found.hardFails = {} /\ ~found.duplicate
         /\ extraction.amount # None => extraction.amount.currency = "INR"
<1>1. stage = "decided" /\ verdict.decision = "auto_pay"
  BY DEF Paid
<1>2. envelope # None
  BY <1>1 DEF Level1Inv, DecisionInv
<1>3. CurrencyGuard(Decide(cls, extraction, found, env), extraction).decision = "auto_pay"
  BY <1>1, <1>2 DEF Level1Inv, DecisionInv
<1>4. cls.kind \in PayableKind /\ Reads(env, cls, text, extraction)
  BY <1>2 DEF Level1Inv, EnvelopeInv
<1>5. ~Refuses(cls)
  BY <1>1, <1>4 DEF Level1Inv, ClassifiedInv, Refuses, PayableKind
<1> QED BY <1>2, <1>3, <1>4, <1>5, PaidDecision DEF Level1Inv, EnvelopeInv

\* A payment without the owner is backed by its rail, its sender, an aligned
\* authentication and the payee's caps, whatever was extracted and by whom.
THEOREM AutoPayIsBacked == Spec => []AutoPayBacked
<1>1. Level1Inv => AutoPayBacked
  <2> SUFFICES ASSUME Level1Inv, Paid
               PROVE  AutoPayBacked
    BY DEF AutoPayBacked
  <2> DEFINE p == found.payee
             row == env.payees[p]
             x == extraction
  <2>1. \A r \in Reason : r \notin Blockers(cls, x, found, env)
    BY PaidIsIdentified
  <2>2. found.status = "resolved"
    BY <2>1 DEF Blockers, Reason
  <2>3. x.amount # None /\ GrantOk(row, env.usage[p], x.amount.value)
    BY <2>1 DEF Blockers, Reason
  <2>4. WithinCeiling(x.amount.value) /\ env.autoPayMode /\ row.autoPay /\ found.authPassed
    BY <2>1 DEF Blockers, Reason
  <2>5. PICK r \in Resolutions(env.payees, envelope.sender, x.rails, env.demo) :
          /\ found.status = r.status /\ found.payee = r.payee
          /\ found.authPassed = AuthPassed(envelope)
    BY PaidIsIdentified DEF Identified
  <2>6. /\ Len(x.rails) = 1
        /\ p \in ByRail(env.payees, x.rails[1])
        /\ p \in BySender(env.payees, envelope.sender) \/ env.demo
    BY <2>2, <2>5, Resolves
  <2>7. /\ p \in Payee /\ row.grantApproved /\ x.rails[1] \in row.rails
        /\ envelope.sender = row.sender \/ env.demo
    BY <2>6 DEF ByRail, BySender, Approved
  <2>8. x.rails \in {<<r1>> : r1 \in row.rails}
    <3>1. x.rails \in Seq(Rail)
      BY PaidIsIdentified DEF Extracted
    <3>2. x.rails = <<x.rails[1]>>
      BY <3>1, <2>6
    <3> QED BY <3>2, <2>7
  <2>9. /\ row \in PayeeRow /\ env.usage[p] \in Usage /\ x.amount \in Amount
    <3>1. env \in Env
      BY DEF Level1Inv, TypeOK
    <3>2. x.amount \in Amount \union {None}
      BY PaidIsIdentified DEF Extracted
    <3> QED BY <3>1, <3>2, <2>3, <2>7 DEF Env
  <2>10. /\ row.active /\ ~row.expired
         /\ row.total # None => env.usage[p].paid + x.amount.value <= row.total
         /\ row.payments # None => env.usage[p].count + 1 <= row.payments
         /\ Ceiling # None => x.amount.value <= Ceiling
    BY <2>3, <2>4, <2>9 DEF GrantOk, Within, WithinCeiling, PayeeRow, Usage, Amount
  <2>11. envelope.dmarc = "aligned" \/ {envelope.spf, envelope.dkim} = {"aligned"}
    BY <2>4, <2>5 DEF AuthPassed
  <2>12. x.amount.currency = "INR"
    BY <2>3, PaidIsIdentified
  <2> QED BY <2>4, <2>7, <2>8, <2>10, <2>11, <2>12 DEF AutoPayBacked
<1> QED BY <1>1, Level1Inductive, PTL

\* Without a model's answer only an invoice is sure enough to be paid: the
\* other payable rules of classifier.ts answer below the policy's bar.
THEOREM RulesPayInvoices == Spec => []RulesPayInvoicesOnly
<1>1. Level1Inv => RulesPayInvoicesOnly
  <2> SUFFICES ASSUME Level1Inv, Paid, cls = ClassifyByRules(marks)
               PROVE  cls.kind = "invoice"
    BY DEF RulesPayInvoicesOnly
  <2>1. ~(cls.confidence < ConfidenceBar)
    BY PaidIsIdentified DEF Blockers, Reason
  <2>2. cls.confidence \in Nat
    BY RulesClassify DEF Classification, Percent
  <2>3. cls.confidence >= 90
    BY <2>1, <2>2 DEF ConfidenceBar
  <2> QED BY <2>3, PaidIsIdentified, RulesClassify
<1> QED BY <1>1, Level1Inductive, PTL

\* A known sender's mail with one rail that nobody is known by waits for the
\* owner when it authenticates and is quarantined when it does not.
THEOREM RailChangeIsReviewed == Spec => []RailChangeReviewed
<1>1. Level1Inv => RailChangeReviewed
  <2> DEFINE m == envelope
             x == extraction
             fails == HardFails(env.payees, m, x.rails, cls.injection)
  <2> SUFFICES ASSUME Level1Inv, stage = "decided", m # None,
                      m.sender \in KnownSenders(env.payees),
                      Len(x.rails) = 1, x.rails[1] \notin KnownRails(env.payees)
               PROVE  verdict.decision = IF AuthPassed(m) /\ ~m.foreignLink
                                         THEN "needs_approval" ELSE "quarantine"
    BY DEF RailChangeReviewed
  <2>1. /\ cls.kind \in PayableKind /\ x \in Extracted
        /\ verdict = CurrencyGuard(Decide(cls, x, found, env), x)
    BY DEF Level1Inv, EnvelopeInv, DecisionInv
  <2>2. ~cls.injection
    BY <2>1 DEF Level1Inv, ClassifiedInv, PayableKind
  <2>3. PICK r \in Resolutions(env.payees, m.sender, x.rails, env.demo) :
          \E duplicate \in Duplicates(env.history, r, x) :
            /\ found.status = r.status /\ found.duplicate = duplicate
            /\ found.hardFails = KeptFails(fails, r, m)
    BY DEF Level1Inv, EnvelopeInv, Identified
  <2>4. /\ BySender(env.payees, m.sender) # {}
        /\ ByRail(env.payees, x.rails[1]) = {}
    BY DEF KnownSenders, KnownRails, BySender, ByRail
  <2>5. r.status = "details_changed"
    BY <2>4, Resolves
  <2>6. found.duplicate = FALSE
    BY <2>3, <2>5 DEF Duplicates
  <2>7. "payment_method_mismatch" \in fails
    <3>1. x.rails \in Seq(Rail)
      BY <2>1 DEF Extracted
    <3>2. 1 \in DOMAIN x.rails
      BY <3>1
    <3> QED BY <3>2 DEF HardFails, HardFail
  <2>8. "prompt_injection" \notin fails /\ "lookalike_sender_domain" \notin fails
    BY <2>2 DEF HardFails, LooksLikeKnown
  <2>9. "link_domain_mismatch" \in fails <=> m.foreignLink
    BY DEF HardFails, HardFail
  <2>10. fails \subseteq HardFail
    BY DEF HardFails
  <2>11. found.hardFails = {} <=> AuthPassed(m) /\ ~m.foreignLink
    BY <2>3, <2>5, <2>7, <2>8, <2>9, <2>10 DEF KeptFails, ForgivesMismatch, HardFail
  <2>12. QuarantineReasons(cls, found) = {} <=> found.hardFails = {}
    BY <2>2, <2>3, <2>5 DEF QuarantineReasons, Reason
  <2>13. "resolution" \in Blockers(cls, x, found, env)
    BY <2>3, <2>5 DEF Blockers, Reason
  <2>14. Decide(cls, x, found, env).decision =
           IF found.hardFails = {} THEN "needs_approval" ELSE "quarantine"
    BY <2>6, <2>12, <2>13 DEF Decide
  <2> QED BY <2>1, <2>11, <2>14 DEF CurrencyGuard
<1> QED BY <1>1, Level1Inductive, PTL


\* The rules choose a labelled total or the one amount there is.
LEMMA RulesAmount ==
  ASSUME NEW c, NEW t \in Text, ~Refuses(c), ExtractByRules(c, t).amount # None
  PROVE  \/ \E i \in DOMAIN t.figures : /\ t.figures[i].total
                                        /\ t.figures[i].amount = ExtractByRules(c, t).amount
         \/ Cardinality(Wholes(t.figures)) = 1
<1>1. ExtractByRules(c, t).amount = AmountOf(t.figures)
  BY DEF ExtractByRules
<1>2. t.figures \in Seq(Figure)
  BY DEF Text
<1>3. CASE Totals(t.figures) # {}
  <2>1. Totals(t.figures) \in SUBSET Nat
    BY <1>2 DEF Totals
  <2>2. First(Totals(t.figures)) \in Totals(t.figures)
    BY <1>3, <2>1, FirstOfSet
  <2> QED BY <1>1, <1>3, <2>2 DEF AmountOf, Totals
<1>4. CASE Totals(t.figures) = {}
  <2>1. PICK i \in Wholes(t.figures) : Wholes(t.figures) = {i}
    BY <1>1, <1>4 DEF AmountOf
  <2> QED BY <2>1, FS_Singleton
<1> QED BY <1>3, <1>4

\* What the mail does not say clearly waits for the owner: a model's word does
\* not overrule the rules' reference, and neither guesses an amount.
THEOREM DoubtIsNotPaid == Spec => []DoubtfulNotPaid
<1>1. Level1Inv => DoubtfulNotPaid
  <2> SUFFICES ASSUME Level1Inv, Paid
               PROVE  DoubtfulNotPaid
    BY DEF DoubtfulNotPaid
  <2> DEFINE x == extraction
  <2>1. ~Refuses(cls) /\ Reads(env, cls, text, x) /\ x \in Extracted
    BY PaidIsIdentified
  <2>2. \A r \in Reason : r \notin Blockers(cls, x, found, env)
    BY PaidIsIdentified
  <2>3. /\ x.amount # None /\ ~(x.amountConfidence < ConfidenceBar)
        /\ ~(x.referenceConfidence < ConfidenceBar)
    BY <2>2 DEF Blockers, Reason
  <2>4. x.amountConfidence >= 90 /\ x.referenceConfidence >= 90
    <3>1. x.amountConfidence \in 0..100 /\ x.referenceConfidence \in 0..100
      BY <2>1 DEF Extracted, Percent
    <3>2. \A n \in 0..100 : ~(n < 90) => n >= 90
      OBVIOUS
    <3> QED BY <2>3, <3>1, <3>2 DEF ConfidenceBar
  <2>5. text.labelled # None => Agree(x.reference, text.labelled)
    BY <2>1, <2>4, ReadReference
  <2>6. x.reference # Hash
    BY <2>1, <2>4, ReadReference
  <2>7. ASSUME env.extractor = "rules"
        PROVE  \/ \E i \in DOMAIN text.figures : /\ text.figures[i].total
                                                 /\ text.figures[i].amount = x.amount
               \/ Cardinality(Wholes(text.figures)) = 1
    <3>1. text \in Text /\ x = ExtractByRules(cls, text)
      BY <2>1, <2>7, InputAssumption DEF Reads
    <3> QED BY <2>1, <2>3, <3>1, RulesAmount
  <2>8. x.amountConfidence > BackstopConfidence
    <3>1. x.amountConfidence \in 0..100
      BY <2>1 DEF Extracted, Percent
    <3>2. \A n \in 0..100 : n >= 90 => n > 85
      OBVIOUS
    <3> QED BY <2>4, <3>1, <3>2 DEF BackstopConfidence
  <2> QED BY <2>5, <2>6, <2>7, <2>8 DEF DoubtfulNotPaid
<1> QED BY <1>1, Level1Inductive, PTL

\* Only a replay is dropped, and a replay of all that was asked under its
\* reference is not paid, whichever earlier mail findDuplicate meets first.
THEOREM ReplayIsDropped == Spec => []ReplayDropped
<1>1. Level1Inv => ReplayDropped
  <2> DEFINE x == extraction
  <2> SUFFICES ASSUME Level1Inv, stage = "decided", envelope # None
               PROVE  /\ verdict.decision = "ignore" =>
                           found.hardFails = {} /\ \E f \in Replayed : f.reference # Hash
                      /\ verdict.decision = "auto_pay" /\ Asked # {} => Replayed # Asked
    BY DEF ReplayDropped
  <2>1. /\ cls.kind \in PayableKind /\ x \in Extracted /\ Reads(env, cls, text, x)
        /\ verdict = CurrencyGuard(Decide(cls, x, found, env), x)
    BY DEF Level1Inv, EnvelopeInv, DecisionInv
  <2>2. ~Refuses(cls)
    BY <2>1 DEF Level1Inv, ClassifiedInv, Refuses, PayableKind
  <2>3. PICK r \in Resolutions(env.payees, envelope.sender, x.rails, env.demo) :
          /\ found.status = r.status /\ found.payee = r.payee
          /\ found.duplicate \in Duplicates(env.history, r, x)
    BY DEF Level1Inv, EnvelopeInv, Identified
  <2>4. Priors(env.history, r.payee, x) = Asked
    BY <2>3 DEF Asked
  <2>5. ASSUME verdict.decision = "ignore"
        PROVE  found.hardFails = {} /\ \E f \in Replayed : f.reference # Hash
    <3>1. Decide(cls, x, found, env).decision = "ignore"
      BY <2>1, <2>5 DEF CurrencyGuard
    <3>2. found.duplicate /\ QuarantineReasons(cls, found) = {}
      BY <3>1 DEF Decide
    <3>3. found.hardFails = {}
      BY <3>2 DEF QuarantineReasons, Reason
    <3>4. PICK f \in Asked : SameInvoice(x, f)
      BY <2>3, <2>4, <3>2 DEF Duplicates
    <3>5. x.reference # None
      BY <2>3, <3>2 DEF Duplicates
    <3>6. x.reference # Hash
      BY <2>1, <2>2, <3>4, ReadReference DEF SameInvoice, IsFallback
    <3>7. f \in Replayed /\ f.reference = x.reference
      BY <3>4 DEF Replayed, Asked, Priors, SameInvoice
    <3> QED BY <3>3, <3>6, <3>7
  <2>6. ASSUME verdict.decision = "auto_pay", Asked # {}
        PROVE  Replayed # Asked
    <3>1. Blockers(cls, x, found, env) = {} /\ ~found.duplicate
      BY <2>1, <2>6, PaidDecision
    <3>2. /\ found.status = "resolved" /\ x.amount # None
          /\ ~(x.referenceConfidence < ConfidenceBar)
      BY <3>1 DEF Blockers, Reason
    <3>3. x.referenceConfidence \in 0..100
      BY <2>1 DEF Extracted, Percent
    <3>4. x.reference # None /\ ~IsFallback(x)
      BY <2>1, <2>2, <3>2, <3>3, ReadReference DEF ConfidenceBar, IsFallback
    <3>5. PICK f \in Asked : found.duplicate = SameInvoice(x, f)
      BY <2>3, <2>4, <2>6, <3>2, <3>4 DEF Duplicates
    <3>6. f \notin Replayed
      BY <3>1, <3>4, <3>5 DEF SameInvoice, Replayed
    <3> QED BY <3>5, <3>6
  <2> QED BY <2>5, <2>6
<1> QED BY <1>1, Level1Inductive, PTL

---------------------------------------------------------------------------
(* What the modules that take Level 1's word may assume of it *)

\* The gates a later re-evaluation reads afresh.
Standing == {"grant", "global_pause", "payee_off"}

Foreign(x) == x.amount # None /\ x.amount.currency # "INR"

\* What AutoPay takes as given of a mail: all else that Level 1 has found.
EvidenceOf(c, x, f, e) ==
  CASE QuarantineReasons(c, f) # {} -> "suspect"
    [] QuarantineReasons(c, f) = {} /\ f.duplicate -> "duplicate"
    [] OTHER -> IF Blockers(c, x, f, e) \subseteq Standing /\ ~Foreign(x) THEN "clean" ELSE "doubtful"

\* The owner's switches and the payee's grant, as a clean mail meets them.
GatesOpen(x, f, e) ==
  /\ e.autoPayMode /\ e.payees[f.payee].autoPay
  /\ GrantOk(e.payees[f.payee], e.usage[f.payee], x.amount.value)

\* A clean mail has a payee and an amount, and only the gates can stop it.
LEMMA CleanIsStoppedByGates ==
  ASSUME NEW c, NEW x, NEW f, NEW e, EvidenceOf(c, x, f, e) = "clean"
  PROVE  /\ f.status = "resolved" /\ x.amount # None
         /\ QuarantineReasons(c, f) = {} /\ ~f.duplicate /\ ~Foreign(x)
         /\ Blockers(c, x, f, e) = {} <=> GatesOpen(x, f, e)
<1>1. /\ QuarantineReasons(c, f) = {} /\ ~f.duplicate /\ ~Foreign(x)
      /\ Blockers(c, x, f, e) \subseteq Standing
  BY DEF EvidenceOf
<1>2. /\ "resolution" \notin Blockers(c, x, f, e) /\ "amount" \notin Blockers(c, x, f, e)
  BY <1>1 DEF Standing
<1>3. f.status = "resolved" /\ x.amount # None
  BY <1>2 DEF Blockers, Reason
<1>4. /\ "grant" \in Blockers(c, x, f, e) <=>
            ~GrantOk(e.payees[f.payee], e.usage[f.payee], x.amount.value)
      /\ "global_pause" \in Blockers(c, x, f, e) <=> ~e.autoPayMode
      /\ "payee_off" \in Blockers(c, x, f, e) <=> ~e.payees[f.payee].autoPay
  BY <1>3 DEF Blockers, Reason
<1>5. Blockers(c, x, f, e) = {} <=> \A r \in Standing : r \notin Blockers(c, x, f, e)
  BY <1>1
<1> QED BY <1>1, <1>3, <1>4, <1>5 DEF GatesOpen, Standing

\* The decision on an identified mail is the one AutoPay derives from the
\* evidence and the gates (DecisionFor, Blocking).
DecidedByEvidence ==
  stage = "decided" /\ envelope # None =>
    verdict.decision =
      CASE EvidenceOf(cls, extraction, found, env) = "suspect" -> "quarantine"
        [] EvidenceOf(cls, extraction, found, env) = "duplicate" -> "ignore"
        [] EvidenceOf(cls, extraction, found, env) = "doubtful" -> "needs_approval"
        [] EvidenceOf(cls, extraction, found, env) = "clean" ->
             IF GatesOpen(extraction, found, env) THEN "auto_pay" ELSE "needs_approval"

\* Level 1 decides by the evidence and the gates alone.
THEOREM DecisionsByEvidence == Spec => []DecidedByEvidence
<1>1. Level1Inv => DecidedByEvidence
  <2> SUFFICES ASSUME Level1Inv, stage = "decided", envelope # None
               PROVE  DecidedByEvidence
    BY DEF DecidedByEvidence
  <2> DEFINE x == extraction
             evidence == EvidenceOf(cls, x, found, env)
             decision == Decide(cls, x, found, env)
  <2>1. verdict = CurrencyGuard(decision, x)
    BY DEF Level1Inv, DecisionInv
  <2>2. CASE QuarantineReasons(cls, found) # {}
    <3>1. evidence = "suspect" /\ decision.decision = "quarantine"
      BY <2>2 DEF EvidenceOf, Decide
    <3> QED BY <2>1, <3>1 DEF CurrencyGuard, DecidedByEvidence
  <2>3. CASE QuarantineReasons(cls, found) = {} /\ found.duplicate
    <3>1. evidence = "duplicate" /\ decision.decision = "ignore"
      BY <2>3 DEF EvidenceOf, Decide
    <3> QED BY <2>1, <3>1 DEF CurrencyGuard, DecidedByEvidence
  <2>4. CASE QuarantineReasons(cls, found) = {} /\ ~found.duplicate
    <3>1. decision.decision = IF Blockers(cls, x, found, env) = {} THEN "auto_pay"
                              ELSE "needs_approval"
      BY <2>4 DEF Decide
    <3>2. CASE evidence = "clean"
      <4>1. ~Foreign(x) /\ (Blockers(cls, x, found, env) = {} <=> GatesOpen(x, found, env))
        BY <3>2, CleanIsStoppedByGates
      <4>2. verdict.decision = decision.decision
        BY <2>1, <4>1 DEF CurrencyGuard, Foreign
      <4> QED BY <3>1, <3>2, <4>1, <4>2 DEF DecidedByEvidence
    <3>3. CASE evidence # "clean"
      <4>1. evidence = "doubtful" /\ (Blockers(cls, x, found, env) # {} \/ Foreign(x))
        BY <2>4, <3>3 DEF EvidenceOf
      <4>2. verdict.decision = "needs_approval"
        BY <2>1, <3>1, <4>1 DEF CurrencyGuard, Foreign
      <4> QED BY <4>1, <4>2 DEF DecidedByEvidence
    <3> QED BY <3>2, <3>3
  <2> QED BY <2>2, <2>3, <2>4
<1> QED BY <1>1, Level1Inductive, PTL

\* What Intake calls a payable mail, with its gates open: nothing speaks
\* against it but a replay, and every earlier mail with its reference is this
\* very invoice.
PayableMail ==
  /\ stage = "decided" /\ envelope # None
  /\ EvidenceOf(cls, extraction, [found EXCEPT !.duplicate = FALSE], env) = "clean"
  /\ GatesOpen(extraction, found, env)
  /\ Replayed = Asked

\* Such a mail is paid when it is the first and dropped when it is not, which
\* is what Intake's Verdict says of it.
THEOREM FirstIsPaid ==
  Spec => [](PayableMail => verdict.decision = IF Asked = {} THEN "auto_pay" ELSE "ignore")
<1>1. Level1Inv => (PayableMail => verdict.decision = IF Asked = {} THEN "auto_pay" ELSE "ignore")
  <2> SUFFICES ASSUME Level1Inv, PayableMail
               PROVE  verdict.decision = IF Asked = {} THEN "auto_pay" ELSE "ignore"
    OBVIOUS
  <2> DEFINE x == extraction
             first == [found EXCEPT !.duplicate = FALSE]
  <2>1. /\ cls.kind \in PayableKind /\ x \in Extracted /\ Reads(env, cls, text, x)
        /\ verdict = CurrencyGuard(Decide(cls, x, found, env), x)
        /\ found \in Finding
    BY IdentifiedType DEF Level1Inv, EnvelopeInv, DecisionInv, PayableMail
  <2>2. ~Refuses(cls)
    BY <2>1 DEF Level1Inv, ClassifiedInv, Refuses, PayableKind, PayableMail
  <2>3. PICK r \in Resolutions(env.payees, envelope.sender, x.rails, env.demo) :
          /\ found.status = r.status /\ found.payee = r.payee
          /\ found.duplicate \in Duplicates(env.history, r, x)
    BY DEF Level1Inv, EnvelopeInv, Identified, PayableMail
  <2>4. Priors(env.history, r.payee, x) = Asked
    BY <2>3 DEF Asked
  <2>5. /\ first.status = found.status /\ first.payee = found.payee
        /\ first.authPassed = found.authPassed /\ first.score = found.score
        /\ first.hardFails = found.hardFails
    BY <2>1 DEF Finding
  <2>6. /\ first.status = "resolved" /\ x.amount # None /\ ~Foreign(x)
        /\ QuarantineReasons(cls, first) = {}
        /\ Blockers(cls, x, first, env) = {} <=> GatesOpen(x, first, env)
    BY CleanIsStoppedByGates DEF PayableMail
  <2>7. /\ QuarantineReasons(cls, found) = QuarantineReasons(cls, first)
        /\ Blockers(cls, x, found, env) = Blockers(cls, x, first, env)
    BY <2>5 DEF QuarantineReasons, Blockers
  <2>8. Blockers(cls, x, found, env) = {}
    BY <2>5, <2>6, <2>7 DEF GatesOpen, PayableMail
  <2>9. /\ x.reference # None /\ ~IsFallback(x)
    <3>1. ~(x.referenceConfidence < ConfidenceBar)
      BY <2>8 DEF Blockers, Reason
    <3>2. x.referenceConfidence \in 0..100
      BY <2>1 DEF Extracted, Percent
    <3> QED BY <2>1, <2>2, <3>1, <3>2, ReadReference DEF ConfidenceBar, IsFallback
  <2>10. CASE Asked = {}
    <3>1. ~found.duplicate
      BY <2>3, <2>4, <2>10 DEF Duplicates
    <3>2. Decide(cls, x, found, env).decision = "auto_pay"
      BY <2>6, <2>7, <2>8, <3>1 DEF Decide
    <3> QED BY <2>1, <2>6, <2>10, <3>2 DEF CurrencyGuard, Foreign
  <2>11. CASE Asked # {}
    <3>1. PICK f \in Asked : found.duplicate = SameInvoice(x, f)
      BY <2>3, <2>4, <2>5, <2>6, <2>9, <2>11 DEF Duplicates
    <3>2. f \in Replayed
      BY DEF PayableMail
    <3>3. found.duplicate
      BY <2>9, <3>1, <3>2 DEF SameInvoice, Replayed
    <3>4. Decide(cls, x, found, env).decision = "ignore"
      BY <2>6, <2>7, <3>3 DEF Decide
    <3> QED BY <2>1, <2>11, <3>4 DEF CurrencyGuard
  <2> QED BY <2>10, <2>11
<1> QED BY <1>1, Level1Inductive, PTL

=============================================================================
