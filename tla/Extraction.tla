----------------------------- MODULE Extraction -----------------------------
(***************************************************************************)
(* What the program reads out of one mail: the junk filter, the rule       *)
(* cascade and the language model of the classifier, the deterministic     *)
(* extractor and the language model's answer held against it               *)
(* (worker/src/junk-filter.ts, classifier.ts, llm-classifier.ts,           *)
(* extractor.ts, llm-extractor.ts).                                        *)
(*                                                                         *)
(* A regular expression is one mark, figure or reference that it finds or  *)
(* does not find in the text; a confidence is a percentage.  What the      *)
(* patterns match is the mail's, what a language model answers is anything *)
(* at all: both are inputs.                                                *)
(***************************************************************************)
EXTENDS Naturals, Sequences

CONSTANTS
  Rail,         \* payment methods, normalised: a VPA, or an account and IFSC
  Reference,    \* invoice numbers as they are spelled
  Canonical,    \* Canonical[r]: r trimmed, without spaces, in capitals
  Hash,         \* the fallback reference: a hash of payee, amount and date
  None          \* null

ASSUME ReferenceAssumption ==
  /\ Hash \in Reference
  /\ Canonical \in [Reference -> Reference]
ASSUME NullAssumption == None \notin Rail \union Reference

---------------------------------------------------------------------------
(* Types *)

Percent == 0..100

\* The patterns of the classifier, by what they find: "settled" stands for the
\* receipt and the credit-note pattern together.
Mark == {"injection", "settled", "reminder", "statement", "scam", "invoice",
         "amount", "request", "notice", "editorial"}

Kind == {"invoice", "payment_request", "reminder", "receipt", "statement", "unrelated"}

PayableKind == {"invoice", "payment_request", "reminder"}

\* What is stored of it: junk is "ignored".
Classification == [kind : Kind \union {"ignored"}, confidence : Percent, injection : BOOLEAN]

Amount == [value : Nat, currency : {"INR", "USD"}]

\* One amount in the text with its line: a total, a deposit or a subtotal.
Figure == [amount : Amount, total : BOOLEAN, partial : BOOLEAN]

\* What the extractor's patterns find in subject and body.  "line" is a line
\* "Payee Name: ...", which the looser payee label matches too.
Text == [figures : Seq(Figure),
         totalLine : Amount \union {None},      \* the last line "Total: INR 500.00"
         labelled : Reference \union {None},    \* after "Invoice Number"
         mentioned : Reference \union {None},   \* after "Invoice" alone
         dated : BOOLEAN,
         payee : {"line", "label", "sender", "none"},
         rails : Seq(Rail)]

Extracted == [payeeConfidence : Percent,
              amount : Amount \union {None},
              amountConfidence : Percent,
              reference : Reference \union {None},
              referenceConfidence : Percent,
              rails : Seq(Rail),
              railConfidence : Percent]

Nothing == [payeeConfidence |-> 0, amount |-> None, amountConfidence |-> 0,
            reference |-> None, referenceConfidence |-> 0, rails |-> <<>>, railConfidence |-> 0]

---------------------------------------------------------------------------
(* The junk filter *)

\* What the filter looks at: "rupees" is an amount in rupees anywhere, "asked"
\* one in the context of a request ("amount due 500"), "listed" a
\* List-Unsubscribe header.
JunkSign == {"calendar", "receipt", "rupees", "asked", "listed", "attached"}

\* shouldIgnoreInitialJunk
Junk(signs) ==
  \/ "calendar" \in signs
  \/ "receipt" \in signs /\ "asked" \notin signs
  \/ "listed" \in signs /\ signs \intersect {"attached", "rupees", "asked"} = {}

---------------------------------------------------------------------------
(* The classifier's rules, in order of priority *)

Rule(rank, needs, kind, confidence) ==
  [rank |-> rank, needs |-> needs,
   says |-> [kind |-> kind, confidence |-> confidence, injection |-> "injection" \in needs]]

Rules == {
  Rule(1, {"injection"}, "unrelated", 100),
  Rule(2, {"settled"}, "receipt", 90),
  Rule(3, {"reminder"}, "reminder", 85),
  Rule(4, {"statement"}, "statement", 92),
  Rule(5, {"scam"}, "unrelated", 90),
  Rule(6, {"invoice"}, "invoice", 90),
  Rule(7, {"amount", "request"}, "payment_request", 85),
  Rule(8, {"amount"}, "unrelated", 85),
  Rule(9, {"request"}, "unrelated", 20),
  Rule(10, {"notice"}, "unrelated", 90),
  Rule(11, {"editorial"}, "unrelated", 95),
  Rule(12, {}, "unrelated", 20)}

Applies(rule, marks) == rule.needs \subseteq marks

\* classifyEmail: the first rule that applies wins.
ClassifyByRules(marks) ==
  (CHOOSE rule \in Rules : /\ Applies(rule, marks)
                           /\ \A other \in Rules : Applies(other, marks) => rule.rank <= other.rank).says

\* (Mutation: the model is asked first, whatever the scan has found.)
ClassifyByModelFirst(marks, answer) ==
  IF answer \in [kind : Kind, confidence : Percent]
  THEN [kind |-> answer.kind, confidence |-> answer.confidence, injection |-> FALSE]
  ELSE ClassifyByRules(marks)

\* classifyEmailWithLLM: the model is not asked about a mail that the
\* injection scan has caught, and only a valid answer is taken.  Any other
\* (None: no answer at all) leaves the rules' own.
ClassifyByModel(marks, answer) ==
  IF ~ClassifyByRules(marks).injection /\ answer \in [kind : Kind, confidence : Percent]
  THEN [kind |-> answer.kind, confidence |-> answer.confidence, injection |-> FALSE]
  ELSE ClassifyByRules(marks)

---------------------------------------------------------------------------
(* The deterministic extractor *)

Totals(figures) == {i \in DOMAIN figures : figures[i].total /\ ~figures[i].partial}
Wholes(figures) == {i \in DOMAIN figures : ~figures[i].partial}

First(S) == CHOOSE i \in S : \A j \in S : i <= j

\* extractAmount: the first labelled total, else the only figure that is not
\* a deposit or a subtotal, else no guess.
AmountOf(figures) ==
  IF Totals(figures) # {} THEN figures[First(Totals(figures))].amount
  ELSE IF \E i \in Wholes(figures) : Wholes(figures) = {i}
  THEN figures[First(Wholes(figures))].amount
  ELSE None

PayeeConfidence(text) ==
  CASE text.payee \in {"line", "label"} -> 90
    [] text.payee = "sender" -> 75
    [] text.payee = "none" -> 0

\* extractReference and fallbackReference: value and confidence.
ReferenceOf(text) ==
  CASE text.labelled # None -> <<text.labelled, 100>>
    [] text.labelled = None /\ text.mentioned # None -> <<text.mentioned, 90>>
    [] OTHER -> IF text.payee # "none" /\ AmountOf(text.figures) # None /\ text.dated
                THEN <<Hash, 60>> ELSE <<None, 0>>

\* It refuses to run on what the classifier has not called payable.
Refuses(cls) == cls.injection \/ cls.kind \notin PayableKind

\* extractPaymentDetails
ExtractByRules(cls, text) ==
  IF Refuses(cls) THEN Nothing
  ELSE [payeeConfidence |-> PayeeConfidence(text),
        amount |-> AmountOf(text.figures),
        amountConfidence |-> IF AmountOf(text.figures) = None THEN 0 ELSE 95,
        reference |-> ReferenceOf(text)[1],
        referenceConfidence |-> ReferenceOf(text)[2],
        rails |-> text.rails,
        railConfidence |-> IF text.rails = <<>> THEN 0 ELSE 90]

---------------------------------------------------------------------------
(* The language model's answer *)

\* (Mutation: whatever the model answers is taken.)
AnyAnswer(answer) == answer # None

\* parseLLMExtractorOutput: a value that is not there has no confidence.
ValidAnswer(answer) ==
  /\ answer \in Extracted
  /\ answer.amount = None => answer.amountConfidence = 0
  /\ answer.reference = None => answer.referenceConfidence = 0
  /\ answer.rails = <<>> => answer.railConfidence = 0

Min2(a, b) == IF a <= b THEN a ELSE b
Max2(a, b) == IF a <= b THEN b ELSE a

Agree(r, s) == Canonical[r] = Canonical[s]

\* (Mutation: the model's reference is kept at the confidence it claims.)
TrustReference(answer, source) ==
  CASE source.reference = None -> answer
    [] source.reference # None /\ answer.reference = None ->
         [answer EXCEPT !.reference = source.reference,
                        !.referenceConfidence = source.referenceConfidence]
    [] OTHER -> [answer EXCEPT !.referenceConfidence = Max2(@, source.referenceConfidence)]

\* corroborateReferenceWithSource
CorroborateReference(answer, source) ==
  CASE source.reference = None -> answer
    [] source.reference # None /\ answer.reference = None ->
         [answer EXCEPT !.reference = source.reference,
                        !.referenceConfidence = source.referenceConfidence]
    [] OTHER ->
         [answer EXCEPT !.referenceConfidence =
            IF Agree(answer.reference, source.reference)
            THEN Max2(@, source.referenceConfidence) ELSE Min2(@, 50)]

\* corroborateAmountWithSource: a total line stands in for an amount that is
\* missing or doubtful, at 85 percent.
BackstopConfidence == 85

CorroborateAmount(x, text) ==
  IF text.totalLine = None \/ (x.amount # None /\ x.amountConfidence >= BackstopConfidence)
  THEN x
  ELSE [x EXCEPT !.amount = text.totalLine, !.amountConfidence = BackstopConfidence]

\* corroboratePayeeNameWithSource
CorroboratePayee(x, text) ==
  IF text.payee = "line" THEN [x EXCEPT !.payeeConfidence = 100] ELSE x

\* extractPaymentDetailsWithLLM: an answer that is late, missing or invalid
\* leaves the deterministic extraction.
ExtractByModel(cls, text, answer) ==
  LET source == ExtractByRules(cls, text)
      taken == IF ValidAnswer(answer) THEN CorroborateReference(answer, source) ELSE source
  IN IF Refuses(cls) THEN source
     ELSE CorroboratePayee(CorroborateAmount(taken, text), text)

=============================================================================
