------------------------------ MODULE MCLevel1 ------------------------------
(***************************************************************************)
(* Inputs for Level1's run.  Every stage starts from the mail that is paid *)
(* automatically and departs from it in one respect, so a path departs in  *)
(* as many respects as there are stages.                                   *)
(***************************************************************************)
EXTENDS Level1

CONSTANTS p1, p2, s1, s2, alike, stranger, r1, r2, r3, inv, INV, inv2, hash, d1, d2, d0, ds,
          m1, m2

Payees == {p1, p2}
Senders == {s1, s2, alike, stranger}
Domains == [s \in Senders |-> CASE s = s1 -> d1 [] s = s2 -> d2 [] s = alike -> d0 [] OTHER -> ds]
Skeletons == [d \in {d1, d2, d0, ds} |-> IF d = d0 THEN d1 ELSE d]
Rails == {r1, r2, r3}
References == {inv, INV, inv2, hash}
Canonicals == [r \in References |-> IF r = inv THEN INV ELSE r]
Emails == {m1, m2}

Rupees(n) == [value |-> n, currency |-> "INR"]

\* Mails the junk filter drops and mails it keeps.
Signs == {{}, {"calendar"}, {"receipt"}, {"receipt", "asked"}, {"listed", "attached"}}

Marks == {{"invoice", "amount"}, {"invoice", "injection"}, {"invoice", "settled"},
          {"reminder", "invoice"}, {"statement"}, {"scam", "invoice"}, {"amount", "request"},
          {"amount"}, {"request"}, {"notice"}, {"editorial"}, {}}

KindAnswers == {None, [kind |-> "payment_request", confidence |-> 95],
                [kind |-> "receipt", confidence |-> 99],
                [kind |-> "refund", confidence |-> 95]}

CleanText == [figures |-> <<[amount |-> Rupees(5), total |-> TRUE, partial |-> FALSE]>>,
              totalLine |-> None, labelled |-> inv, mentioned |-> None, dated |-> TRUE,
              payee |-> "line", rails |-> <<r1>>]

Unlabelled == <<[amount |-> Rupees(5), total |-> FALSE, partial |-> FALSE],
                [amount |-> Rupees(3), total |-> FALSE, partial |-> FALSE]>>

Texts == {CleanText,
          [CleanText EXCEPT !.rails = <<r3>>],
          [CleanText EXCEPT !.rails = <<r2>>],
          [CleanText EXCEPT !.rails = <<r1, r2>>],
          [CleanText EXCEPT !.rails = <<>>, !.payee = "sender"],
          [CleanText EXCEPT !.figures = Unlabelled],
          [CleanText EXCEPT !.figures = Unlabelled, !.totalLine = Rupees(5)],
          [CleanText EXCEPT !.figures[1].amount.currency = "USD"],
          [CleanText EXCEPT !.labelled = None, !.mentioned = INV],
          [CleanText EXCEPT !.labelled = None]}

CleanAnswer == [payeeConfidence |-> 95, amount |-> Rupees(5), amountConfidence |-> 95,
                reference |-> INV, referenceConfidence |-> 95,
                rails |-> <<r1>>, railConfidence |-> 95]

FieldAnswers == {None,
                 CleanAnswer,
                 [CleanAnswer EXCEPT !.reference = inv2],
                 [CleanAnswer EXCEPT !.reference = None, !.referenceConfidence = 0],
                 [CleanAnswer EXCEPT !.amountConfidence = 60],
                 [CleanAnswer EXCEPT !.amount = Rupees(9)],
                 [CleanAnswer EXCEPT !.rails = <<r2>>],
                 [CleanAnswer EXCEPT !.railConfidence = 950]}

CleanEnvelope == [sender |-> s1, dmarc |-> "aligned", spf |-> "none", dkim |-> "none",
                  replyElsewhere |-> FALSE, foreignLink |-> FALSE]

Envelopes == {CleanEnvelope,
              [CleanEnvelope EXCEPT !.sender = s2],
              [CleanEnvelope EXCEPT !.sender = alike],
              [CleanEnvelope EXCEPT !.sender = stranger],
              [CleanEnvelope EXCEPT !.dmarc = "pass"],
              [CleanEnvelope EXCEPT !.dmarc = "none", !.spf = "aligned", !.dkim = "aligned"],
              [CleanEnvelope EXCEPT !.dmarc = "none", !.spf = "pass", !.dkim = "aligned"],
              [CleanEnvelope EXCEPT !.foreignLink = TRUE, !.replyElsewhere = TRUE]}

Row(s, r) == [sender |-> s, rails |-> {r}, grantApproved |-> TRUE, active |-> TRUE,
              expired |-> FALSE, autoPay |-> TRUE, perPayment |-> 9, total |-> 9, payments |-> 2]

Print1(e, r, f, n) == [email |-> e, payee |-> p1, reference |-> r, fallback |-> f,
                       amount |-> Rupees(n)]

CleanEnv == [payees |-> [p \in Payees |-> IF p = p1 THEN Row(s1, r1) ELSE Row(s2, r2)],
             usage |-> [p \in Payees |-> [paid |-> 0, count |-> 0]],
             history |-> {},
             autoPayMode |-> TRUE, demo |-> FALSE, classifier |-> "rules", extractor |-> "rules"]

Departures == {CleanEnv,
               [CleanEnv EXCEPT !.payees[p1].grantApproved = FALSE],
               [CleanEnv EXCEPT !.payees[p1].active = FALSE],
               [CleanEnv EXCEPT !.payees[p1].expired = TRUE],
               [CleanEnv EXCEPT !.payees[p1].autoPay = FALSE],
               [CleanEnv EXCEPT !.usage[p1] = [paid |-> 6, count |-> 1]],
               [CleanEnv EXCEPT !.usage[p1] = [paid |-> 2, count |-> 2]],
               [CleanEnv EXCEPT !.autoPayMode = FALSE],
               [CleanEnv EXCEPT !.demo = TRUE],
               [CleanEnv EXCEPT !.history = {Print1(m1, inv, FALSE, 5)}],
               [CleanEnv EXCEPT !.history = {Print1(m1, inv, FALSE, 3)}],
               [CleanEnv EXCEPT !.history = {Print1(m1, inv, TRUE, 5), Print1(m2, hash, TRUE, 5)}],
               [CleanEnv EXCEPT !.history = {Print1(m1, inv, TRUE, 5), Print1(m2, inv, FALSE, 5)}],
               [CleanEnv EXCEPT !.history = {Print1(m1, inv, FALSE, 5), Print1(m2, inv, FALSE, 3)}]}

Environments == {[e EXCEPT !.classifier = mode, !.extractor = mode] :
                   e \in Departures, mode \in {"rules", "llm"}}

=============================================================================
