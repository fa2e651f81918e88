------------------------------- MODULE AutoPay -------------------------------
(***************************************************************************)
(* What is paid without the owner, and what is bought to check it          *)
(* (worker/src/auto-pay-runner.ts, auto-pay-gate.ts, reevaluate-policy.ts, *)
(* resume-auto-pay.ts, paid-verification.ts, x402-verifier.ts,             *)
(* payment-usage.ts; app/app/actions.ts, app/app/payee-actions.ts).        *)
(*                                                                         *)
(* The invoices of one payee, each asking for an amount of one.  Level 1's *)
(* evidence on an invoice is given; what is decided from it changes with   *)
(* the payee and the mode.  Calls read, compute and write in steps of      *)
(* their own; they overlap and may stop anywhere.  Perflo is external.     *)
(***************************************************************************)
EXTENDS Naturals, FiniteSets

CONSTANTS
  Invoice,
  Caller,       \* server actions, polls, command lines: numbers
  MaxPayments,  \* the grant's maxPayments, for the payee's caps
  Budget,       \* the x402 budget of an invoice
  Checks,       \* the checks it takes: the sender, and each link
  Evidence,     \* bound: what Level 1 makes of the mails, a set of functions
  MaxCalls,     \* bound: calls in a run
  MaxChanges    \* bound: how often the mode or the payee changes

ASSUME AutoPayAssumption ==
  /\ Invoice # {} /\ IsFiniteSet(Invoice)
  /\ Caller \subseteq Nat
  /\ Evidence \subseteq [Invoice -> {"clean", "doubtful", "duplicate", "suspect"}]
  /\ MaxPayments \in Nat /\ Budget \in Nat \ {0} /\ Checks \in Nat
  /\ MaxCalls \in Nat /\ MaxChanges \in Nat

VARIABLES
  evidence,     \* what Level 1 makes of each mail
  autoPayMode,  \* AUTO_PAY_MODE is "on"
  payeeOn,      \* autoPayEnabled is on, and the grant active and not expired
  judged,       \* invoices with level1ProcessedAt
  decision,     \* policyDecision, "null" before there is one
  reasons,      \* policyReasons
  checked,      \* verificationResult.paidChecks.status, "none" without
  intent,       \* status of the invoice's payment intent
  call,         \* what each caller is doing
  \* history of the run; the last two until calls cross
  calls, changes,
  crossed,      \* two calls have run at once
  doubted,      \* the outcome of a payment has been uncertain
  spentOn,      \* what Perflo has charged for checks, up to one over the budget
  untracked     \* invoices with a charge without price, or whose evidence was lost

switchVars == <<evidence, autoPayMode, payeeOn>>
invoiceVars == <<judged, decision, reasons, checked>>
tallyVars == <<calls, changes, crossed, doubted, untracked>>
autoPayVars == <<switchVars, invoiceVars, intent, call, spentOn, tallyVars>>

Cause == {"pause", "payee", "unverified", "doubtful", "duplicate", "suspect"}
Job == {"none", "open", "confirm", "ingest", "retry", "reevaluate", "resume"}
Place == {"idle", "next", "row", "decide", "evidence", "buy", "gate", "claim", "pay"}

Call == [job : Job, place : Place,
         queue : SUBSET Invoice,             \* candidates to come
         on : Invoice,                       \* the invoice in hand
         why : SUBSET Cause,                 \* reasons it has read, or decided on
         outcome : {"none", "verified", "unverified"},
         toBuy : 0..Checks, left : 0..Budget,    \* checks to come, and what they may cost
         \* history: changed since the call looked at it
         payeeMoved : BOOLEAN, modeMoved : BOOLEAN]

NoCall == [job |-> "none", place |-> "idle", queue |-> {}, on |-> CHOOSE e \in Invoice : TRUE,
           why |-> {}, outcome |-> "none", toBuy |-> 0, left |-> 0,
           payeeMoved |-> FALSE, modeMoved |-> FALSE]

At(a, place) == call[a].place = place
Hand(a) == call[a].on
Without(a) == call[a].job \in {"ingest", "resume"}     \* it pays without the owner

Go(a, place) == call' = [call EXCEPT ![a].place = place]

\* A call with invoices to come, or none.
NextInvoice(queue) ==
  IF queue = {} THEN NoCall ELSE [NoCall EXCEPT !.job = "resume", !.place = "next", !.queue = queue]

\* The invoice in hand is done with: a resumption goes on to its next one.
FinishInvoice(a) == call' = [call EXCEPT ![a] = NextInvoice(@.queue)]

---------------------------------------------------------------------------
(* The policy, as far as it changes *)

\* (Mutation: the cap is passed by one.)
OverByOne(count) == count > MaxPayments

CapReached(count) == count >= MaxPayments

\* loadPayeeUsage counts the payments that have landed.
PaidCount == Cardinality({e \in Invoice : intent[e] = "paid"})

\* (Mutation: of the verification result only the declared fields are passed.)
ForgetsUnverified(check) == FALSE

\* The stored verificationResult is handed on whole.
Unverified(check) == check = "unverified"

\* What stands against paying e, given what is stored of its paid checks.
Blocking(e, check) ==
  IF evidence[e] \in {"suspect", "duplicate"} THEN {evidence[e]}
  ELSE {r \in Cause : \/ r = "doubtful" /\ evidence[e] = "doubtful"
                      \/ r = "pause" /\ ~autoPayMode
                      \/ r = "payee" /\ (~payeeOn \/ CapReached(PaidCount))
                      \/ r = "unverified" /\ Unverified(check)}

DecisionFor(why) ==
  CASE why = {} -> "auto_pay"
    [] why = {"suspect"} -> "quarantine"
    [] why = {"duplicate"} -> "ignore"
    [] OTHER -> "needs_approval"

\* Bound: at first Level 1 has decided all invoices with the mode off, or none
\* with the mode on.
AutoPayInit ==
  /\ evidence \in Evidence /\ autoPayMode \in BOOLEAN /\ payeeOn = TRUE
  /\ checked = [e \in Invoice |-> "none"]
  /\ intent = [e \in Invoice |-> "absent"]
  /\ judged = IF autoPayMode THEN {} ELSE Invoice
  /\ reasons = [e \in Invoice |-> IF e \in judged THEN Blocking(e, "none") ELSE {}]
  /\ decision = [e \in Invoice |-> IF e \in judged THEN DecisionFor(reasons[e]) ELSE "null"]
  /\ call = [a \in Caller |-> NoCall]
  /\ spentOn = [e \in Invoice |-> 0]
  /\ calls = 0 /\ changes = 0 /\ crossed = FALSE /\ doubted = FALSE /\ untracked = {}

---------------------------------------------------------------------------
(* Calls begin.  Bounds: the least idle caller takes the next call, and none
   begins after one that overlaps another. *)

AllIdle(S) == \A b \in S : At(b, "idle")

Start(a, job, place, e, queue) ==
  /\ At(a, "idle") /\ calls < MaxCalls /\ ~crossed
  /\ \A b \in Caller : At(b, "idle") => a <= b
  /\ calls' = calls + 1
  /\ crossed' = ~AllIdle(Caller)
  /\ call' = [call EXCEPT ![a] = [NoCall EXCEPT !.job = job, !.place = place,
                                                !.on = e, !.queue = queue]]
  /\ UNCHANGED <<switchVars, intent, spentOn, changes, doubted>>

Unstarted(e) == intent[e] \in {"absent", "pending"}

\* runPaidVerificationAction; preparePayment and confirmPayment
Open(a, e) ==
  /\ \E job \in {"open", "confirm"} : Start(a, job, "evidence", e, {})
  /\ UNCHANGED <<invoiceVars, untracked>>

\* A poll processes a row that is not decided.
Ingest(a, e) ==
  /\ e \notin judged
  /\ Start(a, "ingest", "row", e, {})
  /\ UNCHANGED <<invoiceVars, untracked>>

Untracked(e) == IF crossed THEN untracked ELSE untracked \union {e}
Lost(e) == IF spentOn[e] > 0 THEN Untracked(e) ELSE untracked

\* retryReviewProcessing clears the row; then Level 1 runs without auto-pay.
Retry(a, e) ==
  /\ Unstarted(e)
  /\ Start(a, "retry", "row", e, {})
  /\ judged' = judged \ {e}
  /\ decision' = [decision EXCEPT ![e] = "null"]
  /\ reasons' = [reasons EXCEPT ![e] = {}]
  /\ checked' = [checked EXCEPT ![e] = "none"]
  /\ untracked' = Lost(e)

\* reevaluatePolicyAction
Reevaluate(a, e) == Start(a, "reevaluate", "row", e, {}) /\ UNCHANGED <<invoiceVars, untracked>>

\* resumeAutoPayForEligibleInvoices reads its candidates once.
Candidates == {e \in Invoice : decision[e] = "needs_approval" /\ reasons[e] = {"pause"}}

Resume(a) ==
  /\ Candidates # {}
  /\ Start(a, "resume", "next", NoCall.on, Candidates)
  /\ UNCHANGED <<invoiceVars, untracked>>

---------------------------------------------------------------------------
(* Deciding: reevaluatePolicy, or Level 1 *)

\* reevaluatePolicy takes invoices that Level 1 is through with and whose
\* payment has not begun; another is an error, which a resumption passes over.
Decidable(a, e) == \/ call[a].job \in {"ingest", "retry"}
                   \/ Unstarted(e) /\ e \in judged

\* (Mutation: the stored decision stands, without the pause.)
StoredReasons(a, e) == reasons[e] \ {"pause"}

\* The payee, its use and the mode are read anew.  Level 1 has no paid checks.
FreshReasons(a, e) ==
  Blocking(e, IF call[a].job \in {"ingest", "retry"} THEN "none" ELSE checked[e])

\* A resumption takes its next candidate.
ReadInvoice(a) ==
  /\ At(a, "next") \/ At(a, "row")
  /\ \E e \in IF At(a, "next") THEN call[a].queue ELSE {Hand(a)} :
       call' = [call EXCEPT ![a] = IF Decidable(a, e)
                                   THEN [call[a] EXCEPT !.on = e, !.queue = @ \ {e},
                                                        !.place = "decide", !.why = FreshReasons(a, e)]
                                   ELSE NextInvoice(call[a].queue \ {e})]
  /\ UNCHANGED <<switchVars, invoiceVars, intent, spentOn, tallyVars>>

\* The decision is written over whatever the row says; Level 1 writes over its
\* evidence too.
WriteDecision(a) ==
  LET e == Hand(a)
      level1 == call[a].job \in {"ingest", "retry"}
  IN
  /\ At(a, "decide")
  /\ decision' = [decision EXCEPT ![e] = DecisionFor(call[a].why)]
  /\ reasons' = [reasons EXCEPT ![e] = call[a].why]
  /\ judged' = judged \union {e}
  /\ checked' = IF level1 THEN [checked EXCEPT ![e] = "none"] ELSE checked
  /\ untracked' = IF level1 THEN Lost(e) ELSE untracked
  /\ IF call[a].why = {} /\ Without(a) THEN Go(a, "evidence") ELSE FinishInvoice(a)
  /\ UNCHANGED <<switchVars, intent, spentOn, calls, changes, crossed, doubted>>

---------------------------------------------------------------------------
(* Paid checks: runPaidVerifierForEmail *)

\* The call goes on with the outcome of the checks.
Onward(a, outcome) ==
  CASE call[a].job = "open" -> NoCall
    [] call[a].job = "confirm" -> [call[a] EXCEPT !.place = "claim", !.why = {}, !.outcome = "none",
                                                  !.toBuy = 0, !.left = 0]
    [] OTHER -> [call[a] EXCEPT !.place = "gate", !.why = {}, !.outcome = outcome,
                                !.toBuy = 0, !.left = 0]

\* existingPaidChecks
IsEvidence(check) == check # "none"

ReadEvidence(a) ==
  /\ At(a, "evidence")
  /\ call' = [call EXCEPT ![a] = IF IsEvidence(checked[Hand(a)]) THEN Onward(a, checked[Hand(a)])
                                 ELSE [@ EXCEPT !.place = "buy", !.why = reasons[Hand(a)],
                                                !.toBuy = Checks, !.left = Budget]]
  /\ UNCHANGED <<switchVars, invoiceVars, intent, spentOn, tallyVars>>

\* (Mutation: every check has the whole budget.)
WholeBudget(left, cost) == left

LeftAfter(left, cost) == left - cost

Charge(e, cost) ==
  spentOn' = IF crossed THEN spentOn
             ELSE [spentOn EXCEPT ![e] = IF @ + cost > Budget THEN Budget + 1 ELSE @ + cost]

\* (Mutation: the new reason replaces the row's.)
OnlyUnverified(a) == {"unverified"}

ReasonsAfterChecks(a) == call[a].why \union {"unverified"}

\* The evidence is written over what was read before the checks; without a
\* verified outcome the row waits for the owner, whatever it was.
WriteEvidence(a, outcome) ==
  LET e == Hand(a) IN
  /\ checked' = [checked EXCEPT ![e] = outcome]
  /\ IF outcome = "unverified"
     THEN /\ decision' = [decision EXCEPT ![e] = "needs_approval"]
          /\ reasons' = [reasons EXCEPT ![e] = ReasonsAfterChecks(a)]
     ELSE UNCHANGED <<decision, reasons>>
  /\ call' = [call EXCEPT ![a] = Onward(a, outcome)]
  /\ UNCHANGED judged

\* The next check of runPaidVerifierChecks, for no more than what is left.  It
\* settles, with a price or without one (costMinor ?? 0 then counts it as
\* nothing), or it does not or throws, charged or not, and ends the checks.
\* Nobody looks at the charges between the last check and the evidence.
BuyCheck(a) ==
  /\ At(a, "buy") /\ call[a].toBuy > 0 /\ call[a].left > 0
  /\ \E cost \in 0..call[a].left :
       /\ Charge(Hand(a), cost)
       /\ \/ /\ call' = [call EXCEPT ![a].toBuy = @ - 1, ![a].left = LeftAfter(@, cost)]
             /\ UNCHANGED <<invoiceVars, untracked>>
          \/ /\ cost > 0
             /\ call' = [call EXCEPT ![a].toBuy = @ - 1]
             /\ untracked' = Untracked(Hand(a))
             /\ UNCHANGED invoiceVars
          \/ WriteEvidence(a, "unverified") /\ UNCHANGED untracked
  /\ UNCHANGED <<switchVars, intent, calls, changes, crossed, doubted>>

\* All checks have settled, or nothing is left for the next.
EndChecks(a) ==
  /\ At(a, "buy") /\ (call[a].toBuy = 0 \/ call[a].left = 0)
  /\ WriteEvidence(a, IF call[a].toBuy = 0 THEN "verified" ELSE "unverified")
  /\ UNCHANGED <<switchVars, intent, spentOn, tallyVars>>

---------------------------------------------------------------------------
(* Paying *)

\* (Mutation: the paid checks are for the record.)
AnyOutcome(a) == TRUE

CheckPassed(a) == call[a].outcome = "verified"

\* runAutoPayIfEligible: the checks, and the mode once more.
Gate(a) ==
  /\ At(a, "gate")
  /\ IF CheckPassed(a) /\ autoPayMode
     THEN call' = [call EXCEPT ![a].place = "claim", ![a].outcome = "none"]
     ELSE FinishInvoice(a)
  /\ UNCHANGED <<switchVars, invoiceVars, intent, spentOn, tallyVars>>

\* (Mutation: whatever has not been paid yet.)
Unpaid(e) == intent[e] # "paid"

Claimable(e) == intent[e] \in {"absent", "pending", "failed"}

\* The upsert of the intent and executePreparedPayment's claim.
ClaimIntent(a) ==
  LET e == Hand(a) IN
  /\ At(a, "claim")
  /\ IF Claimable(e)
     THEN intent' = [intent EXCEPT ![e] = "claimed"] /\ Go(a, "pay")
     ELSE FinishInvoice(a) /\ UNCHANGED intent
  /\ UNCHANGED <<switchVars, invoiceVars, spentOn, tallyVars>>

RecordPayment(a) ==
  /\ At(a, "pay")
  /\ \E result \in {"paid", "failed", "unknown_outcome"} :
       /\ intent' = [intent EXCEPT ![Hand(a)] = result]
       /\ doubted' = (doubted \/ result = "unknown_outcome")
  /\ FinishInvoice(a)
  /\ UNCHANGED <<switchVars, invoiceVars, spentOn, calls, changes, crossed, untracked>>

\* The reconciler settles what is uncertain.
Settle(e) ==
  /\ intent[e] = "unknown_outcome"
  /\ \E result \in {"paid", "failed"} : intent' = [intent EXCEPT ![e] = result]
  /\ UNCHANGED <<switchVars, invoiceVars, call, spentOn, tallyVars>>

\* The database throws or the process dies, in the middle of a check after any
\* charge for it.  The claim of a payment is given up later.
StopCall(a) ==
  LET e == Hand(a) IN
  /\ ~At(a, "idle")
  /\ call' = [call EXCEPT ![a] = NoCall]
  /\ \E cost \in 0..call[a].left : (cost > 0 => call[a].toBuy > 0) /\ Charge(e, cost)
  /\ untracked' = IF At(a, "buy") /\ spentOn'[e] > 0 THEN Untracked(e) ELSE untracked
  /\ IF At(a, "pay")
     THEN intent' = [intent EXCEPT ![e] = "unknown_outcome"] /\ doubted' = TRUE
     ELSE UNCHANGED <<intent, doubted>>
  /\ UNCHANGED <<switchVars, invoiceVars, calls, changes, crossed>>

---------------------------------------------------------------------------
(* The payee and the mode *)

\* A call that may yet pay without the owner and has read the payee.
PastPayee(a) == Without(a) /\ call[a].place \in {"decide", "evidence", "buy", "gate", "claim"}

\* toggleAutoPayAction, and the approval or expiry of the grant
PayeeChanges ==
  /\ changes < MaxChanges /\ changes' = changes + 1
  /\ payeeOn' = ~payeeOn
  /\ call' = [a \in Caller |-> [call[a] EXCEPT !.payeeMoved = @ \/ PastPayee(a)]]
  /\ UNCHANGED <<evidence, autoPayMode, invoiceVars, intent, spentOn, calls, crossed, doubted, untracked>>

\* The process environment
ModeChanges ==
  /\ changes < MaxChanges /\ changes' = changes + 1
  /\ autoPayMode' = ~autoPayMode
  /\ call' = [a \in Caller |-> [call[a] EXCEPT !.modeMoved = @ \/ (Without(a) /\ At(a, "claim"))]]
  /\ UNCHANGED <<evidence, payeeOn, invoiceVars, intent, spentOn, calls, crossed, doubted, untracked>>

CallStep(a) ==
  \/ ReadInvoice(a) \/ WriteDecision(a) \/ ReadEvidence(a)
  \/ BuyCheck(a) \/ EndChecks(a) \/ Gate(a) \/ ClaimIntent(a) \/ RecordPayment(a)

StartCall(a) ==
  \/ Resume(a)
  \/ \E e \in Invoice : Open(a, e) \/ Ingest(a, e) \/ Retry(a, e) \/ Reevaluate(a, e)

AutoPayNext ==
  \/ PayeeChanges \/ ModeChanges
  \/ \E e \in Invoice : Settle(e)
  \/ \E a \in Caller : StartCall(a) \/ CallStep(a) \/ StopCall(a)

AutoPaySpec == AutoPayInit /\ [][AutoPayNext]_autoPayVars

---------------------------------------------------------------------------
(* Properties *)

\* Types; an intent is claimed only while one call is paying it.
AutoPayTypeOK ==
  /\ evidence \in Evidence /\ autoPayMode \in BOOLEAN /\ payeeOn \in BOOLEAN
  /\ judged \subseteq Invoice
  /\ decision \in [Invoice -> {"null", "auto_pay", "needs_approval", "quarantine", "ignore"}]
  /\ reasons \in [Invoice -> SUBSET Cause]
  /\ checked \in [Invoice -> {"none", "verified", "unverified"}]
  /\ intent \in [Invoice -> {"absent", "pending", "claimed", "paid", "failed", "unknown_outcome"}]
  /\ call \in [Caller -> Call]
  /\ spentOn \in [Invoice -> 0..Budget + 1]
  /\ calls \in 0..MaxCalls /\ changes \in 0..MaxChanges
  /\ crossed \in BOOLEAN /\ doubted \in BOOLEAN /\ untracked \subseteq Invoice
  /\ \A e \in Invoice : intent[e] = "claimed" => \E a \in Caller : At(a, "pay") /\ Hand(a) = e
  /\ \A a, b \in Caller : At(a, "pay") /\ At(b, "pay") /\ Hand(a) = Hand(b) => a = b

\* Auto-pay claims e in this step, in the hands of a.
AutoClaims(a, e) ==
  Without(a) /\ At(a, "claim") /\ Hand(a) = e /\ intent[e] # "claimed" /\ intent'[e] = "claimed"

\* What resume-auto-pay.ts promises ("every guardrail ... is re-checked live"):
\* an invoice paid without the owner is one that Level 1 found nothing wrong
\* with, of a payee whose grant and toggle are on, in a mode that is on.  What
\* changes while a call has the invoice in hand comes too late: the payee is
\* not looked at after the decision, nor the mode after the gate.
AutoPayDue ==
  [][\A a \in Caller, e \in Invoice : AutoClaims(a, e) =>
       /\ evidence[e] = "clean"
       /\ payeeOn \/ call[a].payeeMoved
       /\ autoPayMode \/ call[a].modeMoved]_autoPayVars

\* Nothing is paid without the owner on paid checks that failed: while calls
\* come one at a time the row itself says that they were passed.
CheckedBeforePaid ==
  [][\A a \in Caller, e \in Invoice :
       AutoClaims(a, e) /\ ~crossed => checked[e] = "verified"]_autoPayVars

\* The payee's caps hold for what auto-pay pays, also when one resumption pays
\* several invoices.  Only landed payments are counted (payment-usage.ts), so
\* it takes calls one at a time and no payment whose outcome is uncertain.
CapInTurn ==
  [][\A a \in Caller, e \in Invoice :
       AutoClaims(a, e) /\ ~crossed /\ ~doubted => PaidCount < MaxPayments]_autoPayVars

\* docs/DECISIONS.md: the checks of an invoice stay within its budget together,
\* and paid-verification.ts: evidence is reused.  It takes calls one at a time,
\* prices on what was charged, and that neither a stopped call nor Level 1
\* loses the evidence.
BudgetKept ==
  ~crossed => \A e \in Invoice \ untracked : spentOn[e] <= Budget

\* A failed paid check keeps the invoice from auto-pay: no later decision
\* forgets it, unless Level 1 starts anew.
UnverifiedStands ==
  ~crossed => \A e \in Invoice : checked[e] = "unverified" => decision[e] # "auto_pay"

\* A failed paid check takes any row to the owner, a quarantined one too
\* (paid-verification.ts writes needs_approval over it); what Level 1 found
\* stays named among the reasons.
SuspicionNamed ==
  ~crossed => \A e \in judged : evidence[e] # "clean" => evidence[e] \in reasons[e]

\* The payment, which PaymentExecution models in full, lives here as the
\* intent's status does there: auto-pay claims nothing paid or in doubt.
Life == INSTANCE IntentStatus WITH
  Intent <- Invoice,
  state <- [e \in Invoice |-> IF intent[e] \in {"absent", "pending"} THEN "open" ELSE intent[e]]

IntentsLive == Life!LifeSpec

=============================================================================
