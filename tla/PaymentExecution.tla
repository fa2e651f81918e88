-------------------------- MODULE PaymentExecution --------------------------
(***************************************************************************)
(* How an invoice's PaymentIntent row is prepared, claimed, paid and       *)
(* reconciled (worker/src/payment-execution.ts, manual-pay.ts,             *)
(* payment-claim.ts, payment-reconcile.ts, auto-pay-runner.ts and the      *)
(* prepare and confirm actions of app/app/actions.ts).                     *)
(*                                                                         *)
(* A caller is one running call of preparePayment, confirmPayment or       *)
(* runAutoPayIfEligible, in the Next.js app, the worker or a CLI process.  *)
(* Each database statement is one atomic step and anything may happen      *)
(* between two of them.  The provider is external: requests reach it late  *)
(* or never, answers are lost, payouts settle when they like.  A           *)
(* reconciler is one running call of reconcileStuckPayments (the worker's  *)
(* interval and "Sync now" may both be in one).                            *)
(*                                                                         *)
(* An amount, currency and recipient are one value, a member of Payable.   *)
(***************************************************************************)
EXTENDS Naturals

CONSTANTS
  Email,        \* the invoices; payment_intents.email_id is unique
  Payable,      \* (recipient, amount, currency) triples
  Key,          \* idempotency keys
  PayoutId,     \* references the provider hands out
  Caller,       \* concurrent calls of the payment path
  Reconciler,   \* concurrent calls of reconcileStuckPayments
  Provider,     \* "perflo" or "razorpay": payViaConfiguredExecutor's choice
  MaxFailures,  \* bound: a row is claimed at most MaxFailures + 1 times
  None          \* null

ASSUME ProviderAssumption == Provider \in {"perflo", "razorpay"}
ASSUME BoundAssumption == MaxFailures \in Nat
ASSUME NoneAssumption == None \notin Email \union Payable \union Key \union PayoutId
ASSUME ReferenceAssumption == Key \intersect PayoutId = {}

VARIABLES
  invoice,      \* invoice[e]: what extraction last stored, None when cleared
  status,       \* the row of payment_intents, by column; "absent": no row
  payable,
  key,
  reference,    \* paymentReference: a PayoutId, the row's own key, or None
  aged,         \* aged[e]: claimedAt is more than CLAIM_STALE_MS ago
  failures,     \* history: how often "failed" was written on the row
  job,          \* job[c]: the local state of caller c
  payout,       \* payout[r]: the request the provider knows, or will, as r
  recon         \* recon[w]: the local state of reconciler w

row == <<status, payable, key, reference, aged, failures>>
vars == <<invoice, row, job, payout, recon>>

---------------------------------------------------------------------------
(* Types *)

Status == {"absent", "pending", "claimed", "paid", "failed", "unknown_outcome"}
Retryable == {"pending", "failed"}
Ref == PayoutId \union Key \union {None}
Outcome == {"none", "paid", "failed", "unknown_outcome"}

Job == [pc : {"idle", "repair", "upsert", "load", "claim", "pay", "answer", "record"},
        kind : {"none", "prepare", "confirm", "auto"},
        email : Email \union {None},
        payable : Payable \union {None},
        key : Key \union {None},
        round : Nat,               \* history: failures[email] at the claim
        payout : PayoutId \union {None},
        outcome : Outcome,
        ref : Ref]

Idle == [pc |-> "idle", kind |-> "none", email |-> None, payable |-> None, key |-> None,
         round |-> 0, payout |-> None, outcome |-> "none", ref |-> None]

Payout == [state : {"unused", "sent", "refused", "processing", "paid", "failed"},
           email : Email \union {None},
           payable : Payable \union {None},
           key : Key \union {None},
           round : Nat]

Unused == [state |-> "unused", email |-> None, payable |-> None, key |-> None, round |-> 0]

Recon == [pc : {"idle", "scan", "poll", "write"},
          seen : [Email -> Ref],   \* the rows of findMany still to look at
          email : Email \union {None},
          result : {"none", "paid", "failed"}]

Resting == [pc |-> "idle", seen |-> [e \in Email |-> None], email |-> None, result |-> "none"]

TypeOK ==
  /\ invoice \in [Email -> Payable \union {None}]
  /\ status \in [Email -> Status]
  /\ payable \in [Email -> Payable \union {None}]
  /\ key \in [Email -> Key \union {None}]
  /\ reference \in [Email -> Ref]
  /\ aged \in [Email -> BOOLEAN]
  /\ failures \in [Email -> Nat]
  /\ job \in [Caller -> Job]
  /\ payout \in [PayoutId -> Payout]
  /\ recon \in [Reconciler -> Recon]

Init ==
  /\ invoice \in [Email -> Payable]
  /\ status = [e \in Email |-> "absent"]
  /\ payable = [e \in Email |-> None]
  /\ key = [e \in Email |-> None]
  /\ reference = [e \in Email |-> None]
  /\ aged = [e \in Email |-> FALSE]
  /\ failures = [e \in Email |-> 0]
  /\ job = [c \in Caller |-> Idle]
  /\ payout = [r \in PayoutId |-> Unused]
  /\ recon = [w \in Reconciler |-> Resting]

---------------------------------------------------------------------------
(* Preparing a row *)

\* Level 1 processing stores another amount or payee, and a review retry
\* clears what was stored.  Both check the row's status long before they
\* write, so the row may be in any state by then.
Reextract(e) ==
  /\ \E v \in Payable \union {None} : invoice' = [invoice EXCEPT ![e] = v]
  /\ UNCHANGED <<row, job, payout, recon>>

Loading(e) == [Idle EXCEPT !.pc = "load", !.email = e]

\* The entry of preparePayment, confirmPayment and runAutoPayIfEligible: what
\* is to be paid is read here and used after the paid verifier has run.
Begin(c, e, kind) ==
  /\ job[c].pc = "idle"
  /\ invoice[e] = None => kind = "confirm"
  /\ job' = [job EXCEPT ![c] =
              IF invoice[e] = None THEN Loading(e)
              ELSE [Idle EXCEPT !.pc = IF kind = "auto" THEN "upsert" ELSE "repair",
                                !.kind = kind, !.email = e, !.payable = invoice[e]]]
  /\ UNCHANGED <<invoice, row, payout, recon>>

\* (Mutation: only the absence of a row stops the repair.)
RepairMatchesAnyRow(e) == status[e] # "absent"

\* The guarded updateMany of preparePayment and confirmPayment.
RepairMatches(e) == status[e] \in Retryable

Repair(c) ==
  LET e == job[c].email IN
  /\ job[c].pc = "repair"
  /\ payable' = IF RepairMatches(e)
                THEN [payable EXCEPT ![e] = job[c].payable] ELSE payable
  /\ job' = [job EXCEPT ![c] =
              IF job[c].kind = "confirm" THEN Loading(e)
              ELSE IF RepairMatches(e) THEN Idle
              ELSE [@ EXCEPT !.pc = "upsert"]]
  /\ UNCHANGED <<invoice, status, key, reference, aged, failures, payout, recon>>

\* (Mutation: update: {idempotencyKey}, so preparing again mints a key.)
UpsertRowMintsKey(e, v) ==
  /\ \E k \in Key : /\ \A f \in Email : key[f] # k
                  /\ key' = [key EXCEPT ![e] = k]
  /\ status' = [status EXCEPT ![e] = IF @ = "absent" THEN "pending" ELSE @]
  /\ payable' = [payable EXCEPT ![e] = IF status[e] = "absent" THEN v ELSE @]

\* upsert({create, update: {}}): the row is created with a fresh key, or left.
UpsertRow(e, v) ==
  IF status[e] = "absent"
  THEN /\ \E k \in Key :
            /\ \A f \in Email : key[f] # k
            /\ key' = [key EXCEPT ![e] = k]
       /\ status' = [status EXCEPT ![e] = "pending"]
       /\ payable' = [payable EXCEPT ![e] = v]
  ELSE UNCHANGED <<key, status, payable>>

Upsert(c) ==
  /\ job[c].pc = "upsert"
  /\ UpsertRow(job[c].email, job[c].payable)
  /\ job' = [job EXCEPT ![c] =
              IF job[c].kind = "auto" THEN Loading(job[c].email) ELSE Idle]
  /\ UNCHANGED <<invoice, reference, aged, failures, payout, recon>>

---------------------------------------------------------------------------
(* executePreparedPayment *)

\* loadPayableEmail.  Without a row it throws, and the catch block's guarded
\* write matches nothing.
Load(c) ==
  LET e == job[c].email IN
  /\ job[c].pc = "load"
  /\ job' = [job EXCEPT ![c] =
              IF status[e] = "absent" THEN Idle
              ELSE [@ EXCEPT !.pc = "claim", !.payable = payable[e]]]
  /\ UNCHANGED <<invoice, row, payout, recon>>

\* requestManualPayment is over, one way or the other: what is left to do is
\* to write it down.
Recording(e, outcome, ref) ==
  [Idle EXCEPT !.pc = "record", !.email = e, !.outcome = outcome, !.ref = ref]

\* (Mutation: a row in doubt is offered a retry.)
ClaimableInDoubt(e) == status[e] \in Retryable \union {"unknown_outcome"}

\* The conditional UPDATE of claimPaymentIntent.
Claimable(e) == status[e] \in Retryable

\* The claim is won, and the row is read back for its key: the job goes on to
\* pay what it loaded BEFORE the claim.  The read back may also throw.
WinClaim(c) ==
  LET e == job[c].email IN
  /\ job[c].pc = "claim"
  /\ Claimable(e)
  /\ failures[e] <= MaxFailures
  /\ status' = [status EXCEPT ![e] = "claimed"]
  /\ aged' = [aged EXCEPT ![e] = FALSE]
  /\ \/ job' = [job EXCEPT ![c].pc = "pay", ![c].key = key[e], ![c].round = failures[e]]
     \/ job' = [job EXCEPT ![c] = Recording(e, "failed", None)]
  /\ UNCHANGED <<invoice, payable, key, reference, failures, payout, recon>>

\* "already being processed by another worker" is a plain Error, so the catch
\* block classifies it as "failed" and goes on to write.
LoseClaim(c) ==
  /\ job[c].pc = "claim"
  /\ ~Claimable(job[c].email)
  /\ job' = [job EXCEPT ![c] = Recording(@.email, "failed", None)]
  /\ UNCHANGED <<invoice, row, payout, recon>>

\* Everything that fails before a payout is requested: no approved rail (a
\* plain Error, no reference), a currency Razorpay does not pay, a contact or
\* fund account it refuses (the idempotency key is the reference).
FailBeforePayout(c) ==
  /\ job[c].pc = "pay"
  /\ \E ref \in {None} \union (IF Provider = "razorpay" THEN {job[c].key} ELSE {}) :
       job' = [job EXCEPT ![c] = Recording(@.email, "failed", ref)]
  /\ UNCHANGED <<invoice, row, payout, recon>>

\* The request is on its way.  Razorpay gets the key with it and answers a
\* key it has seen with the payout it has; Perflo's CLI has no such flag.
SamePayout(k) ==
  {r \in PayoutId : /\ Provider = "razorpay"
                    /\ payout[r].key = k
                    /\ payout[r].state \notin {"unused", "refused"}}

Send(c) ==
  LET j == job[c] IN
  /\ j.pc = "pay"
  /\ IF SamePayout(j.key) # {}
     THEN /\ \E r \in SamePayout(j.key) :
               job' = [job EXCEPT ![c].pc = "answer", ![c].payout = r]
          /\ UNCHANGED payout
     ELSE \E r \in PayoutId :
            /\ payout[r].state = "unused"
            /\ payout' = [payout EXCEPT ![r] =
                 [state |-> "sent", email |-> j.email, payable |-> j.payable,
                  key |-> j.key, round |-> j.round]]
            /\ job' = [job EXCEPT ![c].pc = "answer", ![c].payout = r]
  /\ UNCHANGED <<invoice, row, recon>>

\* (Mutation: the adapter lets "processing" through.)
AnswersRaw(r, k) ==
  {<<IF payout[r].state = "processing" THEN "processing" ELSE "unknown_outcome", r>>}

\* (Mutation: a reference is taken for success, confirmed or not.)
AnswersUnconfirmed(r, k) ==
  {<<IF payout[r].state \in {"processing", "paid"} THEN "paid" ELSE "unknown_outcome", r>>}

\* What the caller may be told of payout r: the answer as createPayout and
\* payoutResultToLegacyPayResult classify it.
Answers(r, k) ==
  (CASE payout[r].state = "paid" -> {<<"paid", r>>}
     [] payout[r].state = "processing" -> {<<"unknown_outcome", r>>}
     [] payout[r].state = "failed" ->
          {<<"failed", IF Provider = "razorpay" THEN r ELSE k>>}
     [] payout[r].state = "refused" -> {<<"failed", k>>}
     [] OTHER -> {})
  \* no answer, a killed CLI, or one with no reference to read
  \union {<<"unknown_outcome", k>>}
  \* RazorpayHttpError: any status but 2xx, also from a gateway in between
  \union (IF Provider = "razorpay" THEN {<<"failed", k>>} ELSE {})

Answer(c) ==
  /\ job[c].pc = "answer"
  /\ \E a \in Answers(job[c].payout, job[c].key) :
       job' = [job EXCEPT ![c] = Recording(@.email, a[1], a[2])]
  /\ UNCHANGED <<invoice, row, payout, recon>>

\* The unguarded update after requestManualPayment has resolved.
RecordPaid(c) ==
  LET e == job[c].email IN
  /\ job[c].pc = "record" /\ job[c].outcome = "paid"
  /\ status' = [status EXCEPT ![e] = "paid"]
  /\ reference' = [reference EXCEPT ![e] = job[c].ref]
  /\ job' = [job EXCEPT ![c] = Idle]
  /\ UNCHANGED <<invoice, payable, key, aged, failures, payout, recon>>

\* That update throws: the money has moved, so the catch block takes over
\* with "unknown_outcome" and the reference it was given.
RecordPaidThrows(c) ==
  /\ job[c].pc = "record" /\ job[c].outcome = "paid"
  /\ job' = [job EXCEPT ![c].outcome = "unknown_outcome"]
  /\ UNCHANGED <<invoice, row, payout, recon>>

\* (Mutation: the guard is dropped.)
MayAlwaysRecordFailure(e) == status[e] # "absent"

\* The guarded updateMany of the catch block.
MayRecordFailure(e) == status[e] = "claimed"

CatchRef(j, old) == IF j.ref = None THEN old ELSE j.ref

RecordFailure(c) ==
  LET e == job[c].email IN
  /\ job[c].pc = "record" /\ job[c].outcome \in {"failed", "unknown_outcome"}
  /\ IF MayRecordFailure(e)
     THEN /\ status' = [status EXCEPT ![e] = job[c].outcome]
          /\ reference' = [reference EXCEPT ![e] = CatchRef(job[c], @)]
          /\ failures' = [failures EXCEPT ![e] = @ + (IF job[c].outcome = "failed" THEN 1 ELSE 0)]
     ELSE UNCHANGED <<status, reference, failures>>
  /\ job' = [job EXCEPT ![c] = Idle]
  /\ UNCHANGED <<invoice, payable, key, aged, payout, recon>>

\* The process of the caller dies, or a statement throws where nothing
\* catches it.  A request already sent is still with the provider.
Crash(c) ==
  /\ job[c].pc # "idle"
  /\ job' = [job EXCEPT ![c] = Idle]
  /\ UNCHANGED <<invoice, row, payout, recon>>

---------------------------------------------------------------------------
(* The provider, external *)

ProviderStep(r, from, to) ==
  /\ payout[r].state = from
  /\ payout' = [payout EXCEPT ![r].state = to]
  /\ UNCHANGED <<invoice, row, job, recon>>

Accept(r) == ProviderStep(r, "sent", "processing")
Refuse(r) == ProviderStep(r, "sent", "refused")
Land(r) == ProviderStep(r, "processing", "paid")
Bounce(r) == ProviderStep(r, "processing", "failed")

---------------------------------------------------------------------------
(* reconcileStuckPayments *)

\* The clock: claimedAt falls behind Date.now() - CLAIM_STALE_MS.
AgeClaim(e) ==
  /\ status[e] = "claimed" /\ ~aged[e]
  /\ aged' = [aged EXCEPT ![e] = TRUE]
  /\ UNCHANGED <<invoice, status, payable, key, reference, failures, job, payout, recon>>

\* (Mutation: claims without a reference are left to their caller.)
StaleReferencedClaim(e) == status[e] = "claimed" /\ aged[e] /\ reference[e] # None

StaleClaim(e) == status[e] = "claimed" /\ aged[e]

PromoteStaleClaims(w) ==
  /\ recon[w].pc = "idle"
  /\ status' = [e \in Email |-> IF StaleClaim(e) THEN "unknown_outcome" ELSE status[e]]
  /\ recon' = [recon EXCEPT ![w].pc = "scan"]
  /\ UNCHANGED <<invoice, payable, key, reference, aged, failures, job, payout>>

\* findMany of the rows that wait, less those isReconcilableProviderReference
\* turns away: they are skipped whatever happens later in the loop.
Stuck(e) == /\ status[e] = "unknown_outcome"
            /\ reference[e] # None
            /\ reference[e] # key[e]

Scan(w) ==
  /\ recon[w].pc = "scan"
  /\ recon' = [recon EXCEPT ![w].pc = "poll",
                            ![w].seen = [e \in Email |-> IF Stuck(e) THEN reference[e] ELSE None]]
  /\ UNCHANGED <<invoice, row, job, payout>>

\* getPayoutStatus answers with a final state.
Poll(w, e) ==
  LET r == recon[w].seen[e] IN
  /\ recon[w].pc = "poll" /\ r \in PayoutId
  /\ payout[r].state \in {"paid", "failed"}
  /\ recon' = [recon EXCEPT ![w].pc = "write", ![w].email = e, ![w].result = payout[r].state]
  /\ UNCHANGED <<invoice, row, job, payout>>

\* It throws, or knows no more than before: on to the next row.
PollNothing(w, e) ==
  /\ recon[w].pc = "poll" /\ recon[w].seen[e] # None
  /\ recon' = [recon EXCEPT ![w].seen[e] = None]
  /\ UNCHANGED <<invoice, row, job, payout>>

\* (Mutation: the guard of the executor's own write.)
MayReconcileClaimed(e) == status[e] = "claimed"

\* The guarded updateMany, on the reference of the row as it was scanned.
MayReconcile(e) == status[e] = "unknown_outcome"

WriteReconciled(w) ==
  LET e == recon[w].email
      res == recon[w].result IN
  /\ recon[w].pc = "write"
  /\ IF MayReconcile(e)
     THEN /\ status' = [status EXCEPT ![e] = res]
          /\ reference' = [reference EXCEPT ![e] = recon[w].seen[e]]
          /\ failures' = [failures EXCEPT ![e] = @ + (IF res = "failed" THEN 1 ELSE 0)]
     ELSE UNCHANGED <<status, reference, failures>>
  /\ recon' = [recon EXCEPT ![w].pc = "poll", ![w].seen[e] = None,
                            ![w].email = None, ![w].result = "none"]
  /\ UNCHANGED <<invoice, payable, key, aged, job, payout>>

EndPass(w) ==
  /\ recon[w].pc = "poll" /\ \A e \in Email : recon[w].seen[e] = None
  /\ recon' = [recon EXCEPT ![w] = Resting]
  /\ UNCHANGED <<invoice, row, job, payout>>

\* The process dies or "Sync now" is killed at its 30 s timeout.
CrashReconciler(w) ==
  /\ recon[w].pc # "idle"
  /\ recon' = [recon EXCEPT ![w] = Resting]
  /\ UNCHANGED <<invoice, row, job, payout>>

---------------------------------------------------------------------------
CallerStep(c) ==
  \/ \E e \in Email, kind \in {"prepare", "confirm", "auto"} : Begin(c, e, kind)
  \/ Repair(c) \/ Upsert(c) \/ Load(c) \/ WinClaim(c) \/ LoseClaim(c)
  \/ FailBeforePayout(c) \/ Send(c) \/ Answer(c)
  \/ RecordPaid(c) \/ RecordPaidThrows(c) \/ RecordFailure(c) \/ Crash(c)

ReconcilerStep(w) ==
  \/ PromoteStaleClaims(w) \/ Scan(w)
  \/ \E e \in Email : Poll(w, e) \/ PollNothing(w, e)
  \/ WriteReconciled(w) \/ EndPass(w) \/ CrashReconciler(w)

ProviderMove(r) == Accept(r) \/ Refuse(r) \/ Land(r) \/ Bounce(r)

Next ==
  \/ \E e \in Email : Reextract(e) \/ AgeClaim(e)
  \/ \E c \in Caller : CallerStep(c)
  \/ \E r \in PayoutId : ProviderMove(r)
  \/ \E w \in Reconciler : ReconcilerStep(w)

Spec == Init /\ [][Next]_vars

---------------------------------------------------------------------------
(* Safety *)

\* Money that has moved, or may yet.
Live(r) == payout[r].state \in {"sent", "processing", "paid"}

PayoutsOf(e) == {r \in PayoutId : payout[r].state # "unused" /\ payout[r].email = e}

\* A row marked paid names a payout of its own invoice, and that payout has
\* landed: neither a late caller nor a reconciler working from an old scan
\* ever marks it paid on the word of another request.
PaidIsBacked ==
  \A e \in Email : status[e] = "paid" =>
    /\ reference[e] \in PayoutsOf(e)
    /\ payout[reference[e]].state = "paid"

\* Two requests for one invoice are never sent on the strength of the same
\* recorded state: whoever claims the row, crashes or loses the race, a
\* request after the first needs another "failed" written in between.
OnePayoutPerRound ==
  \A e \in Email : \A q, r \in PayoutsOf(e) : payout[q].round = payout[r].round => q = r

\* Where the provider honours the idempotency key, one key per invoice for
\* good is enough: no race and no retry makes two payouts of one invoice.
NoSecondPayout ==
  Provider = "razorpay" =>
    \A e \in Email : \A q, r \in PayoutsOf(e) : Live(q) /\ Live(r) => q = r

\* Once a row is claimed, paid or in doubt, what is to be paid under which
\* key is on record: no prepare, confirm or auto-pay with older or newer
\* values rewrites it.
LockedRowKeepsTerms ==
  [][\A e \in Email : status[e] \in {"claimed", "paid", "unknown_outcome"} =>
        payable'[e] = payable[e] /\ key'[e] = key[e]]_vars

\* The rows and the requests, seen together, keep the promise of
\* PaymentLedger: paid is final, doubt is never claimed again, and each
\* recorded failure gives leave for one more request.
spent == [e \in Email |-> {payout[r].round : r \in PayoutsOf(e)}]

Ledger == INSTANCE PaymentLedger

LedgerSpec == Ledger!Spec

\* The status alone lives as the column's comment says.
Life == INSTANCE IntentStatus WITH
  Intent <- Email,
  state <- [e \in Email |-> IF status[e] \in {"absent", "pending"} THEN "open" ELSE status[e]]

RowsLive == Life!LifeSpec

\* "it simply waits in unknown_outcome for a human" (payment-reconcile.ts): a
\* row in doubt without a reference to look up, and in no scan under way, is
\* neither claimed, prepared, aged nor reconciled into anything else; only a
\* late caller who has seen the payout land may still end its doubt.
LeftToOwner(e) ==
  status[e] = "unknown_outcome" /\ ~Stuck(e) /\ \A w \in Reconciler : recon[w].seen[e] = None

DoubtWaits ==
  [][\A e \in Email : LeftToOwner(e) => LeftToOwner(e)' \/ status'[e] = "paid"]_vars

---------------------------------------------------------------------------
(* What the documentation says and the code does not do *)

\* payment-execution.ts:57 "only a clean, provider-reported failure ... is
\* safe to mark 'failed'": a row that may be claimed again has no request
\* out that could still be, or has been, paid.
RetryIsSafe ==
  \A e \in Email : status[e] \in Retryable => \A r \in PayoutsOf(e) : ~Live(r)

\* payment-reconcile.ts:38 "never guess success or failure from that silence":
\* a reconciler that marks a row failed does so on the outcome of the last
\* request sent for it, not while that one may still land, or has.
FailureIsOfLastRequest ==
  [][\A e \in Email : status[e] = "unknown_outcome" /\ status'[e] = "failed" =>
        \A r \in PayoutsOf(e) : payout[r].round = failures[e] => ~Live(r)]_vars

\* actions.ts:58-61: the payable fields of a row "are the record of what was
\* actually claimed/paid".
RecordIsWhatWasPaid ==
  \A e \in Email : status[e] = "paid" => payout[reference[e]].payable = payable[e]

---------------------------------------------------------------------------
(* Liveness *)

\* The worker polls for ever (setInterval in index.ts) whatever callers do;
\* time passes, a provider makes up its mind, and a status lookup that can
\* be answered is not thrown away every time.
FairSpec ==
  /\ Spec
  /\ \A e \in Email : WF_vars(AgeClaim(e))
  /\ \A r \in PayoutId : WF_vars(Land(r) \/ Bounce(r))
  /\ \A w \in Reconciler :
       /\ WF_vars(PromoteStaleClaims(w)) /\ SF_vars(Scan(w))
       /\ \A e \in Email : SF_vars(Poll(w, e)) /\ WF_vars(PollNothing(w, e))
       /\ SF_vars(WriteReconciled(w)) /\ WF_vars(EndPass(w))

\* A claim never stays for ever, even when its caller died holding it.
ClaimResolves ==
  \A e \in Email : status[e] = "claimed" ~> status[e] # "claimed"

\* A row in doubt whose reference the provider knows is settled.
ReferenceResolves ==
  \A e \in Email :
    (status[e] = "unknown_outcome" /\ reference[e] \in PayoutId) ~> status[e] \in {"paid", "failed"}

=============================================================================
