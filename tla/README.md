# Verification of the Perflo AP agent

TLA+ specifications, TLC configurations and TLAPS proofs for the accounts-payable
agent in this repository. Paths below are relative to the repository root;
`worker/` stands for `worker/src/`.

Run them from this directory:

    tlc -workers 2 -config MCPaymentExecution_perflo.cfg MCPaymentExecution
    tlc -workers 2 -config MCNotices_notices.cfg MCNotices
    tlapm PaymentExecutionProofs.tla

Section 3 lists the runs; a run `x` of `MCy` has the configuration `MCy_x.cfg`.
The proofs are in the modules `*Proofs`.

## 1. The system

Mail comes in through Gmail, is classified and read, matched with an approved
payee, judged by a policy, and then either paid at once or put in the owner's
queue. Three kinds of process share one PostgreSQL database and nothing else:

* the **worker** (`worker/index.ts`): at start and then every
  `POLL_INTERVAL_SECONDS` it syncs mail, reconciles payments, expires grant
  approvals, warns and sends the digest. `setInterval` does not wait for the
  previous tick, so ticks overlap when one is slow;
* the **Next.js app** (`app/app/actions.ts`, `app/app/payee-actions.ts`): server
  actions behind the owner's buttons, any number at a time;
* **CLI children** of the app: "Sync now" (`worker/sync-once-cli.ts`, killed
  after 30 s) and a review retry (`worker/retry-level1-cli.ts`).

There are no transactions across statements: every Prisma call is atomic by
itself, and every pair of calls is a window.

| Component | State it keeps | Operations | Hard parts | What makes it correct |
|---|---|---|---|---|
| Payment preparation (`preparePayment`, `confirmPayment`, `runAutoPayIfEligible`) | `payment_intents` row: terms, key | read invoice, paid verifier, guarded repair, upsert | seconds between read and write; two first prepares | a locked row keeps its terms and key; one key per invoice |
| Payment execution (`payment-execution.ts`, `manual-pay.ts`, `payment-claim.ts`) | the row's status, reference | load, claim, pay, record, catch | racing callers, crashes at any point, late answers | paid only on a landed payout; never two requests without a recorded failure in between |
| Providers and adapters (`payment-executor-*.ts`, `perflo-cli.ts`) | none (the provider's) | create a payout, look one up | lost answers, wrong answers, keys honoured or not | which answers may count as failure |
| Reconciliation (`payment-reconcile.ts`) | none of its own | promote stale claims, scan, poll, write | old scans, overlapping passes | every doubt with a reference is settled; never settled by guess |
| Grant approval (`payee-approval*.ts`, `reconcile-grant-approvals.ts`) | `payees` row: status, expiry, outcome, URL | start, CLI child, outcome, expiry sweep | one pending grant at a time, late outcomes, dead children | the lock is exclusive and never held for ever; an outcome settles its own attempt |
| Sync (`sync.ts`, `gmail.ts`, `sync-state.ts`) | `ingest_checkpoint` | window, fetch, store, checkpoint | overlapping and failing syncs, a late index, a backlog | no mail falls between two windows |
| Ingest and retry (`ingest.ts`, `retry-level1-cli.ts`, `review-retry.ts`) | `emails` | store, decide in turn, decide the backlog together, alert, launch, retry | two passes on one row, a snapshot of the history, deaths between statements | one invoice is launched once; what the owner has reviewed is not launched; every row is decided; one alert |
| Classification and extraction (`junk-filter.ts`, `classifier.ts`, `extractor.ts`, `llm-*.ts`) | none | pure, but for the language model's answers | priority of rules, corroboration of an answer | an injection is never followed; a doubt is never rounded up |
| Level 1 decision (`level1-pipeline.ts`, `policy-engine.ts`, `verifier.ts`, `payee-resolver.ts`, `duplicate-detector.ts`) | none | pure | priority of reasons, thresholds, three modules that must agree on a changed rail | auto-pay only when every check passes |
| Auto-pay (`auto-pay-eligibility.ts`, `payment-usage.ts`, `reevaluate-policy.ts`, `resume-auto-pay.ts`) | `emails.policyDecision` | eligibility, re-evaluation, resumption | caps against payments under way, stale decisions | caps hold; only what is due is paid |
| Paid verification (`paid-verification.ts`, `x402-*.ts`) | evidence on the email, `x402_spend` | reuse, purchase, record | two callers at once | one purchase per invoice, within the budget |
| Notifications (`ingest.ts` alerts, `grant-expiry-warning.ts`, `daily-digest.ts`) | stamps | claim, send, unclaim | failure between claim and send | at most once; not lost |

The interactions that matter for the payment path: the queue's buttons, the
ingest pipeline and the resumption of auto-pay all end in
`executePreparedPayment`, concurrently; the reconciler writes the same rows; and
a review retry or a re-extraction changes the invoice that the next prepare
copies from.

`PROJECT.json` lists every component with its status and every hazard with the
line where it bites and the properties that cover it.

## 2. Modules

| Module | Models |
|---|---|
| `PaymentLedger` | the promise: life of a row's status, and how often money may be sent for it |
| `IntentStatus` | the smaller promise beside the column: what a status may turn into, and nothing of money |
| `PaymentExecution` | prepare / confirm / auto-pay, claim, pay, record, reconcile, with the provider external |
| `MCPaymentExecution` | model values and symmetry of the runs |
| `PaymentExecutionProofs` | the inductive invariant and the theorems |
| `GrantLock` | the promise: one payee at a time is put up for approval, and approval needs its owner's authority |
| `GrantApproval` | `approvePayee` statement by statement, the detached `policy enable` child, its outcome, the expiry sweeps, revocation of a method; Perflo and the owner external |
| `MCGrantApproval` | model values of the runs |
| `GrantApprovalProofs` | the inductive invariant and the theorems |
| `Extraction` | pure: junk filter, rule cascade, extractor, and what is kept of a language model's answer |
| `Level1` | one mail from its arrival to its decision: verifier, resolver, duplicates, eligibility, policy |
| `MCLevel1` | the mails, answers, payees and histories of the run |
| `Level1Proofs` | invariant and theorems, for all of them |
| `GmailSync` | windows, fetches and the checkpoint of overlapping syncs; Gmail external |
| `AutoPay` | re-evaluation, resumption, paid checks, gate and claim as they overlap; Perflo external |
| `Services`, `MCServices` | the two together, and model values |
| `AutoPayProofs`, `ServicesProofs` | invariants and theorems of `AutoPay`; of `GmailSync` and of the two together |
| `Outbox` | the promise: an item is claimed before it is sent, and not sent again once it is known to have been accepted |
| `Intake` | batch, backlog, alerts, launches and retries of several passes over the rows |
| `GrantWarning` | the expiry warnings |
| `DailyDigest` | the daily digest |
| `Notices`, `MCNotices` | the three together, and model values |
| `IntakeProofs`, `NoticesProofs` | invariants and theorems of `Intake`; of the warnings, the digest and the three together |

`PaymentExecution` and `GrantApproval` share no row: a payment reads an approved
payee, and nothing of the payment path writes one. What joins them is `AutoPay`,
where the payee's grant and toggle may change between any two steps of a call
(`PayeeChanges`) and a payment is one claim and one result. That its `intent` and
`PaymentExecution`'s `status` are the same column is what `IntentStatus` is for:
both modules implement it, the one with every statement of an execution, the
other with the two that it keeps. Each module takes from its neighbours what it
needs of them: `Intake` has Level 1 as a verdict that depends on what the mail
is, on the payees the pass has loaded and on the history it has read, `Level1`
has payees and history as inputs, `GmailSync` stops where the rows are stored.

`Notices` and `Services` put components side by side that one poll runs one
after the other. They share no variable, and no step of one disables a step of
another, so an interleaving of two of them satisfies a property of one exactly
if that one's own steps do: a behaviour there chooses one `part` and follows it.
`ServicesAreBoth` and `NoticesAreTheirParts` prove that nothing is lost by it:
every behaviour of a composition is one of each of its parts.

### PaymentExecution

One action per database statement or provider call; a local state (`job[c]`,
`recon[w]`) remembers what the call read earlier and where it stands.

| State | In the code |
|---|---|
| `invoice[e]` | the email's `resolvedPayeeId` and `extractionSummary.amount`; `None` when a retry cleared them or they are not payable |
| `status`, `payable`, `key`, `reference` | columns of `payment_intents`; recipient, amount and currency are one value |
| `aged[e]` | `claimedAt < now - CLAIM_STALE_MS`: a clock is not modelled, a claim simply becomes old |
| `failures[e]` | history: how often `failed` was written; used by properties, by `round` and by the bound |
| `job[c]` | one running call of the payment path |
| `payout[r]` | the request that the provider knows, or will know, as reference `r` |
| `recon[w]` | one running call of `reconcileStuckPayments`, with the rows it scanned |

| Action | In the code |
|---|---|
| `Begin`, `Repair`, `Upsert` | the entry reads, the guarded `updateMany` and the `upsert` of `preparePayment`, `confirmPayment`, `runAutoPayIfEligible` (the paid verifier runs between two of them and only takes time, or makes the call stop, which `Crash` covers) |
| `Load`, `WinClaim`, `LoseClaim` | `loadPayableEmail`, then `claimPaymentIntent`; the loser's plain `Error` goes to the catch block |
| `FailBeforePayout`, `Send`, `Answer` | `payViaConfiguredExecutor`; `Answers` is what `createPayout`, `classifyPerfloStdout` and `payoutResultToLegacyPayResult` make of what the provider did, of a lost answer and of an HTTP error |
| `RecordPaid`, `RecordPaidThrows`, `RecordFailure` | the unguarded `paid` write, its failure, and the guarded write of the catch block |
| `PromoteStaleClaims`, `Scan`, `Poll`, `PollNothing`, `WriteReconciled`, `EndPass` | `reconcileStuckPayments` |
| `Crash`, `CrashReconciler` | a process dies; a request already sent stays with the provider |
| `Reextract`, `AgeClaim` | re-extraction or a review retry; time |
| `Accept`, `Refuse`, `Land`, `Bounce` | the provider |

What is assumed of the providers, because it is theirs to keep: an answer that
says a payout is final is true; one `payout` value stands for a payout under all
its names (a Perflo `pout_` id and its transaction hash); Perflo says
`confirmed: false` of a payout that is not final (`perflo-cli.ts:84-92`: an
`ok: true` with a reference and no `confirmed` field is taken as paid);
RazorpayX answers a key it has seen with the payout it has, and forgets a key
whose request it refused; a payout that was processed is not reversed later.

Two deliberate simplifications: references are never reused by the provider, and
a claim that throws on its read back is one outcome of `WinClaim`.

### PaymentLedger

Three variables: `status`, `failures` and `spent[e]`, the rounds in which a
request was sent, where a round is opened by each recorded failure. It says what
a reviewer would want to rely on: `paid` is never left, `unknown_outcome` is
never claimed, at most one request is sent per round, and `paid` is recorded
only for an invoice something was sent for. `PaymentExecution` implements it
with `spent` computed from the requests the provider got (`LedgerSpec`).

It also shows what is *not* promised. `RecordPaid` has no condition on the
status, because the code's `paid` write has none: a caller whose claim was
promoted or reconciled away still writes `paid`. And a request may be sent while
the row is already `failed` or in doubt (the sender was slow).

### IntentStatus

The comment beside the column (`schema.prisma:148-150`) as a state machine:
claimed from a fresh row or after a failure; paid, failed or in doubt from a
claim; never claimed from doubt. The comment's "never transitions automatically
(FR-27) - only a human" is widened, because the reconciler does settle a doubt
whose payout it can look up, and because the `paid` write has no guard. It has
no rounds and no requests, so that `AutoPay`, which has none, can be held
against it as well (`RowsLive`, `IntentsLive`).

What is left of "only a human" is `DoubtWaits`: a row in doubt *without* a
reference to look up is changed by nobody, except that a caller who has seen its
payout land still writes `paid`. The property speaks of rows in no scan that is
under way, and needs to: a reconciler that scanned the row in an earlier doubt,
with a reference, and is slow, may settle the present one, which has none.

### GrantApproval

One *call* is one click on "Approve": a run of `approvePayee` in the app, and
what it leaves behind when it has answered, that is the `policy enable` child,
which is not awaited, and the write of its outcome. It is one sequence of steps,
`call[c].pc`, that may end anywhere.

| State | In the code |
|---|---|
| `status[s]` | `payees.status` of the payee of address `s`; `not_approved` is split by `lastGrantOutcome` into `denied` and `expired`. `grantApproved` is written only together with `approved` |
| `attempt[s]` | beneficiary, nickname, caps and expiry on the row: whose request they are |
| `aged[s]` | `pendingGrantExpiresAt` is past |
| `rail[r]` | the row of `payee_payment_methods` with lookup hash `r`: owner and status |
| `call[c]` | the local state of a call |
| `perflo[c]` | the approval that Perflo opened for the call: open, given or refused |
| `overtaken` | history: payees whose row was expired while its attempt could still be answered |

| Action | In the code |
|---|---|
| `Begin`, `CreatePerfloRecipient` | `findExistingApproval` and the registration of a beneficiary, in `approvePayee` |
| `SweepInline`, `Lookup`, `Claim`, `FindRail`, `StoreRail`, `Create` | the statements of `startPendingGrant`; a refusal by the partial unique index or another unique key is one more outcome of `Claim`, `StoreRail` and `Create` |
| `Spawn`, `Close` | `enableGrantViaPerfloCli`: the child starts, and ends by itself with output that `classifyBeneficiaryAddStdout` reads (`Readings`) |
| `ApplyGrantOutcome` | the guarded `updateMany` of the outcome |
| `GiveUp` | a crash, an exception, the child's time limit, an unreadable answer: nothing is written |
| `ReconcileStuckGrantApprovals`, `Age` | the worker's sweep; time |
| `RevokePaymentRail` | `revokeRailAction` |
| `Decide` | the owner in the browser |

`LastLine` is an assumption about the CLI: when it ends by itself, it has printed
its final answer. The code relies on it without checking (finding 4); the
passing run and the theorems assume it where they say so, and `unfinished` drops
it. The second assumption is not a constant but a history variable: the row's
timeout and the child's are set by two clocks, the row's starting first, so a
row may expire while Perflo still waits. `OneApprovalAtPerflo` and
`ApprovedAsAsked` hold for payees that this has not happened to, and the
exception is in the properties for all to see; `LockSpec` and `ApprovedStays`
hold without it.

### GrantLock

`phase[s]` (unknown, free, holding, approved) and `authorised`, the payees with
authority at Perflo. One holder at a time; `approved` only from `holding` and
only with authority for that payee; nothing leaves `approved`. `GrantApproval`
implements it with `phase` computed from `status` and `authorised` from what
Perflo was told. It does not promise that the approved attempt is the one the
authority was given to: a late answer of an expired attempt settles the retry.

### Extraction and Level1

`Extraction` is pure. A pattern of the source is a mark, a figure or a reference
it finds in the mail or does not: the operators are what the code makes of what
was found. `Rules` is the cascade of `classifyEmail` with its confidences;
`ClassifyByModel` and `ExtractByModel` are the language model's paths, with the
answer an input that may be anything (`None`: late, or no answer).

| State of `Level1` | In the code |
|---|---|
| `env` | what `loadApprovedPayees`, `loadPayeeUsage` and the history query returned, and the process environment |
| `marks`, `text`, `envelope` | what the mail contains, fixed at the stage that first looks at it |
| `cls`, `extraction`, `found`, `verdict` | `classification`, `extraction`; resolution, verification and duplicate check; decision and reasons |

`FilterJunk`, `Classify`, `NotPayable`, `Extract`, `Identify` and `DecidePolicy`
are the stages of `processLevel1` in its order, with its early returns. A query
without an order is a choice (`Duplicates`: `findDuplicate` takes the first
prior it meets).

### GmailSync

| Action | In the code |
|---|---|
| `BeginSync`, `LoadCheckpoint` | `syncOnce` up to the window; without a checkpoint it counts from the clock |
| `FetchAndStore` | `fetchNewGmailMessages`, newest first up to the limit, and `createMany` |
| `SaveCheckpoint`, `FailSync` | the pass ends, or throws or dies before it has saved |
| `CreateCheckpoint` | the digest's or the pause button's upsert of the row |
| `Arrive`, `Index`, `Tick` | Gmail, whose search may lag behind; the clock |

`late`, `cut` and `opened` are history variables that name what `MailKept`
excuses: a mail that Gmail finds only after the overlap, a mail over the limit
of a fetch, and a mail older than a window that was opened without a checkpoint.
The second is a real loss: a backlog of more than twenty mails is cut at its old
end (`gmail.ts:94-96` says so of the order), and the checkpoint moves on.

### AutoPay

One action per statement or per purchase of a call: `Open` (`preparePayment`,
`confirmPayment`, `runPaidVerificationAction`), `Ingest`, `Retry`, `Reevaluate`
and `Resume` begin one; `ReadInvoice` and `WriteDecision` are
`reevaluatePolicy`; `ReadEvidence`, `BuyCheck`, `EndChecks` are
`runPaidVerifierForEmail`; `Gate`, `ClaimIntent`, `RecordPayment` are
`runAutoPayIfEligible` and the payment; `StopCall` is an exception or a death
anywhere; `PayeeChanges`, `ModeChanges`, `Settle` are the owner, the environment
and the reconciler.

`crossed`, `doubted` and `untracked` name what the caps and the budget depend
on, and each of them is something the code does not prevent:

* two calls at once may pass a cap together and may buy the checks of one
  invoice twice (`crossed`): usage counts landed payments (`payment-usage.ts`)
  and evidence is read before the checks and written after them. README.md:73,
  "one in flight per recipient", is not kept by anything: `runWithPayeeLock` has
  no caller;
* a payment whose outcome is unknown is not counted (`doubted`);
* a check that was charged without a price, or whose call died, or whose
  evidence a retry has cleared, is paid for again (`untracked`). Perflo is taken
  at its word that it charges no more than the price cap it was given.
  `spentOn` and `untracked` are history variables and are kept only until calls
  cross, since nothing is claimed of them afterwards.

What does hold without them is `AutoPayDue`: the fresh evaluation in a
resumption, and not the stored reasons, is what protects it. A failed check moves
a quarantined row to the owner's queue, where its reasons still name the
suspicion (`SuspicionNamed`). The candidates of a resumption are read without
`reviewStatus`, so the module has none: an invoice that the owner has rejected is
resumed like any other.

### Intake

| State | In the code |
|---|---|
| `book` | what each mail is by `payees`, `payee_payment_methods` and the use of the grants: payable, held by a gate, tampered with, of a new payee, of a payee with other details, or suspect whoever sent it |
| `row[m]` | of an `emails` row: `level1ProcessedAt`, `policyDecision`, and whether `resolvedPayeeId` is set |
| `stamp[a]` | `newPayeeApprovalEmailSentAt` and `quarantineAlertSentAt` of a row, each with the pass that set it (the code has the time, which tells a pass its own claim) |
| `copy[a]` | what Gmail has of the copy sent under the stamp: nothing, a copy whose answer was lost, one that the sender knows of, or one more |
| `launched` | mails whose auto-pay has gone to execution |
| `pc[c]`, `todo[c]`, `seen[c]`, `history[c]`, `stamped[c]`, `task[c]` | where a pass is, the rows it has read, the payees, fingerprints and stamps it decides from, what it does with each row |

| Action | In the code |
|---|---|
| `StoreBatch`, `ReadBatch`, `ReadBatchHistory`, `NextRow`, `FinishRow` | `ingestGmailMessages` and `processInsertedEmails`: in turn, with the history read again after each row |
| `ReadPending`, `ReadPendingHistory`, `FinishPass` | `processPendingLevel1`: all at once, with one history |
| `LoadPayees` | `loadApprovedPayees`, once in a batch, a backlog and a retry; `Open` reads the use of the grant with the row |
| `Judge`, `ClaimAlert`, `SendAlert`, `TakeBackAlert`, `Launch` | `processEmailRow` and `notifyForDecision`; `SendAlert` is refused, accepted, or accepted with the answer lost, and only the middle one leaves the stamp |
| `AskRetry`, `ClearRow`, `ReadRetried`, `ReadRetriedHistory` | `retryReviewProcessing` and the CLI, with `review-retry.ts`'s check made twice |
| `PayeesChange` | the owner's actions on payees, a grant that is used up or expires, at any time |
| `Die` | the process dies, with what it had claimed |

`overlapped`, `retried`, `abandoned` and `deaths` are the exceptions of the
properties, and the model's behaviours show each to be needed. When passes
overlap, or the rows of a backlog are decided together, two mails of one invoice
are both decided as new and both paid: README.md:72 ("the same invoice never
pays twice") then rests on nothing. After a retry of the original, the original
is compared with its own replay, and both are ignored. A pass that dies between
the stamp and the send loses the alert for good.

Payees are loaded afresh by every pass, so a row may change sides: one that was
alerted as of a new payee is decided `auto_pay`, or `quarantine` with a second
alert under the other stamp, once the owner has approved the payee and retries
it. `ReviewedNotPaid` is what `ingest.ts:347-348` promises of that: neither the
retry nor a later pass launches it. It holds while passes take turns and do not
die. The retry clears the row in the app and decides it in a child process, and
in between the row is like a new one: a poll that overlaps the retry, or the
first one after a child that was killed at its 30 seconds, decides it with
auto-pay allowed, and launches it.

### Outbox, GrantWarning, DailyDigest

`Outbox` is claim, send and take-back over a set of items. What can be promised
of a sender that hears an answer or does not: nothing is sent without a claim,
a copy that is known to have been accepted is the last one, and a claim may be
taken back when its copy was refused or its answer was lost. In the last case the
owner gets the item twice: `sendEmail` (`gmail.ts:44-55`) throws on a timeout as
on a refusal, and `ingest.ts:183-184` and `207-208` clear the stamp of either.
`Intake`'s alerts (`AlertsOnce`) and the warnings (`WarningsOnce`) implement it
with the box computed from stamps and copies. The warnings do not take a claim
back, so they are sent at most once whatever becomes of the answer, and one that
fails is never sent (`grant-expiry-warning.ts:65`; `unsent` there are the claims
whose warning was not accepted, and a lost answer is not among them); what
liveness holds is that every payee gets its claim (`EveryGrantClaimed`).

The digest has its claim in one column for all days, guarded by the value the
pass has read: `OneDigestADay` and `NothingBetweenDigests` say what that gives
when polls overlap, cross midnight or fail; `dropped` are the lines of digests
that were claimed and not sent. That something happens, and the time it says it
happened at, are one step (`Happen`): the moment between `new Date()` and the
commit of the write is not in the model. Waiting invoices are excepted from the second
property because the query has them only when somebody has touched them:
`reviewStatus: { not: "rejected" }` (`daily-digest.ts:52-56`) is false for the
null that every new row has (`schema.prisma:69`), so an invoice that nobody has
looked at is never in the list that is to remind of it (`docs/DECISIONS.md:758`).

## 3. Runs

| Run | Expect | Properties | Shows |
|---|---|---|---|
| `perflo` | pass | `TypeOK`, `PaidIsBacked`, `OnePayoutPerRound`, `LedgerSpec`, `DoubtWaits` | without an idempotency key at the provider, the row lock and the doubt bucket limit requests to one per recorded failure; a doubt that cannot be looked up waits for the owner |
| `razorpay` | pass | `NoSecondPayout`, `LockedRowKeepsTerms` | with one, no race or misread HTTP error pays twice; locked rows keep their terms |
| `live` | pass | `ClaimResolves`, `ReferenceResolves` | claims and answerable doubts are resolved by the worker alone |
| `race` | violation | `RetryIsSafe` | finding 1 |
| `stale_reference` | violation | `FailureIsOfLastRequest` | finding 2 |
| `terms` | violation | `RecordIsWhatWasPaid` | finding 3 |
| `grants` | pass | `TypeOK`, `OneApprovalAtPerflo`, `ApprovedAsAsked`, `ApprovedStays`, `LockSpec`, `LockReleased` | approvals exclude each other, a late outcome undoes nothing, and a dead call does not keep the lock |
| `unfinished` | violation | `ApprovedHasGrant` | finding 4 |
| `rail` | violation | `ReusedRailIsActive` | finding 5 |
| `decision` | pass | `TypeOK`, `AutoPayBacked`, `InjectionContained`, `RailChangeReviewed`, `DoubtfulNotPaid`, `ReplayDropped` | what may be paid without the owner, whatever a language model answers and whatever one of the checks finds |
| `notices` | pass | `NoticesTypeOK`, `PaidOnceInTurn`, `OneStays`, `ReviewedNotPaid`, `StampBacked`, `AlertsOnce`, `EveryRowJudged`, `WarningsOnce`, `EveryGrantClaimed`, `OneDigestADay`, `NothingBetweenDigests` | what overlapping, dying passes make of rows, alerts, warnings and digests |
| `services` | pass | `ServicesTypeOK`, `MailKept`, `AutoPayDue`, `CheckedBeforePaid`, `CapInTurn`, `BudgetKept`, `UnverifiedStands`, `SuspicionNamed` | overlapping syncs lose no mail; the guardrails of auto-pay and the budget of the checks under changing payees and modes |

Bounds. One invoice: rows do not share anything but the set of keys, so two
rows add interleavings and no behaviour (the proofs cover any number). Two
callers: a race, or a caller and a late one; two or three payouts: a first
request, its retry, and one too many. `MaxFailures` bounds how often a row may
be claimed again and so how often it may be sent for: with 1, a row fails, is
retried and fails again, which is what a stale reference, a late answer and a
second key need. One reconciler: what it does between scan and write is already
interleaved with callers and crashes; the theorems hold for any number. The
`razorpay` run has two versions of the terms, because `LockedRowKeepsTerms` is
about rewriting one by the other. `live` uses one caller, which may crash or
stop anywhere: more callers only help to resolve a row.
Symmetry is used on interchangeable model values, and not in `live`.
`grants` has two payees, two methods and two calls: two payees that race for the
lock, two clicks for one payee, and the retry of an expired attempt whose child
is still alive are all pairs of calls; a call is made once, so `Call` also
bounds how often an approval is tried. The violations need one payee and one
method, and are shown with them.

`decision` starts every stage from a mail that is paid automatically and departs
from it in one respect per stage (`MCLevel1`): each threshold, each check and
each disagreement is met from both sides, and a path departs at up to six
places. The theorems have no such restriction.
`notices` has two mails that ask for the same invoice, which come one after the
other or together; or one mail, of a payee that is approved or turns out to be
another's while it is being decided, or whose grant is used up or account
replaced (`Books`, `Changes`, `Batches` in `MCNotices`); two passes, one of them
the worker's, which never retries; one death anywhere. Two mails are a pair of
replays and two passes a race; a third mail was not needed by any mutant. That
payees change under a pair of replays is left to the theorems. For the warnings: two payees, two passes, one
stop. For the digest: two passes, a payment and a waiting invoice, and four
ticks, that are two days of two hours, the second of which is the digest's: a
pass that begins at the end of one day and claims on the next is among them.
`services` has a fetch limit of one and an overlap of one tick with two mails,
so that a fetch can be cut and an index late; and two invoices, a cap of one
payment, a budget of one unit for two checks, two calls and one change of the
payee or the mode. `AutoPay` admits no call after one that overlaps another,
which bounds the run; that call itself runs to its end against the other. Mails
and syncs are interchangeable there (`Alike`); the run has no liveness property,
and invoices and callers, which are not alike, are left out of the symmetry.

Deadlock is checked in the runs of the payments and the approvals: the worker's
passes and sweeps never end. `decision` ends with its mail, and in `services`
and `notices` the bounds on calls, ticks, deaths and stops end a behaviour, so
it is not checked there.

Fairness (`FairSpec`) is what `index.ts` gives: `setInterval` starts pass after
pass and a pass runs to its end unless its process dies, hence weak fairness of
each of a pass's steps, and strong fairness of those that a crash may disable
again and again (`Scan`, `Poll`, `WriteReconciled`): a worker that is killed in
the middle of *every* pass is excluded. A payout that was accepted is settled
some day, and a lookup of a settled payout is not thrown away every time.
Callers, the owner, extraction and the acceptance of requests are not fair.
`grants` assumes only that time passes (`Age`) and that the worker sweeps
(`ReconcileStuckGrantApprovals`, again `setInterval`); no call has to go on, no
owner has to answer.
`notices` assumes that the worker goes on polling and a started pass of it goes
on (`Polls`, weakly fair as a whole: a pass is a sequence, so that some step of
it is always enabled, and `setInterval` starts the next), and the same of the
warnings (`Reminds`). For `EveryRowJudged` that means that polling is not paused
for good and that a fetch succeeds again and again, since a poll that cannot
fetch throws before it comes to its backlog (`sync.ts:46-49`); an alert or a
warning may fail every time. Nothing is assumed of the app, of "Sync now" or of a
retry's child; each may stop for ever between any two statements.
`decision` and `services` state no liveness and assume no fairness.

## 4. Findings

1. **The loser of a claim fails the winner's row** (`payment-execution.ts:69`).
   "Already being processed by another worker" is a plain `Error`; the catch
   block makes it `failed` and writes where `status = "claimed"`, which is the
   winner's claim. The row is open to a retry while its payout is under way.
   `OnePayoutPerRound` and `NoSecondPayout` show how far that goes: with
   RazorpayX the key still prevents a second payout; with Perflo it is another
   request.
2. **A claim keeps the last attempt's reference** (`payment-claim.ts:29`). If
   the retry dies after sending, the reconciler settles the row by the *first*
   payout's outcome.
3. **What is paid is read before the claim** (`manual-pay.ts:51`). A repair in
   between makes the record of a paid row differ from what was paid.
4. **An unfinished CLI output reads as an approval** (`perflo-cli.ts:586`). The
   first line of `policy enable` is `{"ok":true,"status":"awaiting_browser"}`.
   When the child ends without a last line, that first line is the last JSON
   line, `ok` is true, and the payee becomes approved while Perflo still waits.
5. **A retry goes on with any method of that hash**
   (`payee-approval-deps.ts:207`), also one that was revoked or is another
   payee's. The payee is then approved without an active method, so no invoice
   is ever matched with it.

Eight more disagreements have no run of their own: the properties of `decision`,
`notices` and `services` hold under conditions, and these are what the conditions
leave out. `README.md:72` and `docs/EDGE_CASES.md:34` (a resent invoice is never
paid) when the payee has used the reference for something else as well:
`findDuplicate` takes the first earlier mail with it, from a query without an
order (`duplicate-detector.ts:21`), and a fallback or another amount in front of
the replay hides it (`Replayed # Asked`, in `ReplayDropped`).
`duplicate-detector.test.ts:23` (another amount under the same reference requires
approval), because `level1-pipeline.ts:134` does not pass the conflict on to
`decidePolicy` and only the review drawer reads it (likewise). Strengthening
`ReplayDropped` by either promise makes TLC find a mail that is paid.
`README.md:72` (one invoice never pays twice) when passes overlap or a backlog is
decided together (`overlapped`, in `PaidOnceInTurn`); `ingest.ts:347-348` (a
retry never turns a reviewed email into a new automatic payout) when a poll
overlaps the retry or follows one that died (`overlapped` and `deaths`, in
`ReviewedNotPaid`); `README.md:73` (one payment
in flight per recipient), which nothing implements (`crossed`, in `CapInTurn`);
`gmail.ts:94-96` (a busy inbox is picked up in later ticks, not lost) for a
backlog of more than twenty (`cut`, in `MailKept`); an alert that a dead pass had
stamped (`abandoned`, in `StampBacked`); and the waiting invoices a digest never
lists (`KindOf` in `NothingBetweenDigests`; section 2).

## 5. Proofs

`PaymentExecutionProofs` proves, for every number of invoices, callers,
reconcilers, keys, terms and payouts and for both providers, from the
assumptions named in `PaymentExecution` (null is no value of the sets, a key is
no reference, the bound is a number):

| Theorem | States |
|---|---|
| `TypeCorrect` | `Spec => []TypeOK` |
| `PaidRowsAreBacked` | `Spec => []PaidIsBacked` |
| `RequestsNeedAFailure` | `Spec => []OnePayoutPerRound` |
| `HonouredKeyPaysOnce` | `Spec => []NoSecondPayout` |
| `LockedTermsStay` | `Spec => LockedRowKeepsTerms` |
| `LedgerImplemented` | `Spec => LedgerSpec`: the refinement of `PaymentLedger` |
| `PayoutsAreCounted` | an invoice's payouts are at most its recorded failures plus one, and no more than its failures while its row says `failed` |
| `DoubtIsLeftToOwner` | `Spec => DoubtWaits` |
| `RowsLiveAsCommented` | `Spec => RowsLive`: the refinement of `IntentStatus` |
| `PaidIsFinal` | no step takes a row back from `paid` |

None of the invariants is inductive by itself. `IInv` adds to the types what the
code knows but does not store in one place:

* `KeyInv`: a row has a key from its creation on, and it is nobody else's;
* `JobInv`: a caller past its claim holds the key of its row, and what it is
  about to write as paid has landed;
* `RowInv`: the reference of a row is null, its key, or one of *its own*
  payouts, and a pending row has sent nothing;
* `RoundInv`: a claim and a request both use up a round. This is the heart of
  `OnePayoutPerRound`: a round ends when `failed` is written, `failed` is the
  only way back to a claim, hence two callers past their claims are in
  different rounds, even when the first is late and its row was failed under it
  by a loser or a reconciler;
* `ReconInv`: what a reconciler took from its scan remains a reference of that
  row, whoever wrote in between;
* `HonourInv`: RazorpayX has made at most one payout of a key. With
  `KeyInv` it gives `NoSecondPayout`.

Steps that touch only a caller's or a reconciler's local state share one lemma
each (`LocalStep`, `LocalReconStep`). The refinement proof needs `IInv` in
`SendRefines` (the round spent is open and unspent) and in `PaidHasSpent`.
`IInv` was model-checked as an invariant on the `perflo` and `razorpay`
instances.

`PayoutsAreCounted` turns `OnePayoutPerRound` into a number: rounds are counted
from 0 by `failures`, each payout has one of its own (an injection), and a row
that says `failed` has just opened a round in which nothing is sent yet.
`RowsLiveAsCommented` goes through the ledger: a step of the ledger, seen as a
status alone, is a step of the life (`LifeStep`), so it costs no second case
split over the actions. For `DoubtIsLeftToOwner` it is the scan that matters:
`Stuck` and the guards of the reconciler are all that could move the row, and
`LeftToOwner` says that neither does, now or after the step (`DoubtStands`).

`GrantApprovalProofs` proves, for every number of payees, methods and calls, from
the assumptions named in `GrantApproval` (null is no value of the sets,
`LastLine` is a Boolean):

| Theorem | States |
|---|---|
| `TypeCorrect` | `Spec => []TypeOK` |
| `OneOpenApproval` | `Spec => []OneApprovalAtPerflo` |
| `ApprovalsAreAsAsked` | `Spec => []ApprovedAsAsked` |
| `ApprovalsStay` | `Spec => ApprovedStays` |
| `LockImplemented` | with `LastLine`, `Spec => LockSpec`: the refinement of `GrantLock` |
| `ApprovedHasAuthority` | with `LastLine`, `Spec => []ApprovedHasGrant` |

Its `IInv` has, beside the types:

* `LockInv`: one pending row at most, which the index keeps;
* `RowInv`: a row that exists holds the grant of a call that was made for its
  payee, so what the row says and whose attempt it is do not drift apart;
* `CallInv`: a call past `Begin` has a payee and a method, and Perflo knows of
  no approval for a call that has not spawned its child;
* `OutcomeInv`: with `LastLine`, the outcome in a child's hands is what Perflo
  said to that call;
* `OwnInv`: a call past its claim, or one Perflo still waits for, has its
  payee's row to itself, unless that payee was overtaken. This is what turns
  exclusion in the database into exclusion at Perflo: the row of such a call is
  pending, `LockInv` makes it the only one, and so two open approvals are one.

The refinement's approving step needs `OutcomeInv` and not `OwnInv`: whatever
attempt the row holds by then, Perflo gave authority to that payee.
`ApprovedHasAuthority` is carried over from the lock: no step of `GrantLock`
approves without authority or takes it away, hence no step of the code does. The
run `unfinished` refutes the same property without `LastLine`, so finding 4 is
all that stands between the code and `schema.prisma:176-177`. `IInv` was
model-checked with two payees, methods and calls, and with three calls for one
payee.

The modules of ingest, decision and notification have theorems of the same kind,
for every value of the component's constants, from the assumptions it names.
They are about the component's own specification (`IntakeSpec`, `SyncSpec`) and
carried over to the compositions that the runs check (`NoticesSpec`,
`ServicesSpec`).

| Module | Theorems | For any |
|---|---|---|
| `Level1Proofs` | `Level1Types`, `InjectionIsContained`, `AutoPayIsBacked`, `RulesPayInvoices`, `RailChangeIsReviewed`, `DoubtIsNotPaid`, `ReplayIsDropped`, `DecisionsByEvidence`, `FirstIsPaid` | mail, model answer, payees, usage, history, limits |
| `AutoPayProofs` | `AutoPayTypes`, `AutoPayIsDue`, `ChecksComeFirst`, `CapHolds`, `BudgetHolds`, `FailedChecksStand`, `SuspicionStaysNamed`, `AutoPayIntentsLive` | finite set of invoices, callers, cap, budget, checks |
| `ServicesProofs` | `SyncTypes`, `NoMailIsLost` | mailbox, number of syncs, overlap, limit, clock |
| | `ServicesAreBoth`, `ServicesTypes`, `ServicesKeepTheirWord` | all of these together |
| `IntakeProofs` | `IntakeTypes`, `StampsTellTheTruth`, `InvoiceLaunchedOnce`, `OneMailStays`, `ReviewedStaysUnpaid`, `AlertsAreAnOutbox` | finite set of mails, number of passes and deaths, payees and their changes |
| `NoticesProofs` | `WarningTypes`, `WarningsAreAnOutbox` | payees, passes, stops |
| | `DigestTypes`, `OneDigest`, `NothingFallsBetween` | events, passes, clock, hour |
| | `NoticesAreTheirParts`, `NoticesTypes`, `NoticesKeepTheirWord` | all of these together |

Their invariants, and what each adds:

* `Level1Inv` ties the stages together: `ClassifiedInv` and `StageInv` say that
  what a stage left is what the operators of `Extraction` make of the mail (so an
  injection reaches no extraction), `EnvelopeInv` that the findings are the
  verifier's and the resolver's of that envelope, `DecisionInv` that the verdict
  is `decidePolicy`'s of those findings. What remains is the reasoning a reader
  of the policy would do: no blocker is left, hence each check has passed.
  `Reads` (the extraction is that of the text by the rules or by some answer of
  the model) and the lemma `ReadReference` (a reference is sure only if the
  rules' own, where there is one, agrees) give `DoubtIsNotPaid` and
  `ReplayIsDropped`. They use `HashAssumption`: nobody spells the hash that the
  extractor makes up for a mail without a reference.
  Two theorems say what the modules that take Level 1's word rely on. `Intake`
  has a verdict of its own and `AutoPay` an evidence and a `DecisionFor`; neither
  is Level 1, and a decision could come out differently there. `DecisionsByEvidence`
  splits `decidePolicy` and the currency guard into evidence and gates as
  `AutoPay` has them, and `FirstIsPaid` is `Intake`'s verdict on a payable mail
  with its gates open. `DecidedByEvidence` and the last one were model-checked on the
  instance of `decision`, where each kind of evidence occurs.
* `SyncInv` has `Covered(bound)`: every mail before the bound that nothing
  excuses is stored. It is said of the checkpoint's window, of the window of a
  pass that has read it, and of the window that a pass will save. `Past(bound)`
  adds that a mail before the bound that appears from now on is late. Together
  they make saves in any order harmless.
* `AutoPayInv`: `PayInv` (who pays has claimed), `LeftInv` (only a purchase has
  a rest of a budget), `DueInv` for `AutoPayDue` without any condition, and
  `TurnInv`, which holds while calls come one at a time: `Alone`, `RowsInv` (what
  a row says of its checks, its suspicion and its charges) and `InTurn` (what a
  call has read is still so; what it has spent and has left is the budget).
* `IntakeInv`: `TodoInv` (work is on stored rows), `AlertInv` (an alert on its
  way is stamped by the pass that sends it, and nothing is known to be accepted
  under that stamp), and `TurnInv` while passes take turns: `AloneInv`,
  `LaunchedInv` (one mail, decided so), `PassInv` (the history a pass decides a
  resolving row from is the present one) and `FirstInv` (of the resolving mails
  that are decided one is not ignored). `ReviewInv`, for `ReviewedStaysUnpaid`,
  follows a reviewed mail: it is decided, so that no pass takes it up, or in the
  hands of a retry, which does not launch. That it is never undecided and nobody's
  is what a death takes away.
* `WarnInv`: a pass that is sending has the claim alone, and nothing has been
  sent under it.
* `DigestInv`: a pass began on a later day than the digest it read (`BeganInv`),
  so a claim it wins is the first of its day (`ClaimInv`, `DayInv`); its lines
  have everything from the last claim to its beginning (`LinesInv`).
  `DayAssumption`: days do not run backwards.

* `ServicesAreBoth`, `NoticesAreTheirParts`: a behaviour of a composition follows
  one part and leaves the others' variables alone, so each step is a step of
  every part or nothing to it; `PartInv` is that the choice is never revised. The
  theorems of the parts then hold of the whole, refinements included.

Each was also model-checked on its run's instance.

Only model-checked: the liveness properties `ClaimResolves`, `ReferenceResolves`,
`LockReleased`, `EveryRowJudged` and `EveryGrantClaimed`, since fairness is beyond
the prover. Every invariant, action property and refinement that a passing run
checks is a theorem. Two theorems state properties that no run repeats:
`RulesPayInvoices` (`RulesPayInvoicesOnly`) and `AutoPayIntentsLive`
(`IntentsLive`); both were model-checked on the instances of `decision` and
`services` before they were proved. The properties of the violation runs other than
`ApprovedHasGrant` are false, with nothing to prove.

## 6. Plan

Done: payments and their proofs; approvals and their proofs; extraction and the
Level 1 decision; sync, ingest and retry; auto-pay and paid verification; alerts,
warnings and the digest; the proofs of all of these, and of the compositions; one
idea of a payment's status for `AutoPay` and `PaymentExecution` (`IntentStatus`).

Left, in this order:

1. `AutoPay`'s checks and gates with `PaymentExecution`'s terms: that what is
   paid is what was checked, or what the repair in between excuses;
2. the conversion of amounts between rupees, minor units and what each provider
   takes, as operators checked against a reference.

## 7. Not modelled

What a pattern matches in a mail (`Extraction` begins with what was found), MIME
and PDF text; encryption and validation of payment methods (no state); Perflo's
set-up scripts, run by hand; rendering and authentication; demo data and
backfills. `PROJECT.json` gives the reason for each component.

Left out of the modules above:

* payments: amounts and their conversion (one opaque value with currency and
  recipient), error texts, timestamps other than a claim's age, and the policy
  label on the email, which `confirmPayment` does not look at;
* approvals: the link shown to the owner (display only), and validation of the
  request, whose failures end a call before it has done anything;
* sync: the pause flag (a paused poll is one that does not begin) and the order
  of Gmail's rows within a batch (any order);
* Level 1: `processLevel1`'s optional paid verification, which no caller passes,
  and the contents of the history beyond a fingerprint;
* auto-pay: `preparePayment` and `confirmPayment` are one `Open`, since what
  tells them apart is `PaymentExecution`'s; the toggle is one step
  (`PayeeChanges`), while in the code two clicks may cancel each other out
  (`payee-actions.ts:111`); an exception ends a whole resumption (`StopCall`),
  while `resume-auto-pay.ts:82-84` goes on with the next candidate, which in the
  model is another `Resume`; all invoices of the module are one payee's;
* digest: `updateReviewAction` appears as `Touch` only, and spend lines are left
  out: they are reported like payments.

`runWithPayeeLock` (`payee-serialization.ts`) has no caller outside its test, so
nothing serializes the payments of one payee.
