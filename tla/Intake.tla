------------------------------- MODULE Intake -------------------------------
(***************************************************************************)
(* From a fetched batch to decided rows (worker/src/ingest.ts, sync.ts,    *)
(* retry-level1-cli.ts, app/app/actions.ts): every pass stores its batch,  *)
(* decides the new rows of it one after the other, then all rows still     *)
(* undecided at once; the owner's retry clears a row and decides it again. *)
(* Passes run in several processes, in any number, and may die anywhere.   *)
(*                                                                         *)
(* What Level 1 makes of one mail is Level1's; here it depends on what the *)
(* mail is, on the payees the pass has loaded, which the owner and Perflo  *)
(* change at any time, and on the earlier mails it has read.               *)
(* AUTO_PAY_MODE is on.  The mails all ask for one and the same invoice:   *)
(* those that resolve to its payee are replays of each other.              *)
(***************************************************************************)
EXTENDS Naturals, FiniteSets

CONSTANTS
  Mail,
  Pass,         \* processes: the worker's polls, "Sync now", retries
  Worker,       \* the one that polls and does nothing else
  Book,         \* bound: what the payee tables may say, and so what mails are
  Later,        \* bound: what they may say next
  Mailbox,      \* bound: the batches that Gmail may return meanwhile
  MaxDeaths,    \* bound: passes that die
  None          \* null

\* What Level 1 finds of one mail alone.  It resolves to its payee, and every
\* gate is open, or one is not, or the mail is not what the payee's are; or it
\* resolves to none: its payee is new, or known with other details.
Resolving == {"payable", "held", "tampered"}
Kind == Resolving \union {"unknown", "changed", "suspect"}

\* Of the payees only matters what they make of each mail.
ASSUME BookAssumption == Book \subseteq [Mail -> Kind]
ASSUME MailboxAssumption ==
  Later \in [Book -> SUBSET Book] /\ Mailbox \in [Book -> SUBSET (SUBSET Mail)]
ASSUME PassAssumption == Worker \in Pass /\ None \notin Pass /\ MaxDeaths \in Nat
ASSUME MailAssumption == IsFiniteSet(Mail)

VARIABLES
  book,         \* payees and their methods: what each mail is by them
  row,          \* emails: what is stored of each mail, None without a row
  stamp,        \* who set the stamp of each alert, None when it is null
  copy,         \* what became of the last copy sent under the stamp
  launched,     \* mails whose auto-pay has gone to execution: intents
  pc,           \* where each pass is
  todo,         \* the rows it has read and not finished
  seen,         \* the payees it has loaded
  history,      \* the fingerprints it has read
  stamped,      \* the alerts that were stamped when it read the rows
  task,         \* what it is doing with each row
  \* history of the run
  overlapped,   \* two passes, or two resolving rows of one, ran at once
  retried,      \* mails the owner has had cleared
  abandoned,    \* alerts that a pass had claimed when it died
  deaths

rowVars == <<book, row, stamp, copy, launched>>
passVars == <<pc, todo, seen, history, stamped, task>>
logVars == <<overlapped, retried, abandoned, deaths>>
intakeVars == <<rowVars, passVars, logVars>>

Decided == {"auto_pay", "needs_approval", "quarantine", "ignore"}

\* Only what is decided concurrently matters of a row.  A decision of None is
\* null.
Row == [judged : BOOLEAN,                    \* level1ProcessedAt is set
        decision : Decided \union {None},    \* policyDecision
        resolved : BOOLEAN]                  \* resolvedPayeeId is set

ASSUME NoneIsNull == None \notin Row /\ None \notin Decided

NewRow == [judged |-> FALSE, decision |-> None, resolved |-> FALSE]

\* newPayeeApprovalEmailSentAt goes with the decision needs_approval and
\* quarantineAlertSentAt with quarantine.
Alert == Mail \X {"needs_approval", "quarantine"}

\* The copy that Gmail has accepted under the stamp: none; one whose answer
\* was lost; one that the sender knows of; or one more.
Copy == {"none", "lost", "known", "twice"}

Step == {"none", "judge", "claim", "send", "take back", "pay", "done"}
Task == [step : Step, decision : Decided \union {None}]
NoTask == [step |-> "none", decision |-> None]

Stored == {m \in Mail : row[m] # None}
Unjudged == {m \in Stored : ~row[m].judged}

IntakeInit ==
  /\ book \in Book
  /\ row = [m \in Mail |-> None]
  /\ stamp = [a \in Alert |-> None] /\ copy = [a \in Alert |-> "none"]
  /\ launched = {}
  /\ pc = [c \in Pass |-> "idle"]
  /\ todo = [c \in Pass |-> {}]
  /\ seen = [c \in Pass |-> None]
  /\ history = [c \in Pass |-> {}]
  /\ stamped = [c \in Pass |-> {}]
  /\ task = [c \in Pass |-> [m \in Mail |-> NoTask]]
  /\ overlapped = FALSE /\ retried = {} /\ abandoned = {} /\ deaths = 0

---------------------------------------------------------------------------
(* One row: processEmailRow *)

\* (Mutation: rows that are not decided yet are history too.)
AllFingerprints == {m \in Stored : book[m] \in Resolving}

\* fingerprintsFromRows of the rows with level1ProcessedAt: a row that did not
\* resolve has none.
Fingerprints == {m \in Stored : row[m].judged /\ row[m].resolved}

\* What the mail is to the pass, by the payees it has loaded.
Is(c, m) == seen[c][m]

Resolves(c, m) == Is(c, m) \in Resolving

\* The gates: by the payees it has loaded, and by the use of the grant, which
\* is read with the row (loadPayeeUsage).
Open(c, m) == Is(c, m) = "payable" /\ book[m] # "held"

\* decidePolicy: what is quarantined is, then a replay is ignored, and a mail
\* is not its own replay.
Verdict(c, m) ==
  CASE Is(c, m) \in {"suspect", "tampered"} -> "quarantine"
    [] Is(c, m) \in {"unknown", "changed"} -> "needs_approval"
    [] Is(c, m) \in {"payable", "held"} ->
         IF history[c] \ {m} # {} THEN "ignore"
         ELSE IF Open(c, m) THEN "auto_pay" ELSE "needs_approval"

\* notifyForDecision has something to tell.
Alerting(c, m) == Is(c, m) \in {"suspect", "tampered", "unknown"}

\* (Mutation: a retry launches too.)
AfterJudgingAnywhere(c, m) ==
  IF Alerting(c, m) THEN IF <<m, Verdict(c, m)>> \in stamped[c] THEN "done" ELSE "claim"
  ELSE IF Verdict(c, m) = "auto_pay" THEN "pay" ELSE "done"

\* What notifyForDecision and the launch are due for; a retry never launches.
AfterJudging(c, m) ==
  IF Alerting(c, m) THEN IF <<m, Verdict(c, m)>> \in stamped[c] THEN "done" ELSE "claim"
  ELSE IF Verdict(c, m) = "auto_pay" /\ pc[c] # "retry" THEN "pay" ELSE "done"

Judge(c, m) ==
  /\ task[c][m].step = "judge"
  /\ row' = [row EXCEPT ![m] = [judged |-> TRUE, decision |-> Verdict(c, m),
                                resolved |-> Resolves(c, m)]]
  /\ task' = [task EXCEPT ![c][m] = [step |-> AfterJudging(c, m), decision |-> Verdict(c, m)]]
  /\ UNCHANGED <<book, stamp, copy, launched, pc, todo, seen, history, stamped, logVars>>

\* The alert that the pass's verdict calls for.
AlertOf(c, m) == <<m, task[c][m].decision>>

\* (Mutation: the row is stamped whatever it says.)
Unguarded(c, m) == TRUE

\* The guard of the claim's updateMany.
Unclaimed(c, m) == row[m].decision = task[c][m].decision /\ stamp[AlertOf(c, m)] = None

ClaimAlert(c, m) ==
  /\ task[c][m].step = "claim"
  /\ IF Unclaimed(c, m)
     THEN /\ stamp' = [stamp EXCEPT ![AlertOf(c, m)] = c]
          /\ task' = [task EXCEPT ![c][m].step = "send"]
     ELSE /\ task' = [task EXCEPT ![c][m].step = "done"]
          /\ UNCHANGED stamp
  /\ UNCHANGED <<book, row, copy, launched, pc, todo, seen, history, stamped, logVars>>

\* One more copy has been accepted.
Delivered(a, answer) == IF copy[a] = "none" THEN answer ELSE "twice"

\* Gmail accepts it; or it does not; or it does and sendEmail throws all the
\* same, the answer being lost.
SendAlert(c, m) ==
  /\ task[c][m].step = "send"
  /\ \/ /\ task' = [task EXCEPT ![c][m].step = "done"]
        /\ copy' = [copy EXCEPT ![AlertOf(c, m)] = Delivered(AlertOf(c, m), "known")]
     \/ /\ task' = [task EXCEPT ![c][m].step = "take back"]
        /\ \/ UNCHANGED copy
           \/ copy' = [copy EXCEPT ![AlertOf(c, m)] = Delivered(AlertOf(c, m), "lost")]
  /\ UNCHANGED <<book, row, stamp, launched, pc, todo, seen, history, stamped, logVars>>

\* (Mutation: the stamp of a failed alert stays.)
KeepStamp(c, m) == stamp[AlertOf(c, m)]

\* The stamp that goes back is the pass's own.
StampAfterFailure(c, m) ==
  IF stamp[AlertOf(c, m)] = c THEN None ELSE stamp[AlertOf(c, m)]

TakeBackAlert(c, m) ==
  /\ task[c][m].step = "take back"
  /\ stamp' = [stamp EXCEPT ![AlertOf(c, m)] = StampAfterFailure(c, m)]
  /\ copy' = [copy EXCEPT ![AlertOf(c, m)] = "none"]
  /\ task' = [task EXCEPT ![c][m].step = "done"]
  /\ UNCHANGED <<book, row, launched, pc, todo, seen, history, stamped, logVars>>

\* runAutoPayIfEligible: the paid checks may refuse; else the mail gets its
\* intent and the intent is executed.
Launch(c, m) ==
  /\ task[c][m].step = "pay"
  /\ launched' \in {launched, launched \union {m}}
  /\ task' = [task EXCEPT ![c][m].step = "done"]
  /\ UNCHANGED <<book, row, stamp, copy, pc, todo, seen, history, stamped, logVars>>

RowStep(c) ==
  \E m \in todo[c] : \/ Judge(c, m) \/ ClaimAlert(c, m) \/ SendAlert(c, m)
                     \/ TakeBackAlert(c, m) \/ Launch(c, m)

---------------------------------------------------------------------------
(* A pass *)

\* Another pass is under way.
Overlaps(c) == \E d \in Pass \ {c} : pc[d] # "idle"

\* ingestGmailMessages up to createMany with skipDuplicates.
StoreBatch(c, batch) ==
  /\ pc[c] = "idle"
  /\ row' = [m \in Mail |-> IF m \in batch /\ row[m] = None THEN NewRow ELSE row[m]]
  /\ todo' = [todo EXCEPT ![c] = batch]
  /\ pc' = [pc EXCEPT ![c] = IF batch = {} THEN "pending" ELSE "batch"]
  /\ overlapped' = (overlapped \/ Overlaps(c))
  /\ UNCHANGED <<book, stamp, copy, launched, seen, history, stamped, task, retried,
                 abandoned, deaths>>

\* The alerts of these rows that are stamped.
StampedOf(rows) == {a \in Alert : a[1] \in rows /\ stamp[a] # None}

\* processInsertedEmails reads the rows of the batch that are not decided.
ReadBatch(c) ==
  LET rows == todo[c] \intersect Unjudged IN
  /\ pc[c] = "batch"
  /\ todo' = [todo EXCEPT ![c] = rows]
  /\ stamped' = [stamped EXCEPT ![c] = StampedOf(rows)]
  /\ pc' = [pc EXCEPT ![c] = IF rows = {} THEN "pending" ELSE "batch payees"]
  /\ UNCHANGED <<rowVars, seen, history, task, logVars>>

\* loadApprovedPayees, of a batch, a backlog or a retry.
LoadPayees(c) ==
  /\ \/ pc[c] = "batch payees" /\ pc' = [pc EXCEPT ![c] = "batch history"]
     \/ pc[c] = "pending payees" /\ pc' = [pc EXCEPT ![c] = "pending history"]
     \/ pc[c] = "cli payees" /\ pc' = [pc EXCEPT ![c] = "cli history"]
  /\ seen' = [seen EXCEPT ![c] = book]
  /\ UNCHANGED <<rowVars, todo, history, stamped, task, logVars>>

ReadBatchHistory(c) ==
  /\ pc[c] = "batch history"
  /\ history' = [history EXCEPT ![c] = Fingerprints]
  /\ pc' = [pc EXCEPT ![c] = "in turn"]
  /\ UNCHANGED <<rowVars, todo, seen, stamped, task, logVars>>

\* The next row of the batch, in Gmail's order, which is not modelled.
NextRow(c) ==
  /\ pc[c] = "in turn"
  /\ \A m \in Mail : task[c][m].step = "none"
  /\ \E m \in todo[c] : task' = [task EXCEPT ![c][m].step = "judge"]
  /\ UNCHANGED <<rowVars, pc, todo, seen, history, stamped, logVars>>

\* (Mutation: the history is read once for the batch.)
SameHistory(c) == history[c]

\* The history is read again after every row.
HistoryAfterRow(c) == Fingerprints

FinishRow(c) ==
  /\ pc[c] = "in turn"
  /\ \E m \in todo[c] :
       /\ task[c][m].step = "done"
       /\ task' = [task EXCEPT ![c][m] = NoTask]
       /\ todo' = [todo EXCEPT ![c] = @ \ {m}]
       /\ history' = [history EXCEPT ![c] = IF todo[c] = {m} THEN {} ELSE HistoryAfterRow(c)]
       /\ seen' = [seen EXCEPT ![c] = IF todo[c] = {m} THEN None ELSE @]
       /\ pc' = [pc EXCEPT ![c] = IF todo[c] = {m} THEN "pending" ELSE "in turn"]
  /\ UNCHANGED <<rowVars, stamped, logVars>>

\* (Mutation: a row with an alert is taken for decided.)
NeverAlerted == {m \in Unjudged : StampedOf({m}) = {}}

Pending == Unjudged

\* processPendingLevel1 reads every row that is not decided.
ReadPending(c) ==
  /\ pc[c] = "pending"
  /\ todo' = [todo EXCEPT ![c] = Pending]
  /\ stamped' = [stamped EXCEPT ![c] = StampedOf(Pending)]
  /\ pc' = [pc EXCEPT ![c] = IF Pending = {} THEN "idle" ELSE "pending payees"]
  /\ UNCHANGED <<rowVars, seen, history, task, logVars>>

\* It reads the history once and takes the rows all together.
ReadPendingHistory(c) ==
  /\ pc[c] = "pending history"
  /\ history' = [history EXCEPT ![c] = Fingerprints]
  /\ task' = [task EXCEPT ![c] = [m \in Mail |-> IF m \in todo[c] THEN [NoTask EXCEPT !.step = "judge"]
                                                                 ELSE NoTask]]
  /\ pc' = [pc EXCEPT ![c] = "together"]
  /\ overlapped' = (overlapped \/ Cardinality({m \in todo[c] : Resolves(c, m)}) > 1)
  /\ UNCHANGED <<rowVars, todo, seen, stamped, retried, abandoned, deaths>>

Reset(c) ==
  /\ pc' = [pc EXCEPT ![c] = "idle"]
  /\ todo' = [todo EXCEPT ![c] = {}]
  /\ seen' = [seen EXCEPT ![c] = None]
  /\ history' = [history EXCEPT ![c] = {}]
  /\ stamped' = [stamped EXCEPT ![c] = {}]
  /\ task' = [task EXCEPT ![c] = [m \in Mail |-> NoTask]]

\* The end of a pass, or of a retry.
FinishPass(c) ==
  /\ pc[c] \in {"together", "retry"}
  /\ \A m \in todo[c] : task[c][m].step = "done"
  /\ Reset(c)
  /\ UNCHANGED <<rowVars, logVars>>

---------------------------------------------------------------------------
(* The owner's retry: retryReviewProcessing, then retryLevel1Processing in
   a process of its own *)

\* reviewRetryBlockReason: the payment has left pending.
RetryBlocked(m) == m \in launched

AskRetry(c, m) ==
  /\ pc[c] = "idle" /\ c # Worker
  /\ row[m] # None /\ ~RetryBlocked(m)
  /\ todo' = [todo EXCEPT ![c] = {m}]
  /\ pc' = [pc EXCEPT ![c] = "clear"]
  /\ overlapped' = (overlapped \/ Overlaps(c))
  /\ UNCHANGED <<rowVars, seen, history, stamped, task, retried, abandoned, deaths>>

ClearRow(c) ==
  /\ pc[c] = "clear"
  /\ row' = [m \in Mail |-> IF m \in todo[c] THEN NewRow ELSE row[m]]
  /\ retried' = retried \union todo[c]
  /\ pc' = [pc EXCEPT ![c] = "cli"]
  /\ UNCHANGED <<book, stamp, copy, launched, todo, seen, history, stamped, task,
                 overlapped, abandoned, deaths>>

\* The CLI looks at the payment again and reads the row.
ReadRetried(c) ==
  /\ pc[c] = "cli"
  /\ IF \E m \in todo[c] : RetryBlocked(m)
     THEN Reset(c)
     ELSE /\ stamped' = [stamped EXCEPT ![c] = StampedOf(todo[c])]
          /\ pc' = [pc EXCEPT ![c] = "cli payees"]
          /\ UNCHANGED <<todo, seen, history, task>>
  /\ UNCHANGED <<rowVars, logVars>>

ReadRetriedHistory(c) ==
  /\ pc[c] = "cli history"
  /\ history' = [history EXCEPT ![c] = Fingerprints]
  /\ task' = [task EXCEPT ![c] = [m \in Mail |-> IF m \in todo[c] THEN [NoTask EXCEPT !.step = "judge"]
                                                                 ELSE NoTask]]
  /\ pc' = [pc EXCEPT ![c] = "retry"]
  /\ UNCHANGED <<rowVars, todo, seen, stamped, logVars>>

\* The process dies or is killed (the app gives its children 30 seconds).
Die(c) ==
  /\ pc[c] # "idle" /\ deaths < MaxDeaths
  /\ deaths' = deaths + 1
  /\ abandoned' = abandoned \union
                    {AlertOf(c, m) : m \in {n \in todo[c] : task[c][n].step \in {"send", "take back"}}}
  /\ Reset(c)
  /\ UNCHANGED <<rowVars, overlapped, retried>>

\* The owner approves a payee, a grant is used up, a method expires...
PayeesChange ==
  /\ book' \in Later[book]
  /\ UNCHANGED <<row, stamp, copy, launched, passVars, logVars>>

PassStep(c) ==
  \/ LoadPayees(c) \/ ReadBatch(c) \/ ReadBatchHistory(c) \/ NextRow(c) \/ FinishRow(c)
  \/ ReadPending(c) \/ ReadPendingHistory(c) \/ FinishPass(c)
  \/ ClearRow(c) \/ ReadRetried(c) \/ ReadRetriedHistory(c)
  \/ RowStep(c)

StartPass(c) == \E batch \in Mailbox[book] : StoreBatch(c, batch)

IntakeNext ==
  \/ \E c \in Pass : \/ StartPass(c) \/ PassStep(c) \/ Die(c)
                     \/ \E m \in Mail : AskRetry(c, m)
  \/ PayeesChange

IntakeSpec == IntakeInit /\ [][IntakeNext]_intakeVars

---------------------------------------------------------------------------
(* Properties *)

PassAt == {"idle", "batch", "batch payees", "batch history", "in turn", "pending",
           "pending payees", "pending history", "together", "clear", "cli", "cli payees",
           "cli history", "retry"}

\* Where a pass has loaded the payees.
Loaded == {"batch history", "in turn", "pending history", "together", "cli history", "retry"}

\* Types; and only passes in a phase that decides rows have tasks.
IntakeTypeOK ==
  /\ book \in Book
  /\ row \in [Mail -> Row \union {None}]
  /\ stamp \in [Alert -> Pass \union {None}] /\ copy \in [Alert -> Copy]
  /\ launched \subseteq Mail
  /\ pc \in [Pass -> PassAt]
  /\ todo \in [Pass -> SUBSET Mail]
  /\ seen \in [Pass -> Book \union {None}]
  /\ history \in [Pass -> SUBSET Mail]
  /\ stamped \in [Pass -> SUBSET Alert]
  /\ task \in [Pass -> [Mail -> Task]]
  /\ overlapped \in BOOLEAN /\ retried \subseteq Mail /\ abandoned \subseteq Alert
  /\ deaths \in 0..MaxDeaths
  /\ \A c \in Pass : pc[c] \in Loaded => seen[c] \in Book
  /\ \A c \in Pass, m \in Mail :
       task[c][m].step # "none" => m \in todo[c] /\ pc[c] \in {"in turn", "together", "retry"}

\* README.md: the same invoice never pays twice.  ingest.ts keeps that as
\* long as passes, retries and the rows of a backlog come one at a time, also
\* when some of them die half-way; when they overlap it does not.
PaidOnceInTurn == ~overlapped => Cardinality(launched) <= 1

\* Of an invoice's mails one stays for the owner or for payment: they are not
\* all dropped as replays of each other.  It takes passes one at a time and
\* no retry, for a retried original is compared with its own replay.
OneStays ==
  ~overlapped /\ retried = {} =>
    ((\E m \in Stored : row[m].decision = "ignore")
       => \E m \in Fingerprints : row[m].decision # "ignore")

\* "It must never turn a previously reviewed email into a new automatic
\* payout" (ingest.ts): what the owner was alerted of, or has had decided
\* again, does not go to payment, whatever the payees say by then.  It takes
\* passes one at a time that do not die: of a retry that dies, or is overtaken,
\* between the clearing and the decision the row is left as a new one.
ReviewedNotPaid ==
  ~overlapped /\ deaths = 0 =>
    \A m \in launched : /\ m \notin retried
                       /\ \A a \in Alert : a[1] = m => stamp[a] = None /\ copy[a] = "none"

\* A row that says the owner has been alerted tells the truth, or some pass is
\* seeing to it, or it died before it knew.
StampBacked ==
  \A a \in Alert :
    stamp[a] # None =>
      \/ copy[a] = "known"
      \/ a \in abandoned
      \/ \E c \in Pass, m \in Mail : /\ task[c][m].step \in {"send", "take back"}
                                    /\ AlertOf(c, m) = a /\ stamp[a] = c

BoxOf(a) ==
  CASE copy[a] = "twice" -> "twice"
    [] copy[a] = "known" -> "sent"
    [] copy[a] \in {"none", "lost"} /\ stamp[a] = None -> "due"
    [] copy[a] = "none" /\ stamp[a] # None -> "claimed"
    [] copy[a] = "lost" /\ stamp[a] # None -> "unsure"

Alerts == INSTANCE Outbox WITH Item <- Alert, box <- [a \in Alert |-> BoxOf(a)]

\* The alerts of all rows are an outbox (ingest.ts stamps a row before it
\* alerts of it): a second copy goes out only when the first was not accepted
\* or the answer to it was lost.
AlertsOnce == Alerts!OutboxSpec

\* No stored row stays undecided for good: rows that a pass left behind are
\* taken up by a later one.
EveryRowJudged == \A m \in Mail : []<>(row[m] # None => row[m].judged)

=============================================================================
