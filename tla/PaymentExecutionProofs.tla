----------------------- MODULE PaymentExecutionProofs -----------------------
(***************************************************************************)
(* What holds of PaymentExecution for every set of invoices, callers,      *)
(* reconcilers, keys and references, and for either provider.              *)
(***************************************************************************)
EXTENDS PaymentExecution, FiniteSetTheorems, TLAPS

---------------------------------------------------------------------------
(* The inductive invariant *)

\* A row has a key from its creation on, and no other row has that key.
KeyInv ==
  /\ \A e \in Email : status[e] = "absent" <=> key[e] = None
  /\ \A e, f \in Email : key[e] # None /\ key[e] = key[f] => e = f

\* A reference of invoice e: none, the row's own key, or one of its payouts.
OwnRef(ref, e) == ref = None \/ ref = key[e] \/ ref \in PayoutsOf(e)

\* What a caller knows of its row and its request.
JobOk(j) ==
  /\ j.pc # "idle" => j.email \in Email
  /\ j.pc \in {"pay", "answer"} =>
       status[j.email] \notin {"absent", "pending"} /\ j.key = key[j.email]
  /\ j.pc = "answer" => j.payout \in PayoutsOf(j.email)
  /\ j.pc = "record" => OwnRef(j.ref, j.email)
  /\ j.pc = "record" /\ j.outcome = "paid" =>
       j.ref \in PayoutsOf(j.email) /\ payout[j.ref].state = "paid"

JobInv == \A c \in Caller : JobOk(job[c])

\* What a row knows of its requests.
RowInv ==
  \A e \in Email :
    /\ OwnRef(reference[e], e)
    /\ status[e] \in {"absent", "pending"} => failures[e] = 0 /\ PayoutsOf(e) = {}
    /\ status[e] = "paid" =>
         reference[e] \in PayoutsOf(e) /\ payout[reference[e]].state = "paid"

\* Round n of invoice e is over once "failed" has closed it.
OpenRound(n, e) == n <= failures[e] /\ (status[e] = "failed" => n < failures[e])

\* A claim and a request both use up their round: no two of them share one.
RoundInv ==
  /\ \A r \in PayoutId : payout[r].state # "unused" =>
       /\ payout[r].email \in Email
       /\ payout[r].key = key[payout[r].email]
       /\ OpenRound(payout[r].round, payout[r].email)
  /\ \A c \in Caller : job[c].pc = "pay" => OpenRound(job[c].round, job[c].email)
  /\ OnePayoutPerRound
  /\ \A c \in Caller : job[c].pc = "pay" =>
       \A r \in PayoutsOf(job[c].email) : payout[r].round # job[c].round
  /\ \A c, d \in Caller :
       /\ job[c].pc = "pay" /\ job[d].pc = "pay"
       /\ job[c].email = job[d].email /\ job[c].round = job[d].round
       => c = d

\* What a reconciler took from its scan stays a reference of that row.
ReconInv ==
  \A w \in Reconciler :
    /\ \A e \in Email : recon[w].seen[e] # None => recon[w].seen[e] \in PayoutsOf(e)
    /\ recon[w].pc = "write" =>
         /\ recon[w].email \in Email
         /\ recon[w].result \in {"paid", "failed"}
         /\ recon[w].seen[recon[w].email] \in PayoutsOf(recon[w].email)
         /\ recon[w].result = "paid" =>
              payout[recon[w].seen[recon[w].email]].state = "paid"

\* Razorpay has made at most one payout of a key.
HonourInv ==
  Provider = "razorpay" =>
    \A q, r \in PayoutId :
      /\ payout[q].state \notin {"unused", "refused"}
      /\ payout[r].state \notin {"unused", "refused"}
      /\ payout[q].key = payout[r].key
      => q = r

Consistent == KeyInv /\ JobInv /\ RowInv /\ RoundInv /\ ReconInv /\ HonourInv

IInv == TypeOK /\ Consistent

---------------------------------------------------------------------------
(* Lemmas about the operators *)

\* The local states a step builds are well formed.
LEMMA JobForms ==
  ASSUME NEW e \in Email
  PROVE  /\ Idle \in Job
         /\ Loading(e) \in Job
         /\ \A o \in Outcome, ref \in Ref : Recording(e, o, ref) \in Job
         /\ Resting \in Recon
  BY DEF Idle, Job, Loading, Recording, Outcome, Ref, Resting, Recon

\* What createPayout answers: success for a payout that has landed and for
\* no other, and a reference that is the payout's or the key.
LEMMA AnswerForms ==
  ASSUME NEW r \in PayoutId, NEW k \in Key, NEW a \in Answers(r, k)
  PROVE  /\ a[1] \in {"paid", "failed", "unknown_outcome"}
         /\ a[2] \in {r, k}
         /\ a[1] = "paid" => a[2] = r /\ payout[r].state = "paid"
  BY DEF Answers

---------------------------------------------------------------------------
(* Type correctness *)

LEMMA InitType == Init => TypeOK
  BY DEF Init, TypeOK, Status, Ref, Idle, Job, Outcome, Unused, Payout, Resting, Recon

\* The steps of a caller keep the types.
LEMMA CallerType ==
  ASSUME TypeOK, JobInv, NEW c \in Caller, CallerStep(c)
  PROVE  TypeOK'
<1> USE DEF TypeOK
<1>j. job[c] \in Job
  OBVIOUS
<1>e. job[c].pc # "idle" => job[c].email \in Email
  BY DEF JobInv, JobOk
<1>1. ASSUME NEW e \in Email, NEW kind \in {"prepare", "confirm", "auto"}, Begin(c, e, kind)
      PROVE  TypeOK'
  <2>1. Loading(e) \in Job
    BY JobForms
  <2>2. [Idle EXCEPT !.pc = IF kind = "auto" THEN "upsert" ELSE "repair",
                     !.kind = kind, !.email = e, !.payable = invoice[e]] \in Job
    BY DEF Idle, Job, Outcome, Ref
  <2> QED BY <1>1, <2>1, <2>2 DEF Begin, row
<1>2. CASE Repair(c)
  <2>1. Loading(job[c].email) \in Job /\ Idle \in Job
    BY <1>2, <1>e, JobForms DEF Repair
  <2>2. [job[c] EXCEPT !.pc = "upsert"] \in Job
    BY <1>j DEF Job
  <2>3. payable' \in [Email -> Payable \union {None}]
    BY <1>2, <1>j DEF Repair, Job
  <2> QED BY <1>2, <2>1, <2>2, <2>3 DEF Repair
<1>3. CASE Upsert(c)
  <2>1. Loading(job[c].email) \in Job /\ Idle \in Job
    BY <1>3, <1>e, JobForms DEF Upsert
  <2>2. /\ payable' \in [Email -> Payable \union {None}]
        /\ key' \in [Email -> Key \union {None}]
        /\ status' \in [Email -> Status]
    BY <1>3, <1>j DEF Upsert, UpsertRow, Job, Status
  <2> QED BY <1>3, <2>1, <2>2 DEF Upsert
<1>4. CASE Load(c)
  <2>1. Idle \in Job
    BY <1>4, <1>e, JobForms DEF Load
  <2>2. [job[c] EXCEPT !.pc = "claim", !.payable = payable[job[c].email]] \in Job
    BY <1>4, <1>e, <1>j DEF Load, Job
  <2> QED BY <1>4, <2>1, <2>2 DEF Load, row
<1>5. CASE WinClaim(c)
  <2>1. job[c].email \in Email /\ Recording(job[c].email, "failed", None) \in Job
    BY <1>5, <1>e, JobForms DEF WinClaim, Outcome, Ref
  <2>2. [job[c] EXCEPT !.pc = "pay", !.key = key[job[c].email],
                       !.round = failures[job[c].email]] \in Job
    BY <2>1, <1>j DEF Job
  <2>3. job' \in [Caller -> Job]
    BY <1>5, <2>1, <2>2 DEF WinClaim
  <2> QED BY <1>5, <2>1, <2>3 DEF WinClaim, Status
<1>6. CASE LoseClaim(c)
  <2>1. Recording(job[c].email, "failed", None) \in Job
    BY <1>6, <1>e, JobForms DEF LoseClaim, Outcome, Ref
  <2> QED BY <1>6, <2>1 DEF LoseClaim, row
<1>7. CASE FailBeforePayout(c)
  <2>1. \A ref \in Ref : Recording(job[c].email, "failed", ref) \in Job
    BY <1>7, <1>e, JobForms DEF FailBeforePayout, Outcome
  <2>2. {None} \union (IF Provider = "razorpay" THEN {job[c].key} ELSE {}) \subseteq Ref
    BY <1>j DEF Job, Ref
  <2> QED BY <1>7, <2>1, <2>2 DEF FailBeforePayout, row
<1>8. CASE Send(c)
  <2>1. job[c].email \in Email
    BY <1>8, <1>e DEF Send
  <2>2. \A r \in PayoutId : [job[c] EXCEPT !.pc = "answer", !.payout = r] \in Job
    BY <1>j DEF Job
  <2>3. [state |-> "sent", email |-> job[c].email, payable |-> job[c].payable,
         key |-> job[c].key, round |-> job[c].round] \in Payout
    BY <1>j DEF Job, Payout
  <2>4. PICK r \in PayoutId : job' = [job EXCEPT ![c].pc = "answer", ![c].payout = r]
    BY <1>8 DEF Send, SamePayout
  <2>5. payout' \in [PayoutId -> Payout]
    BY <1>8, <2>3 DEF Send
  <2>6. job' \in [Caller -> Job]
    BY <2>2, <2>4
  <2> QED BY <1>8, <2>5, <2>6 DEF Send, row
<1>9. CASE Answer(c)
  <2>1. /\ job[c].email \in Email
        /\ job[c].payout \in PayoutId
        /\ job[c].key \in Key \union {None}
    BY <1>9, <1>e, <1>j DEF Answer, JobInv, JobOk, PayoutsOf, Job
  <2>2. \A a \in Answers(job[c].payout, job[c].key) : a[1] \in Outcome /\ a[2] \in Ref
    BY <2>1 DEF Answers, Outcome, Ref
  <2>3. \A a \in Answers(job[c].payout, job[c].key) : Recording(job[c].email, a[1], a[2]) \in Job
    BY <2>1, <2>2, JobForms
  <2> QED BY <1>9, <2>3 DEF Answer, row
<1>10. CASE RecordPaid(c)
  <2>1. job[c].ref \in Ref /\ Idle \in Job
    BY <1>10, <1>e, <1>j, JobForms DEF RecordPaid, Job
  <2> QED BY <1>10, <2>1 DEF RecordPaid, Status
<1>11. CASE RecordPaidThrows(c)
  <2>1. [job[c] EXCEPT !.outcome = "unknown_outcome"] \in Job
    BY <1>j DEF Job, Outcome
  <2> QED BY <1>11, <2>1 DEF RecordPaidThrows, row
<1>12. CASE RecordFailure(c)
  <2>1. job[c].ref \in Ref /\ Idle \in Job /\ job[c].email \in Email
    BY <1>12, <1>e, <1>j, JobForms DEF RecordFailure, Job
  <2>2. /\ status' \in [Email -> Status]
        /\ reference' \in [Email -> Ref]
        /\ failures' \in [Email -> Nat]
    BY <1>12, <2>1 DEF RecordFailure, Status, CatchRef
  <2> QED BY <1>12, <2>1, <2>2 DEF RecordFailure
<1>13. CASE Crash(c)
  <2>1. Idle \in Job
    BY <1>13, <1>e, JobForms DEF Crash
  <2> QED BY <1>13, <2>1 DEF Crash, row
<1> QED
  BY <1>1, <1>2, <1>3, <1>4, <1>5, <1>6, <1>7, <1>8, <1>9, <1>10, <1>11, <1>12, <1>13
  DEF CallerStep

\* The steps of a reconciler keep the types.
LEMMA ReconcilerType ==
  ASSUME TypeOK, ReconInv, NEW w \in Reconciler, ReconcilerStep(w)
  PROVE  TypeOK'
<1> USE DEF TypeOK
<1>w. recon[w] \in Recon
  OBVIOUS
<1>1. CASE PromoteStaleClaims(w)
  <2>1. [recon[w] EXCEPT !.pc = "scan"] \in Recon
    BY <1>w DEF Recon
  <2> QED BY <1>1, <2>1 DEF PromoteStaleClaims, Status
<1>2. CASE Scan(w)
  <2>1. [recon[w] EXCEPT !.pc = "poll",
           !.seen = [e \in Email |-> IF Stuck(e) THEN reference[e] ELSE None]] \in Recon
    BY <1>w DEF Recon, Ref
  <2>2. recon' \in [Reconciler -> Recon]
    BY <1>2, <2>1 DEF Scan
  <2> QED BY <1>2, <2>2 DEF Scan, row
<1>3. ASSUME NEW e \in Email, Poll(w, e)
      PROVE  TypeOK'
  <2>1. [recon[w] EXCEPT !.pc = "write", !.email = e,
           !.result = payout[recon[w].seen[e]].state] \in Recon
    BY <1>3, <1>w DEF Poll, Recon
  <2>2. recon' \in [Reconciler -> Recon]
    BY <1>3, <2>1 DEF Poll
  <2> QED BY <1>3, <2>2 DEF Poll, row
<1>4. ASSUME NEW e \in Email, PollNothing(w, e)
      PROVE  TypeOK'
  <2>1. [recon[w] EXCEPT !.seen = [@ EXCEPT ![e] = None]] \in Recon
    BY <1>w DEF Recon, Ref
  <2>2. recon' \in [Reconciler -> Recon]
    BY <1>4, <2>1 DEF PollNothing
  <2> QED BY <1>4, <2>2 DEF PollNothing, row
<1>5. CASE WriteReconciled(w)
  <2>1. /\ recon[w].email \in Email
        /\ recon[w].result \in {"paid", "failed"}
        /\ recon[w].seen[recon[w].email] \in Ref
    BY <1>5, <1>w DEF WriteReconciled, ReconInv, Recon
  <2>2. /\ status' \in [Email -> Status]
        /\ reference' \in [Email -> Ref]
        /\ failures' \in [Email -> Nat]
    BY <1>5, <2>1 DEF WriteReconciled, Status
  <2>3. [recon[w] EXCEPT !.pc = "poll", !.seen = [@ EXCEPT ![recon[w].email] = None],
                         !.email = None, !.result = "none"] \in Recon
    BY <1>w, <2>1 DEF Recon, Ref
  <2>4. recon' \in [Reconciler -> Recon]
    BY <1>5, <2>3 DEF WriteReconciled
  <2> QED BY <1>5, <2>2, <2>4 DEF WriteReconciled
<1>6. CASE EndPass(w)
  <2>1. Resting \in Recon
    BY DEF Resting, Recon, Ref
  <2> QED BY <1>6, <2>1 DEF EndPass, row
<1>7. CASE CrashReconciler(w)
  <2>1. Resting \in Recon
    BY DEF Resting, Recon, Ref
  <2> QED BY <1>7, <2>1 DEF CrashReconciler, row
<1> QED
  BY <1>1, <1>2, <1>3, <1>4, <1>5, <1>6, <1>7 DEF ReconcilerStep

\* The clock, extraction and the provider keep the types.
LEMMA EnvironmentType ==
  ASSUME TypeOK,
         \/ \E e \in Email : Reextract(e) \/ AgeClaim(e)
         \/ \E r \in PayoutId : ProviderMove(r)
         \/ UNCHANGED vars
  PROVE  TypeOK'
<1> USE DEF TypeOK
<1>1. ASSUME NEW e \in Email, Reextract(e) \/ AgeClaim(e)
      PROVE  TypeOK'
  BY <1>1 DEF Reextract, AgeClaim, row
<1>2. ASSUME NEW r \in PayoutId, ProviderMove(r)
      PROVE  TypeOK'
  <2>1. \A st \in {"processing", "refused", "paid", "failed"} :
          [payout[r] EXCEPT !.state = st] \in Payout
    BY DEF Payout
  <2> QED
    BY <1>2, <2>1 DEF ProviderMove, Accept, Refuse, Land, Bounce, ProviderStep, row
<1>3. CASE UNCHANGED vars
  BY <1>3 DEF vars, row
<1> QED
  BY <1>1, <1>2, <1>3

---------------------------------------------------------------------------
(* The rest of the invariant, step by step *)

LEMMA InitConsistent == Init => Consistent
<1> SUFFICES ASSUME Init PROVE Consistent
  OBVIOUS
<1>1. KeyInv
  BY DEF Init, KeyInv
<1>2. JobInv
  BY DEF Init, JobInv, JobOk, Idle
<1>3. RowInv
  BY DEF Init, RowInv, OwnRef, PayoutsOf, Unused
<1>4. RoundInv
  BY DEF Init, RoundInv, OnePayoutPerRound, PayoutsOf, Unused, Idle
<1>5. ReconInv
  BY DEF Init, ReconInv, Resting
<1>6. HonourInv
  BY DEF Init, HonourInv, Unused
<1> QED BY <1>1, <1>2, <1>3, <1>4, <1>5, <1>6 DEF Consistent

\* A step that only moves one caller on, and not into "pay", needs nothing
\* but that the caller's new knowledge is right.
LEMMA LocalStep ==
  ASSUME TypeOK, Consistent, NEW c \in Caller, NEW j, j.pc # "pay", JobOk(j),
         job' = [job EXCEPT ![c] = j],
         UNCHANGED <<status, key, reference, failures, payout, recon>>
  PROVE  Consistent'
<1>1. \A d \in Caller : job'[d] = IF d = c THEN j ELSE job[d]
  BY DEF TypeOK
<1>2. \A e : PayoutsOf(e)' = PayoutsOf(e)
  BY DEF PayoutsOf
<1>3. KeyInv'
  BY DEF Consistent, KeyInv
<1>4. JobInv'
  BY <1>1, <1>2 DEF Consistent, JobInv, JobOk, OwnRef
<1>5. RowInv'
  BY <1>2 DEF Consistent, RowInv, OwnRef
<1>6. RoundInv'
  BY <1>1, <1>2 DEF Consistent, RoundInv, OnePayoutPerRound, OpenRound
<1>7. ReconInv'
  BY <1>2 DEF Consistent, ReconInv
<1>8. HonourInv'
  BY DEF Consistent, HonourInv
<1> QED BY <1>3, <1>4, <1>5, <1>6, <1>7, <1>8 DEF Consistent

\* Likewise for a reconciler that only moves on.
LEMMA LocalReconStep ==
  ASSUME TypeOK, Consistent, UNCHANGED <<status, key, reference, failures, job, payout>>, ReconInv'
  PROVE  Consistent'
<1>1. \A e : PayoutsOf(e)' = PayoutsOf(e)
  BY DEF PayoutsOf
<1>2. KeyInv'
  BY DEF Consistent, KeyInv
<1>3. JobInv'
  BY <1>1 DEF Consistent, JobInv, JobOk, OwnRef
<1>4. RowInv'
  BY <1>1 DEF Consistent, RowInv, OwnRef
<1>5. RoundInv'
  BY <1>1 DEF Consistent, RoundInv, OnePayoutPerRound, OpenRound
<1>6. HonourInv'
  BY DEF Consistent, HonourInv
<1> QED BY <1>2, <1>3, <1>4, <1>5, <1>6 DEF Consistent

\* Preparing, loading, losing the race, failing early, being answered,
\* crashing: all local.
LEMMA LocalCallerSteps ==
  ASSUME TypeOK, Consistent, NEW c \in Caller,
         \/ \E e \in Email, kind \in {"prepare", "confirm", "auto"} : Begin(c, e, kind)
         \/ Repair(c) \/ Load(c) \/ LoseClaim(c) \/ FailBeforePayout(c) \/ Answer(c)
         \/ RecordPaidThrows(c) \/ Crash(c)
  PROVE  Consistent'
<1>j. job[c] \in Job /\ JobOk(job[c])
  BY DEF TypeOK, Consistent, JobInv
<1>i. JobOk(Idle) /\ Idle.pc # "pay"
  BY DEF JobOk, Idle
<1>l. \A e \in Email : JobOk(Loading(e)) /\ Loading(e).pc # "pay"
  BY DEF JobOk, Loading, Idle
<1>1. ASSUME NEW e \in Email, NEW kind \in {"prepare", "confirm", "auto"}, Begin(c, e, kind)
      PROVE  Consistent'
  <2> DEFINE next == [Idle EXCEPT !.pc = IF kind = "auto" THEN "upsert" ELSE "repair",
                                  !.kind = kind, !.email = e, !.payable = invoice[e]]
  <2>1. JobOk(next) /\ next.pc # "pay"
    BY DEF JobOk, Idle
  <2> QED BY <1>1, <2>1, <1>l, LocalStep DEF Begin, row
<1>2. CASE Repair(c)
  <2>1. JobOk([job[c] EXCEPT !.pc = "upsert"]) /\ [job[c] EXCEPT !.pc = "upsert"].pc # "pay"
    BY <1>2, <1>j DEF Repair, JobOk, Job
  <2> QED BY <1>2, <2>1, <1>i, <1>l, <1>j, LocalStep DEF Repair, JobOk
<1>3. CASE Load(c)
  <2> DEFINE next == [job[c] EXCEPT !.pc = "claim", !.payable = payable[job[c].email]]
  <2>1. JobOk(next) /\ next.pc # "pay"
    BY <1>3, <1>j DEF Load, JobOk, Job
  <2> QED BY <1>3, <2>1, <1>i, LocalStep DEF Load, row
<1>4. CASE LoseClaim(c)
  <2> DEFINE next == Recording(job[c].email, "failed", None)
  <2>1. JobOk(next) /\ next.pc # "pay"
    BY <1>4, <1>j DEF LoseClaim, JobOk, Recording, Idle, OwnRef
  <2> QED BY <1>4, <2>1, LocalStep DEF LoseClaim, row
<1>5. CASE FailBeforePayout(c)
  <2> DEFINE next(ref) == Recording(job[c].email, "failed", ref)
  <2>1. \A ref \in {None, job[c].key} : JobOk(next(ref)) /\ next(ref).pc # "pay"
    BY <1>5, <1>j DEF FailBeforePayout, JobOk, Recording, Idle, OwnRef
  <2>2. PICK ref \in {None, job[c].key} : job' = [job EXCEPT ![c] = next(ref)]
    BY <1>5 DEF FailBeforePayout
  <2> QED BY <1>5, <2>1, <2>2, LocalStep DEF FailBeforePayout, row
<1>6. CASE Answer(c)
  <2> DEFINE e == job[c].email
             r == job[c].payout
             next(a) == Recording(e, a[1], a[2])
  <2>1. e \in Email /\ r \in PayoutId /\ r \in PayoutsOf(e) /\ job[c].key = key[e]
        /\ status[e] # "absent"
    BY <1>6, <1>j DEF Answer, JobOk, PayoutsOf
  <2>2. key[e] \in Key
    BY <2>1 DEF TypeOK, Consistent, KeyInv
  <2>3. PICK a \in Answers(r, key[e]) : job' = [job EXCEPT ![c] = next(a)]
    BY <1>6, <2>1 DEF Answer
  <2>4. a[2] \in {r, key[e]} /\ (a[1] = "paid" => a[2] = r /\ payout[r].state = "paid")
    BY <2>1, <2>2, AnswerForms
  <2>5. JobOk(next(a)) /\ next(a).pc # "pay"
    BY <2>1, <2>4 DEF JobOk, Recording, Idle, OwnRef
  <2> QED BY <1>6, <2>3, <2>5, LocalStep DEF Answer, row
<1>7. CASE RecordPaidThrows(c)
  <2> DEFINE next == [job[c] EXCEPT !.outcome = "unknown_outcome"]
  <2>1. JobOk(next) /\ next.pc # "pay"
    BY <1>7, <1>j DEF RecordPaidThrows, JobOk, Job
  <2>2. job' = [job EXCEPT ![c] = next]
    BY <1>7 DEF RecordPaidThrows
  <2> QED BY <1>7, <2>1, <2>2, LocalStep DEF RecordPaidThrows, row
<1>8. CASE Crash(c)
  BY <1>8, <1>i, LocalStep DEF Crash, row
<1> QED
  BY <1>1, <1>2, <1>3, <1>4, <1>5, <1>6, <1>7, <1>8

\* A row is created: it has no requests yet, and its key is new.
LEMMA UpsertConsistent ==
  ASSUME TypeOK, Consistent, NEW c \in Caller, Upsert(c)
  PROVE  Consistent'
<1> DEFINE e == job[c].email
           next == IF job[c].kind = "auto" THEN Loading(e) ELSE Idle
<1>1. /\ e \in Email /\ JobOk(next)
      /\ next.pc \in {"idle", "load"} /\ (next.pc = "load" => next.email = e)
  BY DEF Upsert, Consistent, JobInv, JobOk, Loading, Idle
<1>2. CASE status[e] # "absent"
  BY <1>1, <1>2, LocalStep DEF Upsert, UpsertRow
<1>3. CASE status[e] = "absent"
  <2>1. PICK k \in Key : /\ \A f \in Email : key[f] # k
                         /\ key' = [key EXCEPT ![e] = k]
    BY <1>3 DEF Upsert, UpsertRow
  <2>2. /\ status' = [status EXCEPT ![e] = "pending"]
        /\ job' = [job EXCEPT ![c] = next]
        /\ UNCHANGED <<reference, failures, payout, recon>>
    BY <1>3 DEF Upsert, UpsertRow
  <2>3. k # None /\ key[e] = None /\ failures[e] = 0 /\ PayoutsOf(e) = {}
    BY <1>1, <1>3, NoneAssumption DEF Consistent, KeyInv, RowInv
  <2>4. \A f : PayoutsOf(f)' = PayoutsOf(f)
    BY <2>2 DEF PayoutsOf
  <2>5. \A f \in Email : /\ key'[f] = IF f = e THEN k ELSE key[f]
                         /\ status'[f] = IF f = e THEN "pending" ELSE status[f]
    BY <1>1, <2>1, <2>2 DEF TypeOK
  <2>6. \A d \in Caller : job'[d] = IF d = c THEN next ELSE job[d]
    BY <2>2 DEF TypeOK
  <2>7. \A r \in PayoutId : payout[r].state # "unused" => payout[r].email # e
    BY <2>3 DEF PayoutsOf
  <2>8. KeyInv'
    BY <1>3, <2>1, <2>3, <2>5 DEF Consistent, KeyInv
  <2>9. \A d \in Caller : d # c /\ job[d].pc # "idle" /\ job[d].email = e =>
          job[d].pc \notin {"pay", "answer"}
    BY <1>3 DEF Consistent, JobInv, JobOk
  <2>10. ASSUME NEW d \in Caller
         PROVE  JobOk(job[d])'
    <3>1. CASE d = c
      BY <1>1, <2>6, <3>1 DEF JobOk
    <3>2. CASE d # c
      BY <2>2, <2>3, <2>4, <2>5, <2>6, <2>9, <3>2 DEF Consistent, JobInv, JobOk, OwnRef
    <3> QED BY <3>1, <3>2
  <2>11. JobInv'
    BY <2>10 DEF JobInv
  <2>12. RowInv'
    BY <2>2, <2>3, <2>4, <2>5 DEF Consistent, RowInv, OwnRef
  <2>13. RoundInv'
    BY <1>1, <2>2, <2>4, <2>5, <2>6, <2>7, <2>9
    DEF Consistent, RoundInv, OnePayoutPerRound, OpenRound, JobInv, JobOk
  <2>14. ReconInv'
    BY <2>2, <2>4 DEF Consistent, ReconInv
  <2>15. HonourInv'
    BY <2>2 DEF Consistent, HonourInv
  <2> QED BY <2>8, <2>11, <2>12, <2>13, <2>14, <2>15 DEF Consistent
<1> QED BY <1>2, <1>3

\* A claim opens a round nobody has used: the row was pending, and nothing
\* was ever sent, or failed, and every earlier round is closed.
LEMMA WinClaimConsistent ==
  ASSUME TypeOK, Consistent, NEW c \in Caller, WinClaim(c)
  PROVE  Consistent'
<1> DEFINE e == job[c].email
           pay == [job[c] EXCEPT !.pc = "pay", !.key = key[e], !.round = failures[e]]
           fail == Recording(e, "failed", None)
<1>1. e \in Email /\ status[e] \in {"pending", "failed"} /\ job[c] \in Job
  BY DEF WinClaim, Claimable, Retryable, Consistent, JobInv, JobOk, TypeOK
<1>2. PICK j \in {pay, fail} : job' = [job EXCEPT ![c] = j]
  BY DEF WinClaim
<1>3. /\ status' = [status EXCEPT ![e] = "claimed"]
      /\ UNCHANGED <<key, reference, failures, payout, recon>>
  BY DEF WinClaim
<1>4. \A f : PayoutsOf(f)' = PayoutsOf(f)
  BY <1>3 DEF PayoutsOf
<1>5. \A f \in Email : status'[f] = IF f = e THEN "claimed" ELSE status[f]
  BY <1>1, <1>3 DEF TypeOK
<1>6. \A d \in Caller : job'[d] = IF d = c THEN j ELSE job[d]
  BY <1>2 DEF TypeOK
<1>7. /\ j.pc \in {"pay", "record"} /\ j.email = e
      /\ j.pc = "pay" => j.key = key[e] /\ j.round = failures[e]
      /\ j.pc = "record" => j.ref = None /\ j.outcome = "failed"
  BY <1>1 DEF Job, Recording, Idle
<1>8. KeyInv'
  BY <1>1, <1>3, <1>5 DEF Consistent, KeyInv
<1>9. ASSUME NEW d \in Caller
      PROVE  JobOk(job[d])'
  <2>1. CASE d = c
    BY <1>1, <1>3, <1>5, <1>6, <1>7, <2>1 DEF JobOk, OwnRef
  <2>2. CASE d # c
    BY <1>3, <1>4, <1>5, <1>6, <2>2 DEF Consistent, JobInv, JobOk, OwnRef
  <2> QED BY <2>1, <2>2
<1>10. JobInv'
  BY <1>9 DEF JobInv
<1>11. RowInv'
  BY <1>3, <1>4, <1>5 DEF Consistent, RowInv, OwnRef
<1>12. \A r \in PayoutsOf(e) : payout[r].round < failures[e]
  BY <1>1 DEF Consistent, RowInv, RoundInv, OpenRound, PayoutsOf
<1>13. \A d \in Caller : job[d].pc = "pay" /\ job[d].email = e => job[d].round < failures[e]
  BY <1>1 DEF Consistent, JobInv, JobOk, RoundInv, OpenRound
<1>14. /\ \A r \in PayoutId : payout[r].round \in Nat
       /\ \A d \in Caller : job[d].round \in Nat
       /\ failures[e] \in Nat
  BY <1>1 DEF TypeOK, Payout, Job
<1>15. RoundInv'
  <2>1. \A r \in PayoutId : payout'[r].state # "unused" =>
          /\ payout'[r].email \in Email
          /\ payout'[r].key = key'[payout'[r].email]
          /\ OpenRound(payout[r].round, payout[r].email)'
    BY <1>3, <1>5 DEF Consistent, RoundInv, OpenRound
  <2>2. \A d \in Caller : job'[d].pc = "pay" => OpenRound(job[d].round, job[d].email)'
    BY <1>1, <1>3, <1>5, <1>6, <1>7, <1>14 DEF Consistent, RoundInv, OpenRound, JobInv, JobOk
  <2>3. OnePayoutPerRound'
    BY <1>3, <1>4 DEF Consistent, RoundInv, OnePayoutPerRound
  <2>4. \A d \in Caller : job'[d].pc = "pay" =>
          \A r \in PayoutsOf(job[d].email)' : payout'[r].round # job'[d].round
    BY <1>3, <1>4, <1>6, <1>7, <1>12, <1>14 DEF Consistent, RoundInv, PayoutsOf
  <2>5. \A b, d \in Caller :
          /\ job'[b].pc = "pay" /\ job'[d].pc = "pay"
          /\ job'[b].email = job'[d].email /\ job'[b].round = job'[d].round
          => b = d
    BY <1>6, <1>7, <1>13, <1>14 DEF Consistent, RoundInv
  <2> QED BY <2>1, <2>2, <2>3, <2>4, <2>5 DEF RoundInv
<1>16. ReconInv'
  BY <1>3, <1>4 DEF Consistent, ReconInv
<1>17. HonourInv'
  BY <1>3 DEF Consistent, HonourInv
<1> QED BY <1>8, <1>10, <1>11, <1>15, <1>16, <1>17 DEF Consistent

\* A request goes out in the round its caller claimed, and closes it to
\* others; or Razorpay recognises the key, and nothing new goes out.
LEMMA SendConsistent ==
  ASSUME TypeOK, Consistent, NEW c \in Caller, Send(c)
  PROVE  Consistent'
<1> DEFINE e == job[c].email
           next(r) == [job[c] EXCEPT !.pc = "answer", !.payout = r]
<1>1. /\ e \in Email /\ job[c].pc = "pay" /\ job[c] \in Job
      /\ status[e] \notin {"absent", "pending"} /\ job[c].key = key[e]
      /\ key[e] # None
  BY DEF Send, Consistent, JobInv, JobOk, TypeOK, KeyInv
<1>2. UNCHANGED <<status, key, reference, failures, recon>>
  BY DEF Send, row
<1>3. CASE SamePayout(job[c].key) # {}
  <2>1. PICK r \in SamePayout(job[c].key) :
          job' = [job EXCEPT ![c].pc = "answer", ![c].payout = r] /\ UNCHANGED payout
    BY <1>3 DEF Send
  <2>2. job' = [job EXCEPT ![c] = next(r)]
    BY <2>1
  <2>3. r \in PayoutsOf(e)
    <3>1. r \in PayoutId /\ payout[r].state # "unused" /\ payout[r].key = key[e]
      BY <1>1, <2>1 DEF SamePayout
    <3>2. payout[r].email \in Email /\ payout[r].key = key[payout[r].email]
      BY <3>1 DEF Consistent, RoundInv
    <3>3. payout[r].email = e
      BY <1>1, <3>1, <3>2 DEF Consistent, KeyInv
    <3> QED BY <3>1, <3>3 DEF PayoutsOf
  <2>4. JobOk(next(r)) /\ next(r).pc # "pay"
    BY <1>1, <2>3 DEF JobOk, Job
  <2> QED BY <1>2, <2>1, <2>2, <2>4, LocalStep
<1>4. CASE SamePayout(job[c].key) = {}
  <2> DEFINE new == [state |-> "sent", email |-> e, payable |-> job[c].payable,
                     key |-> job[c].key, round |-> job[c].round]
  <2>1. PICK r \in PayoutId :
          /\ payout[r].state = "unused"
          /\ payout' = [payout EXCEPT ![r] = new]
          /\ job' = [job EXCEPT ![c].pc = "answer", ![c].payout = r]
    BY <1>4 DEF Send
  <2>2. \A q \in PayoutId : payout'[q] = IF q = r THEN new ELSE payout[q]
    BY <2>1 DEF TypeOK
  <2>3. \A d \in Caller : job'[d] = IF d = c THEN next(r) ELSE job[d]
    BY <2>1 DEF TypeOK
  <2>r. new.state = "sent" /\ new.email = e
    OBVIOUS
  <2>m. \A f \in Email : \A q : q \in PayoutsOf(f)' <=> q \in PayoutsOf(f) \/ (q = r /\ f = e)
    BY <2>1, <2>2, <2>r DEF PayoutsOf
  <2>4. r \notin PayoutsOf(e) /\ job'[c].email = e
    <3>1. r \notin PayoutsOf(e)
      BY <2>1 DEF PayoutsOf
    <3>2. job'[c].email = e
      BY <1>1, <2>3 DEF Job
    <3> QED BY <3>1, <3>2
  <2>5. /\ \A f \in Email : PayoutsOf(f) \subseteq PayoutsOf(f)'
        /\ \A f \in Email : \A q : q \in PayoutsOf(f) => payout'[q] = payout[q]
    BY <2>1, <2>2, <2>m DEF PayoutsOf
  <2>6. KeyInv'
    BY <1>2 DEF Consistent, KeyInv
  <2>7. ASSUME NEW d \in Caller
        PROVE  JobOk(job[d])'
    <3>1. CASE d = c
      BY <1>1, <1>2, <2>3, <2>4, <2>m, <3>1 DEF JobOk, Job
    <3>2. CASE d # c
      BY <1>2, <2>3, <2>5, <3>2 DEF Consistent, JobInv, JobOk, OwnRef
    <3> QED BY <3>1, <3>2
  <2>8. JobInv'
    BY <2>7 DEF JobInv
  <2>9. RowInv'
    BY <1>1, <1>2, <2>m, <2>5 DEF Consistent, RowInv, OwnRef
  <2>10. OpenRound(job[c].round, e) /\ \A q \in PayoutsOf(e) : payout[q].round # job[c].round
    BY <1>1 DEF Consistent, RoundInv
  <2>11. RoundInv'
    <3>1. \A q \in PayoutId : payout'[q].state # "unused" =>
            /\ payout'[q].email \in Email
            /\ payout'[q].key = key'[payout'[q].email]
            /\ OpenRound(payout[q].round, payout[q].email)'
      BY <1>1, <1>2, <2>2, <2>10 DEF Consistent, RoundInv, OpenRound
    <3>2. \A d \in Caller : job'[d].pc = "pay" => job[d].pc = "pay" /\ job'[d] = job[d] /\ d # c
      BY <1>1, <2>3 DEF Job
    <3>3. \A d \in Caller : job'[d].pc = "pay" => OpenRound(job[d].round, job[d].email)'
      BY <1>2, <3>2 DEF Consistent, RoundInv, OpenRound
    <3>4. OnePayoutPerRound'
      <4>1. \A f \in Email : \A q : q \in PayoutsOf(f) =>
              payout'[q] = payout[q] /\ (f = e => payout[q].round # payout'[r].round)
        BY <2>2, <2>5, <2>10
      <4> QED BY <2>m, <4>1 DEF Consistent, RoundInv, OnePayoutPerRound
    <3>5. \A d \in Caller : job'[d].pc = "pay" =>
            \A q \in PayoutsOf(job[d].email)' : payout'[q].round # job'[d].round
      <4> SUFFICES ASSUME NEW d \in Caller, job'[d].pc = "pay",
                          NEW q \in PayoutsOf(job[d].email)'
                   PROVE  payout'[q].round # job'[d].round
        OBVIOUS
      <4>1. job[d].pc = "pay" /\ job'[d] = job[d] /\ d # c /\ job[d].email \in Email
        BY <3>2 DEF Consistent, JobInv, JobOk
      <4>2. CASE q = r
        <5>1. job[d].email = e
          BY <2>2, <4>1, <4>2 DEF PayoutsOf
        <5> QED BY <1>1, <2>2, <4>1, <4>2, <5>1 DEF Consistent, RoundInv
      <4>3. CASE q # r
        BY <2>2, <4>1, <4>3 DEF Consistent, RoundInv, PayoutsOf
      <4> QED BY <4>2, <4>3
    <3>6. \A b, d \in Caller :
            /\ job'[b].pc = "pay" /\ job'[d].pc = "pay"
            /\ job'[b].email = job'[d].email /\ job'[b].round = job'[d].round
            => b = d
      BY <3>2 DEF Consistent, RoundInv
    <3> QED BY <3>1, <3>3, <3>4, <3>5, <3>6 DEF RoundInv
  <2>12. ReconInv'
    BY <1>2, <2>5 DEF Consistent, ReconInv
  <2>13. HonourInv'
    BY <1>4, <2>2 DEF Consistent, HonourInv, SamePayout
  <2> QED BY <2>6, <2>8, <2>9, <2>11, <2>12, <2>13 DEF Consistent
<1> QED BY <1>3, <1>4

\* "paid" is written whatever the row says, by a caller that holds the
\* reference of a landed payout of that row.
LEMMA RecordPaidConsistent ==
  ASSUME TypeOK, Consistent, NEW c \in Caller, RecordPaid(c)
  PROVE  Consistent'
<1> DEFINE e == job[c].email
<1>1. /\ e \in Email
      /\ job[c].ref \in PayoutsOf(e) /\ payout[job[c].ref].state = "paid"
  BY DEF RecordPaid, Consistent, JobInv, JobOk
<1>2. UNCHANGED <<key, failures, payout, recon>>
  BY DEF RecordPaid
<1>3. \A f \in Email :
        /\ status'[f] = IF f = e THEN "paid" ELSE status[f]
        /\ reference'[f] = IF f = e THEN job[c].ref ELSE reference[f]
  BY <1>1 DEF RecordPaid, TypeOK
<1>4. \A d \in Caller : job'[d] = IF d = c THEN Idle ELSE job[d]
  BY DEF RecordPaid, TypeOK
<1>5. \A f : PayoutsOf(f)' = PayoutsOf(f)
  BY <1>2 DEF PayoutsOf
<1>6. status[e] \notin {"absent", "pending"}
  BY <1>1 DEF Consistent, RowInv
<1>7. Idle.pc = "idle"
  BY DEF Idle
<1>8. KeyInv'
  BY <1>1, <1>2, <1>3, <1>6 DEF Consistent, KeyInv
<1>9. JobInv'
  BY <1>2, <1>3, <1>4, <1>5, <1>7 DEF Consistent, JobInv, JobOk, OwnRef
<1>10. RowInv'
  BY <1>1, <1>2, <1>3, <1>5 DEF Consistent, RowInv, OwnRef
<1>11. RoundInv'
  BY <1>2, <1>3, <1>4, <1>5, <1>7 DEF Consistent, RoundInv, OnePayoutPerRound, OpenRound, JobInv, JobOk
<1>12. ReconInv'
  BY <1>2, <1>5 DEF Consistent, ReconInv
<1>13. HonourInv'
  BY <1>2 DEF Consistent, HonourInv
<1> QED BY <1>8, <1>9, <1>10, <1>11, <1>12, <1>13 DEF Consistent

\* "failed" closes the open round, "unknown_outcome" does not: whoever the
\* claim belongs to, every round in use is then one that has been closed.
LEMMA VerdictConsistent ==
  ASSUME TypeOK, Consistent, NEW e \in Email,
         NEW verdict \in {"paid", "failed", "unknown_outcome"}, NEW ref,
         status[e] \notin {"absent", "pending"}, OwnRef(ref, e),
         verdict = "paid" => ref \in PayoutsOf(e) /\ payout[ref].state = "paid",
         status' = [status EXCEPT ![e] = verdict],
         reference' = [reference EXCEPT ![e] = ref],
         failures' = [failures EXCEPT ![e] = @ + (IF verdict = "failed" THEN 1 ELSE 0)],
         UNCHANGED <<key, payout>>,
         \A c \in Caller : job'[c] = job[c] \/ job'[c] = Idle
  PROVE  (KeyInv /\ JobInv /\ RowInv /\ RoundInv /\ HonourInv)'
<1>1. \A f \in Email :
        /\ status'[f] = IF f = e THEN verdict ELSE status[f]
        /\ reference'[f] = IF f = e THEN ref ELSE reference[f]
        /\ failures'[f] = IF f = e /\ verdict = "failed" THEN failures[f] + 1 ELSE failures[f]
        /\ failures[f] \in Nat
  BY DEF TypeOK
<1>2. \A f : PayoutsOf(f)' = PayoutsOf(f)
  BY DEF PayoutsOf
<1>3. Idle.pc = "idle"
  BY DEF Idle
<1>4. KeyInv'
  BY <1>1 DEF Consistent, KeyInv
<1>5. JobInv'
  BY <1>1, <1>2, <1>3 DEF Consistent, JobInv, JobOk, OwnRef
<1>6. RowInv'
  BY <1>1, <1>2 DEF Consistent, RowInv, OwnRef
<1>7. \A n \in Nat, f \in Email : OpenRound(n, f) => OpenRound(n, f)'
  <2> SUFFICES ASSUME NEW n \in Nat, NEW f \in Email, OpenRound(n, f)
               PROVE  OpenRound(n, f)'
    OBVIOUS
  <2>1. CASE f = e
    BY <1>1, <2>1 DEF OpenRound
  <2>2. CASE f # e
    BY <1>1, <2>2 DEF OpenRound
  <2> QED BY <2>1, <2>2
<1>8. /\ \A r \in PayoutId : payout[r].round \in Nat
      /\ \A c \in Caller : job[c].round \in Nat
  BY DEF TypeOK, Payout, Job
<1>9. RoundInv'
  <2>1. \A r \in PayoutId : payout'[r].state # "unused" =>
          /\ payout'[r].email \in Email
          /\ payout'[r].key = key'[payout'[r].email]
          /\ OpenRound(payout[r].round, payout[r].email)'
    BY <1>7, <1>8 DEF Consistent, RoundInv
  <2>2. \A c \in Caller : job'[c].pc = "pay" => job'[c] = job[c] /\ job[c].email \in Email
    BY <1>3 DEF Consistent, JobInv, JobOk
  <2>3. \A c \in Caller : job'[c].pc = "pay" => OpenRound(job[c].round, job[c].email)'
    BY <1>7, <1>8, <2>2 DEF Consistent, RoundInv
  <2>4. OnePayoutPerRound'
    BY <1>2 DEF Consistent, RoundInv, OnePayoutPerRound
  <2>5. \A c \in Caller : job'[c].pc = "pay" =>
          \A r \in PayoutsOf(job[c].email)' : payout'[r].round # job'[c].round
    BY <1>2, <2>2 DEF Consistent, RoundInv
  <2>6. \A b, c \in Caller :
          /\ job'[b].pc = "pay" /\ job'[c].pc = "pay"
          /\ job'[b].email = job'[c].email /\ job'[b].round = job'[c].round
          => b = c
    BY <2>2 DEF Consistent, RoundInv
  <2> QED BY <2>1, <2>3, <2>4, <2>5, <2>6 DEF RoundInv
<1>10. HonourInv'
  BY DEF Consistent, HonourInv
<1> QED BY <1>4, <1>5, <1>6, <1>9, <1>10

LEMMA RecordFailureConsistent ==
  ASSUME TypeOK, Consistent, NEW c \in Caller, RecordFailure(c)
  PROVE  Consistent'
<1> DEFINE e == job[c].email
<1>1. /\ e \in Email /\ job[c].outcome \in {"failed", "unknown_outcome"}
      /\ OwnRef(job[c].ref, e)
      /\ UNCHANGED <<key, payout, recon>>
      /\ job' = [job EXCEPT ![c] = Idle]
  BY DEF RecordFailure, Consistent, JobInv, JobOk
<1>2. CASE MayRecordFailure(e)
  <2>1. /\ status[e] = "claimed"
        /\ status' = [status EXCEPT ![e] = job[c].outcome]
        /\ reference' = [reference EXCEPT ![e] = CatchRef(job[c], reference[e])]
        /\ failures' = [failures EXCEPT ![e] =
                          @ + (IF job[c].outcome = "failed" THEN 1 ELSE 0)]
    BY <1>2 DEF RecordFailure, MayRecordFailure
  <2>2. OwnRef(CatchRef(job[c], reference[e]), e)
    BY <1>1 DEF CatchRef, Consistent, RowInv
  <2>3. \A d \in Caller : job'[d] = job[d] \/ job'[d] = Idle
    BY <1>1 DEF TypeOK
  <2>4. (KeyInv /\ JobInv /\ RowInv /\ RoundInv /\ HonourInv)'
    BY <1>1, <2>1, <2>2, <2>3, VerdictConsistent
  <2>5. ReconInv'
    BY <1>1 DEF Consistent, ReconInv, PayoutsOf
  <2> QED BY <2>4, <2>5 DEF Consistent
<1>3. CASE ~MayRecordFailure(e)
  <2>1. UNCHANGED <<status, reference, failures>>
    BY <1>3 DEF RecordFailure
  <2>2. JobOk(Idle) /\ Idle.pc # "pay"
    BY DEF JobOk, Idle
  <2> QED BY <1>1, <2>1, <2>2, LocalStep
<1> QED BY <1>2, <1>3

\* What a reconciler takes from its scan are payouts of the scanned rows, and
\* what it writes is what the provider says of one of them.
LEMMA ReconcilerConsistent ==
  ASSUME TypeOK, Consistent, NEW w \in Reconciler, ReconcilerStep(w)
  PROVE  Consistent'
<1>p. \A f : UNCHANGED payout => PayoutsOf(f)' = PayoutsOf(f)
  BY DEF PayoutsOf
<1>r. Resting.pc = "idle" /\ \A e \in Email : Resting.seen[e] = None
  BY DEF Resting
<1>1. CASE PromoteStaleClaims(w)
  <2>1. \A e \in Email : \/ status'[e] = status[e]
                         \/ status[e] = "claimed" /\ status'[e] = "unknown_outcome"
    BY <1>1 DEF PromoteStaleClaims, StaleClaim
  <2>2. UNCHANGED <<key, reference, failures, job, payout>>
    BY <1>1 DEF PromoteStaleClaims
  <2>3. KeyInv'
    BY <2>1, <2>2 DEF Consistent, KeyInv
  <2>4. JobInv'
    BY <1>p, <2>1, <2>2 DEF Consistent, JobInv, JobOk, OwnRef
  <2>5. RowInv'
    BY <1>p, <2>1, <2>2 DEF Consistent, RowInv, OwnRef
  <2>6. RoundInv'
    BY <1>p, <2>1, <2>2 DEF Consistent, RoundInv, OnePayoutPerRound, OpenRound, JobInv, JobOk
  <2>7. ReconInv'
    BY <1>1, <1>p, <2>2 DEF PromoteStaleClaims, Consistent, ReconInv, TypeOK, Recon
  <2>8. HonourInv'
    BY <2>2 DEF Consistent, HonourInv
  <2> QED BY <2>3, <2>4, <2>5, <2>6, <2>7, <2>8 DEF Consistent
<1>2. CASE Scan(w)
  <2>1. \A e \in Email : Stuck(e) => reference[e] \in PayoutsOf(e)
    BY DEF Stuck, Consistent, RowInv, OwnRef
  <2>2. ASSUME NEW v \in Reconciler, NEW e \in Email, recon'[v].seen[e] # None
        PROVE  recon'[v].seen[e] \in PayoutsOf(e)
    <3>1. CASE v = w
      BY <1>2, <2>1, <2>2, <3>1 DEF Scan, TypeOK, Recon
    <3>2. CASE v # w
      BY <1>2, <2>2, <3>2 DEF Scan, TypeOK, Consistent, ReconInv
    <3> QED BY <3>1, <3>2
  <2>3. \A v \in Reconciler : recon'[v].pc = "write" => recon'[v] = recon[v]
    BY <1>2 DEF Scan, TypeOK, Recon
  <2>4. ReconInv'
    BY <1>2, <1>p, <2>2, <2>3 DEF Scan, Consistent, ReconInv
  <2> QED BY <1>2, <2>4, LocalReconStep DEF Scan, row
<1>3. ASSUME NEW e \in Email, Poll(w, e)
      PROVE  Consistent'
  <2>1. recon[w].seen[e] \in PayoutsOf(e)
    BY <1>3, NoneAssumption DEF Poll, Consistent, ReconInv
  <2>2. ASSUME NEW v \in Reconciler
        PROVE  recon'[v].seen = recon[v].seen
    BY <1>3 DEF Poll, TypeOK, Recon
  <2>3. /\ recon'[w].email = e
        /\ recon'[w].result = payout[recon[w].seen[e]].state
        /\ \A v \in Reconciler : v # w => recon'[v] = recon[v]
    BY <1>3 DEF Poll, TypeOK, Recon
  <2>4. payout[recon[w].seen[e]].state \in {"paid", "failed"} /\ UNCHANGED payout
    BY <1>3 DEF Poll
  <2>5. ReconInv'
    BY <1>p, <2>1, <2>2, <2>3, <2>4 DEF Consistent, ReconInv
  <2> QED BY <1>3, <2>5, LocalReconStep DEF Poll, row
<1>4. ASSUME NEW e \in Email, PollNothing(w, e)
      PROVE  Consistent'
  <2>1. ASSUME NEW v \in Reconciler
        PROVE  /\ \A f \in Email : recon'[v].seen[f] \in {None, recon[v].seen[f]}
               /\ recon'[v].pc = "write" => recon'[v] = recon[v]
    BY <1>4 DEF PollNothing, TypeOK, Recon
  <2>2. ReconInv'
    BY <1>4, <1>p, <2>1 DEF PollNothing, Consistent, ReconInv
  <2> QED BY <1>4, <2>2, LocalReconStep DEF PollNothing, row
<1>5. CASE WriteReconciled(w)
  <2> DEFINE e == recon[w].email
             ref == recon[w].seen[recon[w].email]
             res == recon[w].result
  <2>1. /\ e \in Email /\ res \in {"paid", "failed"} /\ ref \in PayoutsOf(e)
        /\ res = "paid" => payout[ref].state = "paid"
    BY <1>5 DEF WriteReconciled, Consistent, ReconInv
  <2>2. UNCHANGED <<key, job, payout>>
    BY <1>5 DEF WriteReconciled
  <2>3. ASSUME NEW v \in Reconciler
        PROVE  /\ \A f \in Email : recon'[v].seen[f] \in {None, recon[v].seen[f]}
               /\ recon'[v].pc = "write" => recon'[v] = recon[v]
    BY <1>5 DEF WriteReconciled, TypeOK, Recon
  <2>4. ReconInv'
    BY <1>p, <2>2, <2>3 DEF Consistent, ReconInv
  <2>5. CASE MayReconcile(e)
    <3>1. /\ status[e] = "unknown_outcome"
          /\ status' = [status EXCEPT ![e] = res]
          /\ reference' = [reference EXCEPT ![e] = ref]
          /\ failures' = [failures EXCEPT ![e] = @ + (IF res = "failed" THEN 1 ELSE 0)]
      BY <1>5, <2>5 DEF WriteReconciled, MayReconcile
    <3>2. OwnRef(ref, e)
      BY <2>1 DEF OwnRef
    <3>3. (KeyInv /\ JobInv /\ RowInv /\ RoundInv /\ HonourInv)'
      BY <2>1, <2>2, <3>1, <3>2, VerdictConsistent
    <3> QED BY <2>4, <3>3 DEF Consistent
  <2>6. CASE ~MayReconcile(e)
    <3>1. UNCHANGED <<status, reference, failures>>
      BY <1>5, <2>6 DEF WriteReconciled
    <3> QED BY <2>2, <2>4, <3>1, LocalReconStep
  <2> QED BY <2>5, <2>6
<1>6. CASE EndPass(w)
  <2>1. ReconInv'
    BY <1>6, <1>p, <1>r DEF EndPass, TypeOK, Consistent, ReconInv
  <2> QED BY <1>6, <2>1, LocalReconStep DEF EndPass, row
<1>7. CASE CrashReconciler(w)
  <2>1. ReconInv'
    BY <1>7, <1>p, <1>r DEF CrashReconciler, TypeOK, Consistent, ReconInv
  <2> QED BY <1>7, <2>1, LocalReconStep DEF CrashReconciler, row
<1> QED
  BY <1>1, <1>2, <1>3, <1>4, <1>5, <1>6, <1>7 DEF ReconcilerStep

\* The provider moves a request on; it takes back no payout that has landed.
LEMMA ProviderConsistent ==
  ASSUME TypeOK, Consistent, NEW r \in PayoutId, ProviderMove(r)
  PROVE  Consistent'
<1>1. UNCHANGED <<invoice, row, job, recon>>
  BY DEF ProviderMove, Accept, Refuse, Land, Bounce, ProviderStep
<1>2. PICK to \in {"processing", "refused", "paid", "failed"} :
        payout' = [payout EXCEPT ![r].state = to]
  BY DEF ProviderMove, Accept, Refuse, Land, Bounce, ProviderStep
<1>3. payout[r].state \in {"sent", "processing"}
  BY DEF ProviderMove, Accept, Refuse, Land, Bounce, ProviderStep
<1>4. \A q \in PayoutId :
        /\ payout'[q].email = payout[q].email /\ payout'[q].key = payout[q].key
        /\ payout'[q].round = payout[q].round
        /\ payout'[q].state = "unused" <=> payout[q].state = "unused"
        /\ payout[q].state = "paid" => payout'[q].state = "paid"
        /\ payout'[q].state \notin {"unused", "refused"} =>
             payout[q].state \notin {"unused", "refused"}
  BY <1>2, <1>3 DEF TypeOK, Payout
<1>5. \A e : PayoutsOf(e)' = PayoutsOf(e)
  BY <1>4 DEF PayoutsOf
<1>6. \A e : \A q \in PayoutsOf(e) : q \in PayoutId
  BY DEF PayoutsOf
<1>7. KeyInv'
  BY <1>1 DEF row, Consistent, KeyInv
<1>8. JobInv'
  BY <1>1, <1>4, <1>5, <1>6 DEF row, Consistent, JobInv, JobOk, OwnRef
<1>9. RowInv'
  BY <1>1, <1>4, <1>5, <1>6 DEF row, Consistent, RowInv, OwnRef
<1>10. RoundInv'
  BY <1>1, <1>4, <1>5, <1>6 DEF row, Consistent, RoundInv, OnePayoutPerRound, OpenRound
<1>11. ReconInv'
  BY <1>1, <1>4, <1>5, <1>6 DEF Consistent, ReconInv
<1>12. HonourInv'
  BY <1>4 DEF Consistent, HonourInv
<1> QED BY <1>7, <1>8, <1>9, <1>10, <1>11, <1>12 DEF Consistent

\* Extraction and the clock do not touch what the invariant is about.
LEMMA EnvironmentConsistent ==
  ASSUME TypeOK, Consistent,
         (\E e \in Email : Reextract(e) \/ AgeClaim(e)) \/ UNCHANGED vars
  PROVE  Consistent'
<1>1. UNCHANGED <<status, key, reference, failures, job, payout, recon>>
  BY DEF Reextract, AgeClaim, row, vars
<1>2. ReconInv'
  BY <1>1 DEF Consistent, ReconInv, PayoutsOf
<1> QED BY <1>1, <1>2, LocalReconStep

---------------------------------------------------------------------------
(* Theorems *)

LEMMA NextConsistent == IInv /\ [Next]_vars => IInv'
<1> SUFFICES ASSUME TypeOK, Consistent, [Next]_vars
             PROVE  TypeOK' /\ Consistent'
  BY DEF IInv
<1>1. JobInv /\ ReconInv
  BY DEF Consistent
<1>2. ASSUME NEW c \in Caller, CallerStep(c)
      PROVE  TypeOK' /\ Consistent'
  BY <1>1, <1>2, CallerType, LocalCallerSteps, UpsertConsistent, WinClaimConsistent,
     SendConsistent, RecordPaidConsistent, RecordFailureConsistent DEF CallerStep
<1>3. ASSUME NEW w \in Reconciler, ReconcilerStep(w)
      PROVE  TypeOK' /\ Consistent'
  BY <1>1, <1>3, ReconcilerType, ReconcilerConsistent
<1>4. ASSUME NEW r \in PayoutId, ProviderMove(r)
      PROVE  TypeOK' /\ Consistent'
  BY <1>4, EnvironmentType, ProviderConsistent
<1>5. CASE (\E e \in Email : Reextract(e) \/ AgeClaim(e)) \/ UNCHANGED vars
  BY <1>5, EnvironmentType, EnvironmentConsistent
<1> QED BY <1>2, <1>3, <1>4, <1>5 DEF Next

LEMMA Invariance == Spec => []IInv
<1>1. Init => IInv
  BY InitType, InitConsistent DEF IInv
<1> QED BY <1>1, NextConsistent, PTL DEF Spec

\* Every state of the payment path is well formed.
THEOREM TypeCorrect == Spec => []TypeOK
<1>1. IInv => TypeOK
  BY DEF IInv
<1> QED BY <1>1, Invariance, PTL

\* A row marked paid names a payout of its own invoice that has landed, with
\* any number of callers, reconcilers, crashes and late answers.
THEOREM PaidRowsAreBacked == Spec => []PaidIsBacked
<1>1. IInv => PaidIsBacked
  BY DEF IInv, Consistent, RowInv, PaidIsBacked
<1> QED BY <1>1, Invariance, PTL

\* No two requests of an invoice leave in one round: between any two of them
\* "failed" was recorded on its row.
THEOREM RequestsNeedAFailure == Spec => []OnePayoutPerRound
<1>1. IInv => OnePayoutPerRound
  BY DEF IInv, Consistent, RoundInv
<1> QED BY <1>1, Invariance, PTL

\* Behind a provider that honours the idempotency key no invoice is paid
\* twice, races and retries included.
THEOREM HonouredKeyPaysOnce == Spec => []NoSecondPayout
<1>1. IInv => NoSecondPayout
  <2> SUFFICES ASSUME IInv, Provider = "razorpay", NEW e \in Email,
                      NEW q \in PayoutsOf(e), NEW r \in PayoutsOf(e), Live(q), Live(r)
               PROVE  q = r
    BY DEF NoSecondPayout
  <2>1. q \in PayoutId /\ r \in PayoutId /\ payout[q].email = e /\ payout[r].email = e
        /\ payout[q].state # "unused" /\ payout[r].state # "unused"
    BY DEF PayoutsOf
  <2>2. payout[q].key = payout[r].key
    BY <2>1 DEF IInv, Consistent, RoundInv
  <2> QED BY <2>1, <2>2 DEF Live, IInv, Consistent, HonourInv
<1> QED BY <1>1, Invariance, PTL

---------------------------------------------------------------------------
(* Action properties *)

\* Only a repair and a creation write the terms and the key, and neither
\* touches a locked row.
LEMMA TermsStep ==
  ASSUME TypeOK, [Next]_vars, NEW e \in Email,
         status[e] \in {"claimed", "paid", "unknown_outcome"}
  PROVE  payable'[e] = payable[e] /\ key'[e] = key[e]
<1> USE DEF TypeOK
<1>1. CASE UNCHANGED vars
  BY <1>1 DEF vars, row
<1>2. CASE \E f \in Email : Reextract(f) \/ AgeClaim(f)
  BY <1>2 DEF Reextract, AgeClaim, row
<1>3. ASSUME NEW c \in Caller, CallerStep(c)
      PROVE  payable'[e] = payable[e] /\ key'[e] = key[e]
  <2>1. CASE \E f \in Email, kind \in {"prepare", "confirm", "auto"} : Begin(c, f, kind)
    BY <2>1 DEF Begin, row
  <2>2. CASE Repair(c)
    BY <2>2 DEF Repair, RepairMatches, Retryable
  <2>3. CASE Upsert(c)
    BY <2>3 DEF Upsert, UpsertRow
  <2>4. CASE Load(c) \/ WinClaim(c) \/ LoseClaim(c) \/ FailBeforePayout(c)
    BY <2>4 DEF Load, WinClaim, LoseClaim, FailBeforePayout, row
  <2>5. CASE Send(c) \/ Answer(c) \/ Crash(c)
    BY <2>5 DEF Send, Answer, Crash, row
  <2>6. CASE RecordPaid(c) \/ RecordPaidThrows(c) \/ RecordFailure(c)
    BY <2>6 DEF RecordPaid, RecordPaidThrows, RecordFailure, row
  <2> QED BY <1>3, <2>1, <2>2, <2>3, <2>4, <2>5, <2>6 DEF CallerStep
<1>4. CASE \E r \in PayoutId : ProviderMove(r)
  BY <1>4 DEF ProviderMove, Accept, Refuse, Land, Bounce, ProviderStep, row
<1>5. ASSUME NEW w \in Reconciler, ReconcilerStep(w)
      PROVE  payable'[e] = payable[e] /\ key'[e] = key[e]
  BY <1>5 DEF ReconcilerStep, PromoteStaleClaims, Scan, Poll, PollNothing,
              WriteReconciled, EndPass, CrashReconciler, row
<1> QED BY <1>1, <1>2, <1>3, <1>4, <1>5 DEF Next

\* What is to be paid, and under which key, never changes while a row is
\* claimed, paid or in doubt (the guards of preparePayment and
\* confirmPayment, and the empty update of the upsert).
THEOREM LockedTermsStay == Spec => LockedRowKeepsTerms
<1>1. TypeOK /\ [Next]_vars =>
        [\A e \in Email : status[e] \in {"claimed", "paid", "unknown_outcome"} =>
           payable'[e] = payable[e] /\ key'[e] = key[e]]_vars
  BY TermsStep
<1> QED BY <1>1, TypeCorrect, PTL DEF Spec, LockedRowKeepsTerms

---------------------------------------------------------------------------
(* Refinement of PaymentLedger *)

\* The rounds spent depend on which requests were sent, not on how they fare.
LEMMA SpentSame ==
  ASSUME \A r \in PayoutId :
           /\ payout'[r].state = "unused" <=> payout[r].state = "unused"
           /\ payout'[r].email = payout[r].email
           /\ payout'[r].round = payout[r].round
  PROVE  spent' = spent
<1>1. \A e \in Email : PayoutsOf(e)' = PayoutsOf(e)
  BY DEF PayoutsOf
<1>2. \A e \in Email : {payout'[r].round : r \in PayoutsOf(e)'} = {payout[r].round : r \in PayoutsOf(e)}
  BY <1>1 DEF PayoutsOf
<1> QED BY <1>2 DEF spent

\* A request sent is a round spent, one that was open and unspent.
LEMMA SendRefines ==
  ASSUME IInv, NEW c \in Caller, Send(c)
  PROVE  UNCHANGED <<status, failures, spent>> \/ Ledger!Send(job[c].email)
<1> DEFINE j == job[c]
<1> USE DEF IInv, Consistent, TypeOK
<1>1. j \in Job /\ j.pc = "pay" /\ j.email \in Email
  BY DEF Send, JobInv, JobOk
<1>2. UNCHANGED <<status, failures>>
  BY DEF Send, row
<1>3. CASE UNCHANGED payout
  BY <1>2, <1>3, SpentSame
<1>4. ASSUME NEW r \in PayoutId, payout[r].state = "unused",
             payout' = [payout EXCEPT ![r] =
                 [state |-> "sent", email |-> j.email, payable |-> j.payable,
                  key |-> j.key, round |-> j.round]]
      PROVE  Ledger!Send(j.email)
  <2>1. \A e \in Email : e = j.email => PayoutsOf(e)' = PayoutsOf(e) \union {r}
    BY <1>1, <1>4 DEF PayoutsOf
  <2>2. \A e \in Email \ {j.email} : PayoutsOf(e)' = PayoutsOf(e)
    BY <1>1, <1>4 DEF PayoutsOf
  <2>3. \A q \in PayoutId \ {r} : payout'[q] = payout[q]
    BY <1>4
  <2>4. payout'[r].round = j.round
    BY <1>4
  <2>5. \A e \in Email : r \notin PayoutsOf(e) /\ PayoutsOf(e) \subseteq PayoutId
    BY <1>4 DEF PayoutsOf
  <2>6. spent'[j.email] = spent[j.email] \union {j.round}
    BY <1>1, <2>1, <2>3, <2>4, <2>5 DEF spent
  <2>7. \A e \in Email \ {j.email} : spent'[e] = spent[e]
    BY <2>2, <2>3, <2>5 DEF spent
  <2>8. spent' = [spent EXCEPT ![j.email] = @ \union {j.round}]
    BY <1>1, <2>6, <2>7 DEF spent
  <2>9. j.round \in 0..failures[j.email]
    BY <1>1 DEF RoundInv, OpenRound, Job
  <2>10. j.round \notin spent[j.email]
    BY <1>1 DEF RoundInv, spent
  <2>11. status[j.email] \notin {"absent", "pending"}
    BY <1>1 DEF JobInv, JobOk
  <2> QED BY <1>2, <2>8, <2>9, <2>10, <2>11 DEF Ledger!Send
<1> QED BY <1>3, <1>4 DEF Send

\* "paid" is recorded of an invoice something was sent for, by a caller as
\* well as by a reconciler.
LEMMA PaidHasSpent ==
  ASSUME IInv
  PROVE  /\ \A c \in Caller : RecordPaid(c) => spent[job[c].email] # {}
         /\ \A w \in Reconciler : recon[w].pc = "write" => spent[recon[w].email] # {}
<1>1. \A e \in Email : PayoutsOf(e) # {} => spent[e] # {}
  BY DEF spent
<1>2. ASSUME NEW c \in Caller, RecordPaid(c)
      PROVE  spent[job[c].email] # {}
  BY <1>1, <1>2 DEF RecordPaid, IInv, Consistent, JobInv, JobOk
<1>3. ASSUME NEW w \in Reconciler, recon[w].pc = "write"
      PROVE  spent[recon[w].email] # {}
  BY <1>1, <1>3 DEF IInv, Consistent, ReconInv
<1> QED BY <1>2, <1>3

\* The steps of a caller, seen from the ledger.
LEMMA CallerRefines ==
  ASSUME IInv, NEW c \in Caller, CallerStep(c)
  PROVE  UNCHANGED Ledger!vars \/ Ledger!Next
<1> USE DEF TypeOK
<1>t. TypeOK /\ job[c] \in Job
  BY DEF IInv
<1>e. job[c].pc # "idle" => job[c].email \in Email
  BY DEF IInv, Consistent, JobInv, JobOk
<1>s. payout' = payout => spent' = spent
  BY SpentSame
<1>1. CASE \E e \in Email, kind \in {"prepare", "confirm", "auto"} : Begin(c, e, kind)
  BY <1>1, <1>s DEF Begin, row, Ledger!vars
<1>2. CASE Repair(c)
  BY <1>2, <1>s DEF Repair, Ledger!vars
<1>3. CASE Upsert(c)
  <2>1. CASE status[job[c].email] = "absent"
    BY <1>3, <2>1, <1>e, <1>s DEF Upsert, UpsertRow, Ledger!Next, Ledger!Prepare
  <2>2. CASE status[job[c].email] # "absent"
    BY <1>3, <2>2, <1>s DEF Upsert, UpsertRow, Ledger!vars
  <2> QED BY <2>1, <2>2
<1>4. CASE Load(c) \/ LoseClaim(c) \/ FailBeforePayout(c) \/ Answer(c)
           \/ RecordPaidThrows(c) \/ Crash(c)
  BY <1>4, <1>s DEF Load, LoseClaim, FailBeforePayout, Answer, RecordPaidThrows, Crash,
                    row, Ledger!vars
<1>5. CASE WinClaim(c)
  BY <1>5, <1>e, <1>s DEF WinClaim, Claimable, Retryable, Ledger!Retryable, Ledger!Claim, Ledger!Next
<1>6. CASE Send(c)
  <2>1. job[c].email \in Email
    BY <1>6, <1>e DEF Send
  <2> QED BY <1>6, <2>1, SendRefines DEF Ledger!Next, Ledger!vars
<1>7. CASE RecordPaid(c)
  BY <1>7, <1>e, <1>s, PaidHasSpent DEF RecordPaid, Ledger!RecordPaid, Ledger!Next
<1>8. CASE RecordFailure(c)
  <2> DEFINE e == job[c].email
  <2>1. e \in Email /\ spent' = spent
    BY <1>8, <1>e, <1>s DEF RecordFailure
  <2>2. CASE status[e] # "claimed"
    BY <1>8, <2>1, <2>2 DEF RecordFailure, MayRecordFailure, Ledger!vars
  <2>3. CASE status[e] = "claimed" /\ job[c].outcome = "failed"
    <3>1. Ledger!RecordFailed(e)
      BY <1>8, <2>1, <2>3, <1>t DEF RecordFailure, MayRecordFailure, Ledger!RecordFailed
    <3> QED BY <2>1, <3>1 DEF Ledger!Next
  <2>4. CASE status[e] = "claimed" /\ job[c].outcome = "unknown_outcome"
    <3>1. failures' = failures
      <4>1. failures' = [failures EXCEPT ![e] = @ + 0]
        BY <1>8, <2>4 DEF RecordFailure, MayRecordFailure
      <4>2. failures \in [Email -> Nat] /\ failures[e] + 0 = failures[e]
        BY <2>1, <1>t
      <4> QED BY <2>1, <4>1, <4>2
    <3>2. status' = [f \in Email |-> IF f \in {e} THEN "unknown_outcome" ELSE status[f]]
      BY <1>8, <2>1, <2>4, <1>t DEF RecordFailure, MayRecordFailure
    <3>3. Ledger!Doubt({e})
      BY <2>1, <2>4, <3>1, <3>2 DEF Ledger!Doubt
    <3> QED BY <2>1, <3>3 DEF Ledger!Next
  <2> QED BY <1>8, <2>2, <2>3, <2>4 DEF RecordFailure
<1> QED BY <1>1, <1>2, <1>3, <1>4, <1>5, <1>6, <1>7, <1>8 DEF CallerStep

\* The steps of a reconciler, seen from the ledger.
LEMMA ReconcilerRefines ==
  ASSUME IInv, NEW w \in Reconciler, ReconcilerStep(w)
  PROVE  UNCHANGED Ledger!vars \/ Ledger!Next
<1> USE DEF TypeOK
<1>t. TypeOK /\ recon[w] \in Recon
  BY DEF IInv
<1>s. spent' = spent
  <2>1. payout' = payout
    BY DEF ReconcilerStep, PromoteStaleClaims, Scan, Poll, PollNothing, WriteReconciled,
           EndPass, CrashReconciler
  <2> QED BY <2>1, SpentSame
<1>1. CASE PromoteStaleClaims(w)
  <2> DEFINE S == {e \in Email : StaleClaim(e)}
  <2>1. Ledger!Doubt(S)
    BY <1>1, <1>s DEF PromoteStaleClaims, StaleClaim, Ledger!Doubt
  <2>2. S \in SUBSET Email
    OBVIOUS
  <2> QED BY <2>1, <2>2 DEF Ledger!Next
<1>2. CASE Scan(w) \/ (\E e \in Email : Poll(w, e) \/ PollNothing(w, e))
           \/ EndPass(w) \/ CrashReconciler(w)
  BY <1>2, <1>s DEF Scan, Poll, PollNothing, EndPass, CrashReconciler, row, Ledger!vars
<1>3. CASE WriteReconciled(w)
  <2> DEFINE e == recon[w].email
  <2>1. e \in Email /\ recon[w].result \in {"paid", "failed"} /\ spent[e] # {}
    BY <1>3, PaidHasSpent DEF WriteReconciled, IInv, Consistent, ReconInv
  <2>2. CASE status[e] # "unknown_outcome"
    BY <1>3, <1>s, <2>2 DEF WriteReconciled, MayReconcile, Ledger!vars
  <2>3. CASE status[e] = "unknown_outcome" /\ recon[w].result = "paid"
    <3>1. failures' = failures
      <4>1. failures' = [failures EXCEPT ![e] = @ + 0]
        BY <1>3, <2>3 DEF WriteReconciled, MayReconcile
      <4>2. failures \in [Email -> Nat] /\ failures[e] + 0 = failures[e]
        BY <2>1, <1>t
      <4> QED BY <2>1, <4>1, <4>2
    <3>2. Ledger!RecordPaid(e)
      BY <1>3, <1>s, <2>1, <2>3, <3>1 DEF WriteReconciled, MayReconcile, Ledger!RecordPaid
    <3> QED BY <2>1, <3>2 DEF Ledger!Next
  <2>4. CASE status[e] = "unknown_outcome" /\ recon[w].result = "failed"
    <3>1. Ledger!RecordFailed(e)
      BY <1>3, <1>s, <2>1, <2>4, <1>t DEF WriteReconciled, MayReconcile, Ledger!RecordFailed
    <3> QED BY <2>1, <3>1 DEF Ledger!Next
  <2> QED BY <2>1, <2>2, <2>3, <2>4
<1> QED BY <1>1, <1>2, <1>3 DEF ReconcilerStep

\* Every step of the rows and requests is one of the ledger, or none.
LEMMA LedgerStep == IInv /\ [Next]_vars => [Ledger!Next]_(Ledger!vars)
<1> SUFFICES ASSUME IInv, [Next]_vars
             PROVE  UNCHANGED Ledger!vars \/ Ledger!Next
  OBVIOUS
<1>1. CASE UNCHANGED vars \/ (\E e \in Email : Reextract(e) \/ AgeClaim(e))
  <2>1. UNCHANGED <<status, failures, payout>>
    BY <1>1 DEF vars, row, Reextract, AgeClaim
  <2> QED BY <2>1, SpentSame DEF Ledger!vars
<1>2. ASSUME NEW c \in Caller, CallerStep(c)
      PROVE  UNCHANGED Ledger!vars \/ Ledger!Next
  BY <1>2, CallerRefines
<1>3. ASSUME NEW r \in PayoutId, ProviderMove(r)
      PROVE  UNCHANGED Ledger!vars \/ Ledger!Next
  <2>1. /\ UNCHANGED <<status, failures>>
        /\ \E from \in {"sent", "processing"}, to \in {"processing", "refused", "paid", "failed"} :
             payout[r].state = from /\ payout' = [payout EXCEPT ![r].state = to]
    BY <1>3 DEF ProviderMove, Accept, Refuse, Land, Bounce, ProviderStep, row
  <2>2. spent' = spent
    BY <2>1, SpentSame DEF IInv, TypeOK, Payout
  <2> QED BY <2>1, <2>2 DEF Ledger!vars
<1>4. ASSUME NEW w \in Reconciler, ReconcilerStep(w)
      PROVE  UNCHANGED Ledger!vars \/ Ledger!Next
  BY <1>4, ReconcilerRefines
<1> QED BY <1>1, <1>2, <1>3, <1>4 DEF Next

\* The rows and requests of any number of callers and reconcilers implement
\* PaymentLedger: paid is final, doubt is never claimed, one request a round.
THEOREM LedgerImplemented == Spec => LedgerSpec
<1>1. Init => Ledger!Init
  <2> SUFFICES ASSUME Init
               PROVE  Ledger!Init
    OBVIOUS
  <2>1. \A e \in Email : PayoutsOf(e) = {}
    BY DEF Init, Unused, PayoutsOf
  <2>2. spent = [e \in Email |-> {}]
    BY <2>1 DEF spent
  <2> QED BY <2>2 DEF Init, Ledger!Init
<1> QED BY <1>1, LedgerStep, Invariance, PTL DEF Spec, LedgerSpec, Ledger!Spec

---------------------------------------------------------------------------
(* What the promises of PaymentLedger come to *)

\* The rounds of an invoice's payouts number them: as many as the failures
\* recorded on its row and, unless it waits for a retry, one more.
THEOREM PayoutsAreCounted ==
  Spec => [](\A e \in Email :
               /\ IsFiniteSet(PayoutsOf(e))
               /\ Cardinality(PayoutsOf(e)) <= failures[e] + (IF status[e] = "failed" THEN 0 ELSE 1))
<1>1. ASSUME IInv, NEW e \in Email
      PROVE  /\ IsFiniteSet(PayoutsOf(e))
             /\ Cardinality(PayoutsOf(e)) <= failures[e] + (IF status[e] = "failed" THEN 0 ELSE 1)
  <2> DEFINE bound == failures[e] + (IF status[e] = "failed" THEN 0 ELSE 1)
             Rounds == 0..bound - 1
             roundOf == [r \in PayoutsOf(e) |-> payout[r].round]
  <2>1. failures[e] \in Nat /\ bound \in Nat
    BY <1>1 DEF IInv, TypeOK
  <2>2. \A r \in PayoutsOf(e) : payout[r].round \in Rounds
    <3> SUFFICES ASSUME NEW r \in PayoutsOf(e)
                 PROVE  payout[r].round \in Rounds
      OBVIOUS
    <3>1. r \in PayoutId /\ payout[r].state # "unused" /\ payout[r].email = e
      BY DEF PayoutsOf
    <3>2. payout[r].round \in Nat /\ OpenRound(payout[r].round, e)
      BY <1>1, <3>1 DEF IInv, TypeOK, Payout, Consistent, RoundInv
    <3> QED BY <2>1, <3>2 DEF OpenRound
  <2>3. roundOf \in Injection(PayoutsOf(e), Rounds)
    <3>1. roundOf \in [PayoutsOf(e) -> Rounds]
      BY <2>2
    <3>2. \A q, r \in PayoutsOf(e) : payout[q].round = payout[r].round => q = r
      BY <1>1 DEF IInv, Consistent, RoundInv, OnePayoutPerRound
    <3> QED BY <3>1, <3>2 DEF Injection, IsInjective
  <2>4. IsFiniteSet(Rounds) /\ Cardinality(Rounds) = bound
    <3>1. 0 \in Int /\ bound - 1 \in Int
      BY <2>1
    <3> HIDE DEF bound
    <3>2. IsFiniteSet(Rounds) /\ Cardinality(Rounds) = IF 0 > bound - 1 THEN 0 ELSE (bound - 1) - 0 + 1
      BY <3>1, FS_Interval
    <3> QED BY <2>1, <3>2
  <2>5. IsFiniteSet(PayoutsOf(e)) /\ Cardinality(PayoutsOf(e)) <= Cardinality(Rounds)
    BY <2>3, <2>4, FS_Injection
  <2> QED BY <2>4, <2>5
<1>2. IInv => \A e \in Email :
         /\ IsFiniteSet(PayoutsOf(e))
         /\ Cardinality(PayoutsOf(e)) <= failures[e] + (IF status[e] = "failed" THEN 0 ELSE 1)
  BY <1>1
<1> QED BY <1>2, Invariance, PTL

\* Where a row is in the life of its status.
rowLife == [e \in Email |-> IF status[e] \in {"absent", "pending"} THEN "open" ELSE status[e]]

LEMMA LifeStep == IInv /\ [Next]_vars => [Life!LifeNext]_rowLife
<1> SUFFICES ASSUME IInv, [Next]_vars
             PROVE  UNCHANGED rowLife \/ Life!LifeNext
  OBVIOUS
<1> USE DEF rowLife
<1>t. status \in [Email -> Status]
  BY DEF IInv, TypeOK
<1>1. CASE UNCHANGED status
  BY <1>1
<1>2. ASSUME NEW e \in Email, Ledger!Prepare(e)
      PROVE  UNCHANGED rowLife
  BY <1>2, <1>t DEF Ledger!Prepare
<1>3. ASSUME NEW e \in Email, Ledger!Claim(e)
      PROVE  Life!Claim(e)
  BY <1>3, <1>t DEF Ledger!Claim, Ledger!Retryable, Life!Claim, Life!Turn, Status
<1>4. ASSUME NEW e \in Email, Ledger!RecordPaid(e)
      PROVE  UNCHANGED rowLife \/ Life!Pay(e)
  <2>1. PayoutsOf(e) # {}
    BY <1>4 DEF Ledger!RecordPaid, spent
  <2>2. status[e] \notin {"absent", "pending"}
    BY <2>1 DEF IInv, Consistent, RowInv
  <2>3. CASE status[e] = "paid"
    BY <1>4, <1>t, <2>3 DEF Ledger!RecordPaid
  <2>4. CASE status[e] # "paid"
    BY <1>4, <1>t, <2>2, <2>4 DEF Ledger!RecordPaid, Life!Pay, Life!Turn, Status
  <2> QED BY <2>3, <2>4
<1>5. ASSUME NEW e \in Email, Ledger!RecordFailed(e)
      PROVE  Life!Fail(e)
  BY <1>5, <1>t DEF Ledger!RecordFailed, Life!Fail, Life!Turn, Status
<1>6. ASSUME NEW S \in SUBSET Email, Ledger!Doubt(S)
      PROVE  Life!Doubt(S)
  BY <1>6, <1>t DEF Ledger!Doubt, Life!Doubt, Status
<1>7. ASSUME NEW e \in Email, Ledger!Send(e)
      PROVE  UNCHANGED status
  BY <1>7 DEF Ledger!Send
<1>8. UNCHANGED status \/ Ledger!Next
  BY LedgerStep DEF Ledger!vars
<1> QED BY <1>1, <1>2, <1>3, <1>4, <1>5, <1>6, <1>7, <1>8 DEF Ledger!Next, Life!LifeNext

\* The status of a row lives as the comment beside the column says
\* (schema.prisma:148-150), for all that claim, answer late and reconcile.
THEOREM RowsLiveAsCommented == Spec => RowsLive
<1>1. Init => Life!LifeInit
  BY DEF Init, Life!LifeInit
<1>2. IInv /\ [Next]_vars =>
        [Life!LifeNext]_([e \in Email |-> IF status[e] \in {"absent", "pending"} THEN "open" ELSE status[e]])
  BY LifeStep DEF rowLife
<1> QED BY <1>1, <1>2, Invariance, PTL DEF Spec, RowsLive, Life!LifeSpec

\* claimPaymentIntent claims nothing that is paid or in doubt, and no late
\* answer, reconciler or preparation takes "paid" back.
THEOREM PaidIsFinal ==
  Spec => [][\A e \in Email : /\ status[e] = "paid" => status'[e] = "paid"
                              /\ status[e] = "unknown_outcome" => status'[e] # "claimed"]_vars
<1>1. IInv /\ [Next]_vars =>
        [\A e \in Email : /\ status[e] = "paid" => status'[e] = "paid"
                          /\ status[e] = "unknown_outcome" => status'[e] # "claimed"]_vars
  <2> SUFFICES ASSUME IInv, [Next]_vars, NEW e \in Email
               PROVE  /\ status[e] = "paid" => status'[e] = "paid"
                      /\ status[e] = "unknown_outcome" => status'[e] # "claimed"
    OBVIOUS
  <2>1. UNCHANGED rowLife \/ Life!LifeNext
    BY LifeStep
  <2>2. rowLife[e] = "paid" => rowLife'[e] = "paid"
    BY <2>1 DEF rowLife, Life!LifeNext, Life!Claim, Life!Pay, Life!Fail, Life!Turn, Life!Doubt
  <2>3. rowLife[e] = "unknown_outcome" => rowLife'[e] # "claimed"
    BY <2>1 DEF rowLife, Life!LifeNext, Life!Claim, Life!Pay, Life!Fail, Life!Turn, Life!Doubt
  <2> QED BY <2>2, <2>3 DEF rowLife
<1> QED BY <1>1, Invariance, PTL DEF Spec

\* A row in doubt without a reference to look up, and in no scan under way,
\* keeps all of that until a late answer ends the doubt: the claim, the
\* preparation, the promotion and the scan pass it by.
LEMMA DoubtStands ==
  ASSUME IInv, [Next]_vars, NEW e \in Email, LeftToOwner(e)
  PROVE  LeftToOwner(e)' \/ status'[e] = "paid"
<1> USE DEF LeftToOwner, Stuck
<1>t. TypeOK
  BY DEF IInv
<1>w. status[e] = "unknown_outcome" /\ \A w \in Reconciler : recon[w].seen[e] = None
  OBVIOUS
<1>1. CASE UNCHANGED <<status, key, reference, recon>>
  BY <1>1
<1>2. ASSUME NEW c \in Caller, CallerStep(c)
      PROVE  LeftToOwner(e)' \/ status'[e] = "paid"
  <2>0. UNCHANGED recon
    BY <1>2 DEF CallerStep, Begin, Repair, Upsert, Load, WinClaim, LoseClaim, FailBeforePayout, Send,
                Answer, RecordPaid, RecordPaidThrows, RecordFailure, Crash
  <2>1. CASE Upsert(c) \/ WinClaim(c) \/ RecordFailure(c)
    <3>1. status'[e] = status[e] /\ key'[e] = key[e] /\ reference'[e] = reference[e]
      BY <1>t, <1>w, <2>1 DEF TypeOK, Upsert, UpsertRow, WinClaim, Claimable, Retryable, RecordFailure,
                               MayRecordFailure
    <3> QED BY <2>0, <3>1
  <2>2. CASE RecordPaid(c)
    <3>1. CASE job[c].email = e
      BY <1>t, <2>2, <3>1 DEF TypeOK, RecordPaid
    <3>2. CASE job[c].email # e
      BY <1>t, <2>0, <2>2, <3>2 DEF TypeOK, RecordPaid
    <3> QED BY <3>1, <3>2
  <2>3. CASE UNCHANGED <<status, key, reference>>
    BY <2>0, <2>3
  <2> QED BY <1>2, <2>1, <2>2, <2>3
          DEF CallerStep, Begin, Repair, Load, LoseClaim, FailBeforePayout, Send, Answer,
              RecordPaidThrows, Crash, row
<1>3. ASSUME NEW w \in Reconciler, ReconcilerStep(w)
      PROVE  LeftToOwner(e)'
  <2>0. UNCHANGED key
    BY <1>3 DEF ReconcilerStep, PromoteStaleClaims, Scan, Poll, PollNothing, WriteReconciled, EndPass,
                CrashReconciler, row
  <2>1. \A v \in Reconciler : recon'[v].seen[e] = None
    <3>1. CASE Scan(w)
      BY <1>t, <1>w, <3>1 DEF TypeOK, Recon, Scan
    <3>2. CASE PromoteStaleClaims(w)
      BY <1>t, <1>w, <3>2 DEF TypeOK, Recon, PromoteStaleClaims
    <3>5. ASSUME NEW f \in Email, Poll(w, f)
          PROVE  \A v \in Reconciler : recon'[v].seen[e] = None
      <4>1. \A v \in Reconciler : recon'[v].seen = recon[v].seen
        BY <1>t, <3>5 DEF TypeOK, Recon, Poll
      <4> QED BY <1>w, <4>1
    <3>3. CASE WriteReconciled(w) \/ \E f \in Email : PollNothing(w, f)
      BY <1>t, <1>w, <3>3 DEF TypeOK, Recon, PollNothing, WriteReconciled
    <3>4. CASE EndPass(w) \/ CrashReconciler(w)
      BY <1>t, <1>w, <3>4 DEF TypeOK, EndPass, CrashReconciler, Resting
    <3> QED BY <1>3, <3>1, <3>2, <3>3, <3>4, <3>5 DEF ReconcilerStep
  <2>2. status'[e] = status[e] /\ reference'[e] = reference[e]
    <3>1. CASE PromoteStaleClaims(w)
      BY <1>w, <3>1 DEF PromoteStaleClaims, StaleClaim
    <3>2. CASE WriteReconciled(w)
      <4>1. recon[w].email # e /\ recon[w].email \in Email
        BY NoneAssumption, <1>w, <3>2 DEF WriteReconciled, IInv, Consistent, ReconInv, PayoutsOf, TypeOK
      <4> QED BY <1>t, <3>2, <4>1 DEF TypeOK, WriteReconciled
    <3>3. CASE UNCHANGED <<status, reference>>
      BY <3>3
    <3> QED BY <1>3, <3>1, <3>2, <3>3
            DEF ReconcilerStep, Scan, Poll, PollNothing, EndPass, CrashReconciler, row
  <2> QED BY <2>0, <2>1, <2>2
<1> QED BY <1>1, <1>2, <1>3 DEF Next, vars, row, Reextract, AgeClaim, ProviderMove, Accept, Refuse,
                                Land, Bounce, ProviderStep

\* payment-reconcile.ts, "it simply waits in unknown_outcome for a human": for
\* any number of callers, crashes and overlapping reconcilers.
THEOREM DoubtIsLeftToOwner == Spec => DoubtWaits
<1>1. IInv /\ [Next]_vars =>
        [\A e \in Email : LeftToOwner(e) => LeftToOwner(e)' \/ status'[e] = "paid"]_vars
  BY DoubtStands
<1> QED BY <1>1, Invariance, PTL DEF Spec, DoubtWaits

=============================================================================
