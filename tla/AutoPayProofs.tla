---------------------------- MODULE AutoPayProofs ----------------------------
(***************************************************************************)
(* What is paid without the owner, for any number of invoices, callers and *)
(* checks, any caps and any budget.                                        *)
(***************************************************************************)
EXTENDS AutoPay, FiniteSetTheorems, TLAPS

---------------------------------------------------------------------------
(* The inductive invariant *)

\* Who is paying an intent has claimed it.
PayInv == \A a \in Caller : At(a, "pay") => intent[Hand(a)] = "claimed"

\* A call that will pay the invoice in hand unless something stops it.
Due(a) ==
  /\ Without(a)
  /\ \/ call[a].place \in {"evidence", "buy", "gate", "claim"}
     \/ At(a, "decide") /\ call[a].why = {}

\* Nothing was wrong with it and the payee was on, or has moved since; at the
\* claim the same goes for the mode.
DueInv ==
  \A a \in Caller : Due(a) =>
    /\ evidence[Hand(a)] = "clean"
    /\ payeeOn \/ call[a].payeeMoved
    /\ At(a, "claim") => autoPayMode \/ call[a].modeMoved

\* What a call knows of its invoice is still so, while calls come one at a time.
InTurn(a) ==
  /\ At(a, "decide") =>
       /\ evidence[Hand(a)] # "clean" => evidence[Hand(a)] \in call[a].why
       /\ call[a].job \notin {"ingest", "retry"} /\ call[a].why = {}
            => checked[Hand(a)] # "unverified"
  /\ At(a, "buy") =>
       /\ Hand(a) \in judged /\ evidence[Hand(a)] # "clean" => evidence[Hand(a)] \in call[a].why
       /\ Hand(a) \notin untracked => spentOn[Hand(a)] + call[a].left <= Budget
  /\ At(a, "gate") => call[a].outcome = checked[Hand(a)]
  /\ At(a, "claim") /\ Without(a) => checked[Hand(a)] = "verified"
  /\ Due(a) /\ ~doubted => PaidCount < MaxPayments

\* Only a call that is buying has something left to spend.
LeftInv == \A a \in Caller : ~At(a, "buy") => call[a].left = 0

Buying(e) == \E a \in Caller : At(a, "buy") /\ Hand(a) = e

\* The rows: what Level 1 has found is named, a failed check is no payment,
\* and without evidence, or a call that buys it, nothing was spent.
RowsInv ==
  \A e \in Invoice :
    /\ e \in judged /\ evidence[e] # "clean" => evidence[e] \in reasons[e]
    /\ checked[e] = "unverified" => decision[e] # "auto_pay"
    /\ e \notin untracked => spentOn[e] <= Budget
    /\ e \notin untracked /\ checked[e] = "none" /\ ~Buying(e) => spentOn[e] = 0
    /\ ~doubted => intent[e] # "unknown_outcome"

Alone == \A a, b \in Caller : ~At(a, "idle") /\ ~At(b, "idle") => a = b

TurnInv == ~crossed => Alone /\ RowsInv /\ \A a \in Caller : InTurn(a)

AutoPayInv == AutoPayTypeOK /\ PayInv /\ LeftInv /\ DueInv /\ TurnInv

---------------------------------------------------------------------------
(* Calls *)

LEMMA NoCallType ==
  /\ NoCall \in Call
  /\ NoCall.job = "none" /\ NoCall.place = "idle" /\ NoCall.queue = {} /\ NoCall.left = 0
  /\ NoCall.on \in Invoice
<1>1. (CHOOSE e \in Invoice : TRUE) \in Invoice
  BY AutoPayAssumption
<1>2. 0 \in 0..Checks /\ 0 \in 0..Budget
  BY AutoPayAssumption
<1> QED BY <1>1, <1>2 DEF NoCall, Call, Job, Place

LEMMA NextInvoiceType ==
  ASSUME NEW queue \in SUBSET Invoice
  PROVE  /\ NextInvoice(queue) \in Call
         /\ NextInvoice(queue).place \in {"idle", "next"}
         /\ NextInvoice(queue).left = 0
<1>1. [NoCall EXCEPT !.job = "resume", !.place = "next", !.queue = queue] \in Call
  BY NoCallType DEF Call, Job, Place
<1>2. [NoCall EXCEPT !.job = "resume", !.place = "next", !.queue = queue].place = "next"
  BY NoCallType DEF Call
<1>3. [NoCall EXCEPT !.job = "resume", !.place = "next", !.queue = queue].left = 0
  BY NoCallType DEF Call
<1> QED BY <1>1, <1>2, <1>3, NoCallType DEF NextInvoice

LEMMA PaidCountType == PaidCount \in Nat
<1>1. IsFiniteSet({e \in Invoice : intent[e] = "paid"})
  BY AutoPayAssumption, FS_Subset
<1> QED BY <1>1, FS_CardinalityType DEF PaidCount

\* What stands against paying: nothing only for a clean invoice, in a mode and
\* for a payee that are on, below the cap, without a failed check.
LEMMA BlockingType ==
  ASSUME AutoPayTypeOK, NEW e \in Invoice, NEW check
  PROVE  /\ Blocking(e, check) \in SUBSET Cause
         /\ evidence[e] # "clean" => evidence[e] \in Blocking(e, check)
         /\ Blocking(e, check) = {} =>
              /\ evidence[e] = "clean" /\ autoPayMode /\ payeeOn /\ PaidCount < MaxPayments
              /\ check # "unverified"
<1>1. evidence[e] \in {"clean", "doubtful", "duplicate", "suspect"}
  BY AutoPayAssumption DEF AutoPayTypeOK
<1>2. CASE evidence[e] \in {"suspect", "duplicate"}
  BY <1>2 DEF Blocking, Cause
<1>3. CASE evidence[e] \in {"clean", "doubtful"}
  <2> DEFINE causes == {r \in Cause : \/ r = "doubtful" /\ evidence[e] = "doubtful"
                                      \/ r = "pause" /\ ~autoPayMode
                                      \/ r = "payee" /\ (~payeeOn \/ CapReached(PaidCount))
                                      \/ r = "unverified" /\ Unverified(check)}
  <2>1. Blocking(e, check) = causes
    BY <1>3 DEF Blocking
  <2>2. causes \in SUBSET Cause /\ (evidence[e] = "doubtful" => "doubtful" \in causes)
    BY DEF Cause
  <2>3. ASSUME causes = {}
        PROVE  evidence[e] # "doubtful" /\ autoPayMode /\ payeeOn /\ ~CapReached(PaidCount)
               /\ check # "unverified"
    BY <2>3 DEF Cause, Unverified
  <2>4. ~CapReached(PaidCount) => PaidCount < MaxPayments
    BY PaidCountType, AutoPayAssumption DEF CapReached
  <2> HIDE DEF causes
  <2> QED BY <1>3, <2>1, <2>2, <2>3, <2>4
<1> QED BY <1>1, <1>2, <1>3

LEMMA AutoPayInitially == AutoPayInit => AutoPayInv
<1> SUFFICES ASSUME AutoPayInit PROVE AutoPayInv
  OBVIOUS
<1>1. /\ evidence \in Evidence /\ autoPayMode \in BOOLEAN /\ payeeOn = TRUE
      /\ checked = [e \in Invoice |-> "none"] /\ intent = [e \in Invoice |-> "absent"]
      /\ judged \in SUBSET Invoice
      /\ call = [a \in Caller |-> NoCall] /\ spentOn = [e \in Invoice |-> 0]
      /\ calls = 0 /\ changes = 0 /\ crossed = FALSE /\ doubted = FALSE /\ untracked = {}
  BY DEF AutoPayInit
<1>2. \A e \in Invoice : /\ evidence[e] \in {"clean", "doubtful", "duplicate", "suspect"}
                         /\ Blocking(e, "none") \in SUBSET Cause
                         /\ evidence[e] # "clean" => evidence[e] \in Blocking(e, "none")
  BY <1>1, AutoPayAssumption DEF Blocking, Cause
<1>3. /\ reasons \in [Invoice -> SUBSET Cause]
      /\ \A e \in judged : evidence[e] # "clean" => evidence[e] \in reasons[e]
  <2>1. reasons = [e \in Invoice |-> IF e \in judged THEN Blocking(e, "none") ELSE {}]
    BY DEF AutoPayInit
  <2> QED BY <1>1, <1>2, <2>1
<1>4. decision \in [Invoice -> {"null", "auto_pay", "needs_approval", "quarantine", "ignore"}]
  BY DEF AutoPayInit, DecisionFor
<1>5. \A a \in Caller : call[a].place = "idle"
  BY <1>1, NoCallType
<1>6. AutoPayTypeOK
  <2>1. 0 \in 0..Budget + 1 /\ 0 \in 0..MaxCalls /\ 0 \in 0..MaxChanges
    BY AutoPayAssumption
  <2>2. /\ spentOn \in [Invoice -> 0..Budget + 1] /\ call \in [Caller -> Call]
        /\ calls \in 0..MaxCalls /\ changes \in 0..MaxChanges
    BY <1>1, <2>1, NoCallType
  <2>3. /\ checked \in [Invoice -> {"none", "verified", "unverified"}]
        /\ intent \in [Invoice -> {"absent", "pending", "claimed", "paid", "failed",
                                   "unknown_outcome"}]
        /\ \A e \in Invoice : intent[e] # "claimed"
    BY <1>1
  <2> QED BY <1>1, <1>3, <1>4, <1>5, <2>2, <2>3 DEF AutoPayTypeOK, At
<1>7. PayInv /\ LeftInv /\ DueInv /\ Alone /\ \A a \in Caller : InTurn(a)
  BY <1>1, <1>5, NoCallType DEF PayInv, LeftInv, DueInv, Due, Alone, InTurn, At
<1>8. RowsInv
  BY <1>1, <1>3, AutoPayAssumption DEF RowsInv
<1> QED BY <1>6, <1>7, <1>8 DEF AutoPayInv, TurnInv


---------------------------------------------------------------------------
(* Calls begin, and switches move *)

\* A call that begins has decided nothing.  While another is under way, or was,
\* calls no longer come one at a time.
LEMMA StartKeepsInv ==
  ASSUME AutoPayInv,
         NEW a \in Caller, NEW job \in {"open", "confirm", "ingest", "retry", "reevaluate", "resume"},
         NEW place \in {"row", "next", "evidence"}, NEW e \in Invoice, NEW queue \in SUBSET Invoice,
         place = "evidence" => job \in {"open", "confirm"},
         Start(a, job, place, e, queue),
         \/ UNCHANGED <<invoiceVars, untracked>>
         \/ /\ judged' = judged \ {e}
            /\ decision' = [decision EXCEPT ![e] = "null"]
            /\ reasons' = [reasons EXCEPT ![e] = {}]
            /\ checked' = [checked EXCEPT ![e] = "none"]
            /\ untracked' = Lost(e)
  PROVE  AutoPayInv'
<1> USE DEF AutoPayInv
<1> DEFINE new == [NoCall EXCEPT !.job = job, !.place = place, !.on = e, !.queue = queue]
<1>1. /\ UNCHANGED <<evidence, autoPayMode, payeeOn, intent, spentOn, changes, doubted>>
      /\ call' = [call EXCEPT ![a] = new] /\ At(a, "idle")
      /\ calls' = calls + 1 /\ calls < MaxCalls
      /\ crossed' = ~AllIdle(Caller) /\ ~crossed
  BY DEF Start, switchVars
<1>2. new \in Call /\ new.job = job /\ new.place = place /\ new.on = e /\ new.left = 0
  BY NoCallType DEF Call, Job, Place
<1> HIDE DEF new
<1>3. /\ call' \in [Caller -> Call]
      /\ \A b \in Caller : call'[b] = IF b = a THEN new ELSE call[b]
  BY <1>1, <1>2 DEF AutoPayTypeOK
<1>4. /\ judged' \subseteq judged /\ untracked \subseteq untracked' /\ untracked' \subseteq Invoice
      /\ decision' \in [Invoice -> {"null", "auto_pay", "needs_approval", "quarantine", "ignore"}]
      /\ reasons' \in [Invoice -> SUBSET Cause]
      /\ checked' \in [Invoice -> {"none", "verified", "unverified"}]
  BY DEF AutoPayTypeOK, invoiceVars, Lost, Untracked
<1>5. AutoPayTypeOK'
  <2>1. calls' \in 0..MaxCalls /\ crossed' \in BOOLEAN
    BY <1>1, AutoPayAssumption DEF AutoPayTypeOK, AllIdle
  <2>2. \A b \in Caller : At(b, "pay")' <=> b # a /\ At(b, "pay")
    BY <1>1, <1>2, <1>3 DEF At
  <2>3. \A b \in Caller : At(b, "pay") => b # a /\ Hand(b)' = Hand(b)
    BY <1>1, <1>3 DEF At, Hand
  <2>4. /\ \A i \in Invoice : intent[i] = "claimed" => \E b \in Caller : At(b, "pay")' /\ Hand(b)' = i
        /\ \A b, c \in Caller : At(b, "pay")' /\ At(c, "pay")' /\ Hand(b)' = Hand(c)' => b = c
    BY <2>2, <2>3 DEF AutoPayTypeOK
  <2> QED BY <1>1, <1>3, <1>4, <2>1, <2>4 DEF AutoPayTypeOK
<1>6. PayInv' /\ LeftInv' /\ DueInv'
  BY <1>1, <1>2, <1>3 DEF PayInv, LeftInv, DueInv, Due, Without, At, Hand
<1>7. ASSUME ~crossed' PROVE Alone' /\ RowsInv' /\ \A b \in Caller : InTurn(b)'
  <2>1. \A b \in Caller : At(b, "idle")
    BY <1>1, <1>7 DEF AllIdle
  <2>2. Alone' /\ \A b \in Caller : InTurn(b)'
    BY <1>2, <1>3, <2>1 DEF Alone, InTurn, Due, Without, At
  <2>3. RowsInv /\ \A i \in Invoice : ~Buying(i)
    BY <1>1, <2>1 DEF TurnInv, Buying, At
  <2>4. ASSUME NEW i \in Invoice
        PROVE  /\ i \in judged' /\ evidence[i] # "clean" => evidence[i] \in reasons'[i]
               /\ checked'[i] = "unverified" => decision'[i] # "auto_pay"
               /\ i \notin untracked' => spentOn[i] <= Budget
               /\ i \notin untracked' /\ checked'[i] = "none" => spentOn[i] = 0
               /\ ~doubted => intent[i] # "unknown_outcome"
    <3>1. CASE UNCHANGED <<invoiceVars, untracked>>
      BY <2>3, <3>1 DEF RowsInv, invoiceVars
    <3>2. CASE /\ judged' = judged \ {e}
               /\ decision' = [decision EXCEPT ![e] = "null"]
               /\ reasons' = [reasons EXCEPT ![e] = {}]
               /\ checked' = [checked EXCEPT ![e] = "none"]
               /\ untracked' = Lost(e)
      <4>1. CASE i = e
        <5>1. i \notin untracked' => spentOn[i] = 0
          BY <1>1, <3>2, <4>1, AutoPayAssumption DEF Lost, Untracked, AutoPayTypeOK
        <5>2. i \notin judged' /\ checked'[i] = "none"
          BY <3>2, <4>1 DEF AutoPayTypeOK
        <5> QED BY <2>3, <5>1, <5>2, AutoPayAssumption DEF RowsInv
      <4>2. CASE i # e
        <5>1. /\ i \in judged' => i \in judged
              /\ reasons'[i] = reasons[i] /\ checked'[i] = checked[i] /\ decision'[i] = decision[i]
              /\ i \in untracked' <=> i \in untracked
          BY <3>2, <4>2 DEF AutoPayTypeOK, Lost, Untracked
        <5> QED BY <2>3, <5>1 DEF RowsInv
      <4> QED BY <4>1, <4>2
    <3> QED BY <3>1, <3>2
  <2>5. RowsInv'
    BY <1>1, <2>4 DEF RowsInv
  <2> QED BY <2>2, <2>5
<1> QED BY <1>5, <1>6, <1>7 DEF TurnInv

LEMMA StartCallKeepsInv ==
  ASSUME AutoPayInv, NEW a \in Caller, StartCall(a)
  PROVE  AutoPayInv'
<1>1. CASE Resume(a)
  <2>1. NoCall.on \in Invoice /\ Candidates \in SUBSET Invoice
    BY NoCallType DEF Candidates
  <2>2. PICK queue \in SUBSET Invoice : queue = Candidates
    BY <2>1
  <2> QED BY <1>1, <2>1, <2>2, StartKeepsInv DEF Resume
<1>2. CASE \E e \in Invoice : Open(a, e) \/ Ingest(a, e) \/ Retry(a, e) \/ Reevaluate(a, e)
  <2>1. PICK e \in Invoice : Open(a, e) \/ Ingest(a, e) \/ Retry(a, e) \/ Reevaluate(a, e)
    BY <1>2
  <2>2. {} \in SUBSET Invoice
    OBVIOUS
  <2>3. CASE Open(a, e)
    BY <2>2, <2>3, StartKeepsInv DEF Open
  <2>4. CASE Ingest(a, e)
    BY <2>2, <2>4, StartKeepsInv DEF Ingest
  <2>5. CASE Retry(a, e)
    BY <2>2, <2>5, StartKeepsInv DEF Retry
  <2>6. CASE Reevaluate(a, e)
    BY <2>2, <2>6, StartKeepsInv DEF Reevaluate
  <2> QED BY <2>1, <2>3, <2>4, <2>5, <2>6
<1> QED BY <1>1, <1>2 DEF StartCall

\* A switch moves: a call that it comes too late for remembers.
LEMMA SwitchKeepsInv ==
  ASSUME AutoPayInv, PayeeChanges \/ ModeChanges
  PROVE  AutoPayInv'
<1> USE DEF AutoPayInv
<1>1. /\ UNCHANGED <<evidence, judged, decision, reasons, checked, intent, spentOn, calls,
                     crossed, doubted, untracked>>
      /\ changes' = changes + 1 /\ changes < MaxChanges
  BY DEF PayeeChanges, ModeChanges, invoiceVars
<1>2. autoPayMode' \in BOOLEAN /\ payeeOn' \in BOOLEAN
  BY DEF PayeeChanges, ModeChanges, AutoPayTypeOK
<1>3. /\ call' \in [Caller -> Call]
      /\ \A a \in Caller :
           /\ call'[a].job = call[a].job /\ call'[a].place = call[a].place
           /\ call'[a].on = call[a].on /\ call'[a].why = call[a].why
           /\ call'[a].outcome = call[a].outcome /\ call'[a].left = call[a].left
           /\ call[a].payeeMoved => call'[a].payeeMoved
           /\ call[a].modeMoved => call'[a].modeMoved
  <2>1. CASE PayeeChanges
    <3>1. call' = [a \in Caller |-> [call[a] EXCEPT !.payeeMoved = @ \/ PastPayee(a)]]
      BY <2>1 DEF PayeeChanges
    <3> SUFFICES ASSUME NEW a \in Caller
                 PROVE  /\ call'[a] \in Call
                        /\ call'[a].job = call[a].job /\ call'[a].place = call[a].place
                        /\ call'[a].on = call[a].on /\ call'[a].why = call[a].why
                        /\ call'[a].outcome = call[a].outcome /\ call'[a].left = call[a].left
                        /\ call[a].payeeMoved => call'[a].payeeMoved
                        /\ call[a].modeMoved => call'[a].modeMoved
      BY <3>1
    <3>2. call[a] \in Call
      BY DEF AutoPayTypeOK
    <3> QED BY <3>1, <3>2 DEF Call
  <2>2. CASE ModeChanges
    <3>1. call' = [a \in Caller |-> [call[a] EXCEPT !.modeMoved = @ \/ (Without(a) /\ At(a, "claim"))]]
      BY <2>2 DEF ModeChanges
    <3> SUFFICES ASSUME NEW a \in Caller
                 PROVE  /\ call'[a] \in Call
                        /\ call'[a].job = call[a].job /\ call'[a].place = call[a].place
                        /\ call'[a].on = call[a].on /\ call'[a].why = call[a].why
                        /\ call'[a].outcome = call[a].outcome /\ call'[a].left = call[a].left
                        /\ call[a].payeeMoved => call'[a].payeeMoved
                        /\ call[a].modeMoved => call'[a].modeMoved
      BY <3>1
    <3>2. call[a] \in Call
      BY DEF AutoPayTypeOK
    <3> QED BY <3>1, <3>2 DEF Call
  <2> QED BY <2>1, <2>2
<1>4. \A a \in Caller : Due(a) => /\ payeeOn' = payeeOn \/ call'[a].payeeMoved
                                  /\ At(a, "claim") => autoPayMode' = autoPayMode \/ call'[a].modeMoved
  <2> SUFFICES ASSUME NEW a \in Caller, Due(a)
               PROVE  /\ payeeOn' = payeeOn \/ call'[a].payeeMoved
                      /\ At(a, "claim") => autoPayMode' = autoPayMode \/ call'[a].modeMoved
    OBVIOUS
  <2>1. call[a] \in Call /\ PastPayee(a) /\ Without(a)
    BY DEF AutoPayTypeOK, Due, PastPayee, At
  <2>2. CASE PayeeChanges
    BY <2>1, <2>2 DEF PayeeChanges, Call
  <2>3. CASE ModeChanges
    BY <2>1, <2>3 DEF ModeChanges, Call
  <2> QED BY <2>2, <2>3
<1>5. AutoPayTypeOK'
  <2>1. changes' \in 0..MaxChanges
    BY <1>1, AutoPayAssumption DEF AutoPayTypeOK
  <2> QED BY <1>1, <1>2, <1>3, <2>1 DEF AutoPayTypeOK, At, Hand
<1>6. \A a \in Caller : Due(a)' <=> Due(a)
  BY <1>3 DEF Due, Without, At
<1>7. PayInv' /\ LeftInv'
  BY <1>1, <1>3 DEF PayInv, LeftInv, At, Hand
<1>8. DueInv'
  BY <1>1, <1>2, <1>3, <1>4, <1>6 DEF DueInv, At, Hand
<1>9. TurnInv'
  <2>1. PaidCount' = PaidCount
    BY <1>1 DEF PaidCount
  <2>2. \A e \in Invoice : Buying(e)' <=> Buying(e)
    BY <1>3 DEF Buying, At, Hand
  <2>3. RowsInv => RowsInv'
    BY <1>1, <2>2 DEF RowsInv
  <2>4. \A a \in Caller : InTurn(a) => InTurn(a)'
    BY <1>1, <1>3, <1>6, <2>1 DEF InTurn, Without, At, Hand
  <2> QED BY <1>1, <1>3, <2>3, <2>4 DEF TurnInv, Alone, At
<1> QED BY <1>5, <1>7, <1>8, <1>9

LEMMA SettleKeepsInv ==
  ASSUME AutoPayInv, NEW e \in Invoice, Settle(e)
  PROVE  AutoPayInv'
<1> USE DEF AutoPayInv
<1>1. UNCHANGED <<evidence, autoPayMode, payeeOn, judged, decision, reasons, checked, call,
                  spentOn, calls, changes, crossed, doubted, untracked>>
  BY DEF Settle, switchVars, invoiceVars, tallyVars
<1>2. /\ intent[e] = "unknown_outcome"
      /\ intent' \in [Invoice -> {"absent", "pending", "claimed", "paid", "failed", "unknown_outcome"}]
      /\ intent'[e] \in {"paid", "failed"}
      /\ \A i \in Invoice : i # e => intent'[i] = intent[i]
  BY DEF Settle, AutoPayTypeOK
<1>3. AutoPayTypeOK'
  BY <1>1, <1>2 DEF AutoPayTypeOK, At, Hand
<1>4. PayInv'
  <2> SUFFICES ASSUME NEW a \in Caller, At(a, "pay") PROVE intent'[Hand(a)] = "claimed"
    BY <1>1 DEF PayInv, At, Hand
  <2>1. intent[Hand(a)] = "claimed" /\ Hand(a) \in Invoice
    BY DEF PayInv, AutoPayTypeOK, Call, Hand
  <2> QED BY <1>2, <2>1
<1>5. DueInv' /\ LeftInv'
  BY <1>1 DEF DueInv, LeftInv, Due, Without, At, Hand
<1>6. TurnInv'
  <2>1. ~crossed => doubted
    BY <1>2 DEF TurnInv, RowsInv, AutoPayTypeOK
  <2> QED BY <1>1, <2>1 DEF TurnInv, Alone, RowsInv, Buying, InTurn, Due, Without, At, Hand
<1> QED BY <1>3, <1>4, <1>5, <1>6

---------------------------------------------------------------------------
(* Steps of a call *)

\* While calls come one at a time, only the one that steps matters.
LEMMA OneAtATime ==
  ASSUME AutoPayInv, ~crossed, NEW a \in Caller, NEW new \in Call,
         ~At(a, "idle"), call' = [call EXCEPT ![a] = new]
  PROVE  /\ Alone' /\ RowsInv /\ InTurn(a)
         /\ \A b \in Caller : b # a => InTurn(b)'
         /\ \A e \in Invoice : /\ Buying(e) <=> At(a, "buy") /\ Hand(a) = e
                               /\ Buying(e)' <=> new.place = "buy" /\ new.on = e
<1>1. \A b \in Caller : call'[b] = IF b = a THEN new ELSE call[b]
  BY DEF AutoPayInv, AutoPayTypeOK
<1>2. Alone /\ RowsInv /\ InTurn(a)
  BY DEF AutoPayInv, TurnInv
<1>3. \A b \in Caller : b # a => call[b].place = "idle" /\ call'[b].place = "idle"
  BY <1>1, <1>2 DEF Alone, At
<1>4. Alone'
  BY <1>3 DEF Alone, At
<1>5. \A b \in Caller : b # a => InTurn(b)'
  BY <1>3 DEF InTurn, Due, At
<1>6. \A e \in Invoice : /\ Buying(e) <=> At(a, "buy") /\ Hand(a) = e
                         /\ Buying(e)' <=> new.place = "buy" /\ new.on = e
  BY <1>1, <1>3 DEF Buying, At, Hand
<1> QED BY <1>2, <1>4, <1>5, <1>6

\* A step that has nothing to do with a payment.
LEMMA NoPaymentKeepsInv ==
  ASSUME AutoPayInv, NEW a \in Caller, NEW new \in Call,
         ~At(a, "idle"), ~At(a, "pay"), new.place # "pay", new.place # "buy" => new.left = 0,
         call' = [call EXCEPT ![a] = new],
         UNCHANGED <<switchVars, intent, calls, changes, crossed, doubted>>,
         judged' \subseteq Invoice,
         decision' \in [Invoice -> {"null", "auto_pay", "needs_approval", "quarantine", "ignore"}],
         reasons' \in [Invoice -> SUBSET Cause],
         checked' \in [Invoice -> {"none", "verified", "unverified"}],
         spentOn' \in [Invoice -> 0..Budget + 1],
         untracked' \subseteq Invoice,
         Due(a)' => /\ evidence[new.on] = "clean"
                    /\ payeeOn \/ new.payeeMoved
                    /\ new.place = "claim" => autoPayMode \/ new.modeMoved,
         ~crossed => RowsInv' /\ InTurn(a)'
  PROVE  AutoPayInv'
<1> USE DEF AutoPayInv
<1>1. /\ call' \in [Caller -> Call]
      /\ \A b \in Caller : call'[b] = IF b = a THEN new ELSE call[b]
  BY DEF AutoPayTypeOK
<1>2. UNCHANGED <<evidence, autoPayMode, payeeOn>>
  BY DEF switchVars
<1>3. \A b \in Caller : At(b, "pay")' <=> At(b, "pay")
  BY <1>1 DEF At
<1>4. \A b \in Caller : At(b, "pay") => Hand(b)' = Hand(b)
  BY <1>1 DEF At, Hand
<1>5. AutoPayTypeOK'
  BY <1>1, <1>2, <1>3, <1>4 DEF AutoPayTypeOK
<1>6. PayInv'
  BY <1>3, <1>4 DEF PayInv
<1>7. LeftInv'
  BY <1>1 DEF LeftInv, At
<1>8. DueInv'
  <2> SUFFICES ASSUME NEW b \in Caller, Due(b)'
               PROVE  /\ evidence[Hand(b)'] = "clean"
                      /\ payeeOn \/ call'[b].payeeMoved
                      /\ At(b, "claim")' => autoPayMode \/ call'[b].modeMoved
    BY <1>2 DEF DueInv, Hand
  <2>1. CASE b = a
    BY <1>1, <2>1 DEF At, Hand
  <2>2. CASE b # a
    BY <1>1, <2>2 DEF DueInv, Due, Without, At, Hand
  <2> QED BY <2>1, <2>2
<1>9. TurnInv'
  BY OneAtATime DEF TurnInv
<1> QED BY <1>5, <1>6, <1>7, <1>8, <1>9

\* What a call looks like from one row to the next.
LEMMA HandType ==
  ASSUME AutoPayTypeOK, NEW a \in Caller
  PROVE  call[a] \in Call /\ Hand(a) \in Invoice
  BY DEF AutoPayTypeOK, Call, Hand

\* A call that has no invoice in hand any more.
LEMMA GoneKeepsInv ==
  ASSUME AutoPayInv, NEW a \in Caller, NEW queue \in SUBSET Invoice,
         ~At(a, "idle"), ~At(a, "pay"), ~At(a, "buy"),
         call' = [call EXCEPT ![a] = NextInvoice(queue)],
         UNCHANGED <<switchVars, intent, calls, changes, crossed, doubted, invoiceVars,
                     spentOn, untracked>>
  PROVE  AutoPayInv'
<1>1. /\ NextInvoice(queue) \in Call /\ NextInvoice(queue).place \in {"idle", "next"}
      /\ NextInvoice(queue).left = 0
  BY NextInvoiceType
<1>2. PICK new \in Call : new = NextInvoice(queue)
  BY <1>1
<1>3. ~Due(a)' /\ ~At(a, "buy")' /\ ~At(a, "gate")' /\ ~At(a, "claim")' /\ ~At(a, "decide")'
  BY <1>1, <1>2 DEF Due, At, AutoPayInv, AutoPayTypeOK
<1>4. ASSUME ~crossed PROVE RowsInv' /\ InTurn(a)'
  <2>1. InTurn(a)'
    BY <1>3 DEF InTurn
  <2>2. RowsInv /\ \A e \in Invoice : Buying(e) <=> Buying(e)'
    BY <1>1, <1>2, <1>4, OneAtATime
  <2> QED BY <2>1, <2>2 DEF RowsInv, switchVars, invoiceVars
<1> QED BY <1>1, <1>2, <1>3, <1>4, NoPaymentKeepsInv DEF AutoPayInv, AutoPayTypeOK, invoiceVars

LEMMA ReadInvoiceKeepsInv ==
  ASSUME AutoPayInv, NEW a \in Caller, ReadInvoice(a)
  PROVE  AutoPayInv'
<1> USE DEF AutoPayInv
<1>1. /\ At(a, "next") \/ At(a, "row")
      /\ UNCHANGED <<switchVars, invoiceVars, intent, spentOn, tallyVars>>
  BY DEF ReadInvoice
<1>2. call[a] \in Call /\ Hand(a) \in Invoice
  BY HandType
<1>3. PICK e \in IF At(a, "next") THEN call[a].queue ELSE {Hand(a)} :
        call' = [call EXCEPT ![a] = IF Decidable(a, e)
                                    THEN [call[a] EXCEPT !.on = e, !.queue = @ \ {e}, !.place = "decide",
                                                   !.why = FreshReasons(a, e)]
                                    ELSE NextInvoice(call[a].queue \ {e})]
  BY DEF ReadInvoice
<1>4. e \in Invoice
  BY <1>2, <1>3 DEF Call
<1>5. CASE ~Decidable(a, e)
  <2>1. PICK queue \in SUBSET Invoice : queue = call[a].queue \ {e}
    BY <1>2 DEF Call
  <2>2. call' = [call EXCEPT ![a] = NextInvoice(queue)]
    BY <1>3, <1>5, <2>1
  <2> QED BY <1>1, <2>2, GoneKeepsInv DEF At, tallyVars
<1>6. CASE Decidable(a, e)
  <2> DEFINE read == [call[a] EXCEPT !.on = e, !.queue = @ \ {e}, !.place = "decide",
                                     !.why = FreshReasons(a, e)]
  <2>1. PICK why \in SUBSET Cause :
          /\ why = FreshReasons(a, e)
          /\ evidence[e] # "clean" => evidence[e] \in why
          /\ why = {} => evidence[e] = "clean" /\ autoPayMode /\ payeeOn /\ PaidCount < MaxPayments
          /\ call[a].job \notin {"ingest", "retry"} /\ why = {} => checked[e] # "unverified"
    <3>1. CASE call[a].job \in {"ingest", "retry"}
      BY <1>4, <3>1, BlockingType DEF FreshReasons
    <3>2. CASE call[a].job \notin {"ingest", "retry"}
      BY <1>4, <3>2, BlockingType DEF FreshReasons
    <3> QED BY <3>1, <3>2
  <2>2. /\ read \in Call /\ read.job = call[a].job /\ read.place = "decide" /\ read.on = e
        /\ read.why = why /\ read.left = call[a].left /\ read.payeeMoved = call[a].payeeMoved
    BY <1>2, <1>4, <2>1 DEF Call, Place
  <2>10. call' = [call EXCEPT ![a] = read]
    BY <1>3, <1>6
  <2> HIDE DEF read
  <2>3. PICK new \in Call : new = read
    BY <2>2
  <2>4. call' = [call EXCEPT ![a] = new]
    BY <2>3, <2>10
  <2>5. call'[a] = new
    BY <2>4 DEF AutoPayTypeOK
  <2>6. new.left = 0
    BY <1>1, <2>2, <2>3 DEF LeftInv, At
  <2>7. Due(a)' => evidence[e] = "clean" /\ payeeOn /\ PaidCount < MaxPayments
    BY <2>1, <2>2, <2>3, <2>5 DEF Due, At
  <2>8. ASSUME ~crossed PROVE RowsInv' /\ InTurn(a)'
    <3>1. RowsInv /\ \A i \in Invoice : Buying(i) <=> Buying(i)'
      BY <1>1, <2>2, <2>3, <2>4, <2>8, OneAtATime DEF At
    <3>2. RowsInv'
      BY <1>1, <3>1 DEF RowsInv, switchVars, invoiceVars, tallyVars
    <3>3. PaidCount' = PaidCount
      BY <1>1 DEF PaidCount
    <3>4. InTurn(a)'
      BY <1>1, <2>1, <2>2, <2>3, <2>5, <2>7, <3>3
         DEF InTurn, At, Hand, switchVars, invoiceVars, tallyVars
    <3> QED BY <3>2, <3>4
  <2>9. ~At(a, "idle") /\ ~At(a, "pay")
    BY <1>1 DEF At
  <2> QED
    BY <1>1, <2>2, <2>3, <2>4, <2>6, <2>7, <2>8, <2>9, NoPaymentKeepsInv
       DEF AutoPayTypeOK, invoiceVars, tallyVars
<1> QED BY <1>5, <1>6

LEMMA WriteDecisionKeepsInv ==
  ASSUME AutoPayInv, NEW a \in Caller, WriteDecision(a)
  PROVE  AutoPayInv'
<1> USE DEF AutoPayInv
<1> DEFINE level1 == call[a].job \in {"ingest", "retry"}
<1>1. PICK e \in Invoice, why \in SUBSET Cause, queue \in SUBSET Invoice :
        e = Hand(a) /\ why = call[a].why /\ queue = call[a].queue
  BY HandType DEF Call
<1>2. /\ At(a, "decide")
      /\ decision' = [decision EXCEPT ![e] = DecisionFor(why)]
      /\ reasons' = [reasons EXCEPT ![e] = why]
      /\ judged' = judged \union {e}
      /\ checked' = IF level1 THEN [checked EXCEPT ![e] = "none"] ELSE checked
      /\ untracked' = IF level1 THEN Lost(e) ELSE untracked
      /\ IF why = {} /\ Without(a) THEN Go(a, "evidence") ELSE FinishInvoice(a)
      /\ UNCHANGED <<switchVars, intent, spentOn, calls, changes, crossed, doubted>>
  BY <1>1 DEF WriteDecision
<1>3. PICK new \in Call :
        /\ call' = [call EXCEPT ![a] = new]
        /\ new.left = 0
        /\ \/ /\ why = {} /\ Without(a) /\ new.place = "evidence"
              /\ new.on = e /\ new.payeeMoved = call[a].payeeMoved
           \/ new.place \in {"idle", "next"}
  <2>1. call[a] \in Call
    BY HandType
  <2>2. CASE why = {} /\ Without(a)
    <3> DEFINE go == [call[a] EXCEPT !.place = "evidence"]
    <3>1. /\ go \in Call /\ go.place = "evidence" /\ go.on = e
          /\ go.payeeMoved = call[a].payeeMoved /\ go.left = call[a].left
      BY <1>1, <2>1 DEF Call, Place, Hand
    <3>2. call[a].left = 0
      BY <1>2 DEF LeftInv, At
    <3>3. call' = [call EXCEPT ![a] = go]
      BY <1>2, <2>2 DEF Go
    <3> HIDE DEF go
    <3> QED BY <2>2, <3>1, <3>2, <3>3
  <2>3. CASE ~(why = {} /\ Without(a))
    <3>1. call' = [call EXCEPT ![a] = NextInvoice(queue)]
      BY <1>1, <1>2, <2>3 DEF FinishInvoice
    <3> QED BY <3>1, NextInvoiceType
  <2> QED BY <2>2, <2>3
<1>4. call'[a] = new
  BY <1>3 DEF AutoPayTypeOK
<1>5. DecisionFor(why) \in {"auto_pay", "needs_approval", "quarantine", "ignore"}
      /\ (DecisionFor(why) = "auto_pay" => why = {})
  BY DEF DecisionFor
<1>6. /\ judged' \subseteq Invoice
      /\ decision' \in [Invoice -> {"null", "auto_pay", "needs_approval", "quarantine", "ignore"}]
      /\ reasons' \in [Invoice -> SUBSET Cause]
      /\ checked' \in [Invoice -> {"none", "verified", "unverified"}]
      /\ spentOn' \in [Invoice -> 0..Budget + 1]
      /\ untracked \subseteq untracked' /\ untracked' \subseteq Invoice
  BY <1>2, <1>5 DEF AutoPayTypeOK, Lost, Untracked
<1>7. Due(a)' => Due(a) /\ new.place = "evidence" /\ new.on = e /\ new.payeeMoved = call[a].payeeMoved
  BY <1>1, <1>2, <1>3, <1>4 DEF Due, At
<1>8. Due(a)' => /\ evidence[new.on] = "clean"
                 /\ payeeOn \/ new.payeeMoved
                 /\ new.place = "claim" => autoPayMode \/ new.modeMoved
  BY <1>1, <1>7 DEF DueInv
<1>9. ASSUME ~crossed PROVE RowsInv' /\ InTurn(a)'
  <2>1. /\ RowsInv /\ InTurn(a)
        /\ \A i \in Invoice : ~Buying(i) /\ ~Buying(i)'
    BY <1>2, <1>3, <1>9, OneAtATime DEF At
  <2>2. PaidCount' = PaidCount
    BY <1>2 DEF PaidCount
  <2>3. InTurn(a)'
    BY <1>2, <1>3, <1>4, <1>7, <2>1, <2>2 DEF InTurn, At
  <2>4. ASSUME NEW i \in Invoice
        PROVE  /\ i \in judged' /\ evidence[i] # "clean" => evidence[i] \in reasons'[i]
               /\ checked'[i] = "unverified" => decision'[i] # "auto_pay"
               /\ i \notin untracked' => spentOn[i] <= Budget
               /\ i \notin untracked' /\ checked'[i] = "none" => spentOn[i] = 0
               /\ ~doubted => intent[i] # "unknown_outcome"
    <3>1. CASE i = e
      <4>1. decision'[i] = DecisionFor(why) /\ reasons'[i] = why
        BY <1>2, <3>1 DEF AutoPayTypeOK
      <4>2. CASE level1
        <5>1. checked'[i] = "none"
          BY <1>2, <3>1, <4>2 DEF AutoPayTypeOK
        <5>2. i \notin untracked' => ~(spentOn[i] > 0)
          BY <1>2, <1>9, <3>1, <4>2 DEF Lost, Untracked
        <5>3. i \notin untracked' => spentOn[i] = 0
          BY <5>2, AutoPayAssumption DEF AutoPayTypeOK
        <5> QED BY <1>1, <1>2, <1>6, <2>1, <3>1, <4>1, <5>1, <5>3 DEF RowsInv, InTurn
      <4>3. CASE ~level1
        <5>1. checked'[i] = checked[i] /\ untracked' = untracked
          BY <1>2, <4>3
        <5>2. checked'[i] = "unverified" => why # {}
          BY <1>1, <1>2, <2>1, <3>1, <4>3, <5>1 DEF InTurn
        <5> QED BY <1>1, <1>2, <1>5, <2>1, <3>1, <4>1, <5>1, <5>2 DEF RowsInv, InTurn
      <4> QED BY <4>2, <4>3
    <3>2. CASE i # e
      <4>1. /\ i \in judged' <=> i \in judged
            /\ reasons'[i] = reasons[i] /\ checked'[i] = checked[i] /\ decision'[i] = decision[i]
            /\ i \in untracked' <=> i \in untracked
        BY <1>2, <3>2 DEF AutoPayTypeOK, Lost, Untracked
      <4> QED BY <2>1, <4>1 DEF RowsInv
    <3> QED BY <3>1, <3>2
  <2>5. RowsInv'
    BY <1>2, <2>4 DEF RowsInv, switchVars
  <2> QED BY <2>3, <2>5
<1>10. ~At(a, "idle") /\ ~At(a, "pay") /\ new.place # "pay"
  BY <1>2, <1>3 DEF At
<1> QED BY <1>2, <1>3, <1>6, <1>8, <1>9, <1>10, NoPaymentKeepsInv

\* What goes on with the outcome of the checks: nobody, the owner's payment, or
\* the gate of auto-pay.
LEMMA OnwardType ==
  ASSUME AutoPayTypeOK, NEW a \in Caller, NEW outcome \in {"none", "verified", "unverified"}
  PROVE  /\ Onward(a, outcome) \in Call
         /\ Onward(a, outcome).left = 0
         /\ \/ Onward(a, outcome).place = "idle"
            \/ /\ Onward(a, outcome).place = "claim"
               /\ Onward(a, outcome).job = "confirm"
            \/ /\ Onward(a, outcome).place = "gate"
               /\ Onward(a, outcome).outcome = outcome
               /\ Onward(a, outcome).on = Hand(a)
               /\ Onward(a, outcome).job = call[a].job
               /\ Onward(a, outcome).payeeMoved = call[a].payeeMoved
<1>1. call[a] \in Call /\ 0 \in 0..Checks /\ 0 \in 0..Budget
  BY HandType, AutoPayAssumption
<1>2. CASE call[a].job = "open"
  BY <1>2, NoCallType DEF Onward
<1>3. CASE call[a].job = "confirm"
  BY <1>1, <1>3 DEF Onward, Call, Place
<1>4. CASE call[a].job \notin {"open", "confirm"}
  <2> DEFINE on == [call[a] EXCEPT !.place = "gate", !.why = {}, !.outcome = outcome,
                                   !.toBuy = 0, !.left = 0]
  <2>1. Onward(a, outcome) = on
    BY <1>4 DEF Onward
  <2>2. /\ on \in Call /\ on.left = 0 /\ on.place = "gate" /\ on.outcome = outcome
        /\ on.on = call[a].on /\ on.job = call[a].job /\ on.payeeMoved = call[a].payeeMoved
    BY <1>1 DEF Call, Place
  <2> HIDE DEF on
  <2> QED BY <2>1, <2>2 DEF Hand
<1> QED BY <1>2, <1>3, <1>4

LEMMA ReadEvidenceKeepsInv ==
  ASSUME AutoPayInv, NEW a \in Caller, ReadEvidence(a)
  PROVE  AutoPayInv'
<1> USE DEF AutoPayInv
<1>1. /\ At(a, "evidence")
      /\ UNCHANGED <<switchVars, invoiceVars, intent, spentOn, tallyVars>>
  BY DEF ReadEvidence
<1>2. PICK e \in Invoice, check \in {"none", "verified", "unverified"} :
        e = Hand(a) /\ check = checked[e]
  BY HandType DEF AutoPayTypeOK
<1>3. PICK new \in Call :
        /\ call' = [call EXCEPT ![a] = new]
        /\ \/ /\ new.left = 0
              /\ \/ new.place = "idle"
                 \/ new.place = "claim" /\ new.job = "confirm"
                 \/ /\ new.place = "gate" /\ new.outcome = check /\ new.on = e
                    /\ new.job = call[a].job /\ new.payeeMoved = call[a].payeeMoved
           \/ /\ check = "none" /\ new.place = "buy" /\ new.why = reasons[e]
              /\ new.left = Budget /\ new.on = e
              /\ new.job = call[a].job /\ new.payeeMoved = call[a].payeeMoved
  <2>1. CASE IsEvidence(check)
    <3>1. call' = [call EXCEPT ![a] = Onward(a, check)]
      BY <1>2, <2>1 DEF ReadEvidence
    <3> QED BY <1>2, <3>1, OnwardType
  <2>2. CASE ~IsEvidence(check)
    <3> DEFINE buy == [call[a] EXCEPT !.place = "buy", !.why = reasons[e],
                                      !.toBuy = Checks, !.left = Budget]
    <3>1. call' = [call EXCEPT ![a] = buy]
      BY <1>2, <2>2 DEF ReadEvidence
    <3>2. Checks \in 0..Checks /\ Budget \in 0..Budget /\ call[a] \in Call /\ reasons[e] \in SUBSET Cause
      BY HandType, AutoPayAssumption DEF AutoPayTypeOK
    <3>3. /\ buy \in Call /\ buy.place = "buy" /\ buy.why = reasons[e] /\ buy.left = Budget
          /\ buy.on = e /\ buy.job = call[a].job /\ buy.payeeMoved = call[a].payeeMoved
      BY <1>2, <3>2 DEF Call, Place, Hand
    <3> HIDE DEF buy
    <3> QED BY <2>2, <3>1, <3>3 DEF IsEvidence
  <2> QED BY <2>1, <2>2
<1>4. call'[a] = new
  BY <1>3 DEF AutoPayTypeOK
<1>5. Due(a)' => /\ Due(a) /\ new.place \in {"gate", "buy"} /\ new.on = e
                 /\ new.payeeMoved = call[a].payeeMoved
  BY <1>1, <1>3, <1>4 DEF Due, Without, At
<1>6. Due(a)' => /\ evidence[new.on] = "clean"
                 /\ payeeOn \/ new.payeeMoved
                 /\ new.place = "claim" => autoPayMode \/ new.modeMoved
  BY <1>2, <1>5 DEF DueInv
<1>7. ASSUME ~crossed PROVE RowsInv' /\ InTurn(a)'
  <2>1. /\ RowsInv /\ InTurn(a)
        /\ \A i \in Invoice : ~Buying(i) /\ (Buying(i)' => new.place = "buy" /\ new.on = i)
    BY <1>1, <1>3, <1>7, OneAtATime DEF At
  <2>2. PaidCount' = PaidCount
    BY <1>1 DEF PaidCount
  <2>3. RowsInv'
    BY <1>1, <2>1 DEF RowsInv, switchVars, invoiceVars, tallyVars
  <2>4. At(a, "buy")' /\ e \notin untracked => spentOn[e] + new.left <= Budget
    <3>1. At(a, "buy")' /\ e \notin untracked => spentOn[e] = 0 /\ new.left = Budget
      BY <1>2, <1>3, <1>4, <2>1 DEF RowsInv, At
    <3> QED BY <3>1, AutoPayAssumption
  <2>5. InTurn(a)'
    BY <1>1, <1>2, <1>3, <1>4, <1>5, <2>1, <2>2, <2>4
       DEF InTurn, RowsInv, Without, At, Hand, switchVars, invoiceVars, tallyVars
  <2> QED BY <2>3, <2>5
<1>8. ~At(a, "idle") /\ ~At(a, "pay") /\ new.place # "pay" /\ (new.place # "buy" => new.left = 0)
  BY <1>1, <1>3 DEF At
<1> QED
  BY <1>1, <1>3, <1>6, <1>7, <1>8, NoPaymentKeepsInv DEF AutoPayTypeOK, invoiceVars, tallyVars

\* The charge for a check.
LEMMA ChargeType ==
  ASSUME AutoPayTypeOK, NEW e \in Invoice, NEW cost \in 0..Budget, Charge(e, cost)
  PROVE  /\ spentOn' \in [Invoice -> 0..Budget + 1]
         /\ ~crossed /\ spentOn[e] + cost <= Budget => spentOn'[e] = spentOn[e] + cost
         /\ cost = 0 => spentOn'[e] = spentOn[e]
         /\ \A i \in Invoice : i # e => spentOn'[i] = spentOn[i]
<1>1. spentOn[e] \in 0..Budget + 1 /\ Budget \in Nat
  BY AutoPayAssumption DEF AutoPayTypeOK
<1>2. PICK sum \in 0..Budget + 1 :
        sum = IF spentOn[e] + cost > Budget THEN Budget + 1 ELSE spentOn[e] + cost
  BY <1>1
<1>3. spentOn' = IF crossed THEN spentOn ELSE [spentOn EXCEPT ![e] = sum]
  BY <1>2 DEF Charge
<1>4. /\ spentOn' \in [Invoice -> 0..Budget + 1]
      /\ spentOn'[e] = IF crossed THEN spentOn[e] ELSE sum
      /\ \A i \in Invoice : i # e => spentOn'[i] = spentOn[i]
  BY <1>3 DEF AutoPayTypeOK
<1>5. /\ spentOn[e] + cost <= Budget => sum = spentOn[e] + cost
      /\ cost = 0 => sum = spentOn[e]
  BY <1>1, <1>2
<1> QED BY <1>4, <1>5

\* The end of the checks, after a last charge or without one.
LEMMA EvidenceKeepsInv ==
  ASSUME AutoPayInv, NEW a \in Caller, NEW outcome \in {"verified", "unverified"},
         At(a, "buy"), WriteEvidence(a, outcome),
         UNCHANGED <<switchVars, intent, calls, changes, crossed, doubted, untracked>>,
         spentOn' \in [Invoice -> 0..Budget + 1],
         \A i \in Invoice : i # Hand(a) => spentOn'[i] = spentOn[i],
         ~crossed /\ Hand(a) \notin untracked => spentOn'[Hand(a)] <= Budget
  PROVE  AutoPayInv'
<1> USE DEF AutoPayInv
<1>1. PICK e \in Invoice, why \in SUBSET Cause : e = Hand(a) /\ why = call[a].why
  BY HandType DEF Call
<1>2. /\ checked' = [checked EXCEPT ![e] = outcome]
      /\ IF outcome = "unverified"
         THEN /\ decision' = [decision EXCEPT ![e] = "needs_approval"]
              /\ reasons' = [reasons EXCEPT ![e] = why \union {"unverified"}]
         ELSE UNCHANGED <<decision, reasons>>
      /\ call' = [call EXCEPT ![a] = Onward(a, outcome)]
      /\ UNCHANGED judged
  BY <1>1 DEF WriteEvidence, ReasonsAfterChecks
<1>3. PICK new \in Call :
        /\ call' = [call EXCEPT ![a] = new]
        /\ new.left = 0
        /\ \/ new.place = "idle"
           \/ new.place = "claim" /\ new.job = "confirm"
           \/ /\ new.place = "gate" /\ new.outcome = outcome /\ new.on = e
              /\ new.job = call[a].job /\ new.payeeMoved = call[a].payeeMoved
  BY <1>1, <1>2, OnwardType
<1>4. call'[a] = new
  BY <1>3 DEF AutoPayTypeOK
<1>5. Due(a)' => Due(a) /\ new.place = "gate" /\ new.on = e /\ new.payeeMoved = call[a].payeeMoved
  BY <1>3, <1>4 DEF Due, Without, At
<1>6. Due(a)' => /\ evidence[new.on] = "clean"
                 /\ payeeOn \/ new.payeeMoved
                 /\ new.place = "claim" => autoPayMode \/ new.modeMoved
  BY <1>1, <1>5 DEF DueInv
<1>7. /\ judged' \subseteq Invoice
      /\ decision' \in [Invoice -> {"null", "auto_pay", "needs_approval", "quarantine", "ignore"}]
      /\ reasons' \in [Invoice -> SUBSET Cause]
      /\ checked' \in [Invoice -> {"none", "verified", "unverified"}]
      /\ untracked' \subseteq Invoice
  <2>1. /\ judged' \subseteq Invoice /\ untracked' \subseteq Invoice
        /\ checked' \in [Invoice -> {"none", "verified", "unverified"}]
    BY <1>2 DEF AutoPayTypeOK
  <2>2. why \union {"unverified"} \in SUBSET Cause
    BY DEF Cause
  <2>3. CASE outcome = "unverified"
    BY <1>2, <2>1, <2>2, <2>3 DEF AutoPayTypeOK
  <2>4. CASE outcome # "unverified"
    BY <1>2, <2>1, <2>4 DEF AutoPayTypeOK
  <2> QED BY <2>3, <2>4
<1>8. ASSUME ~crossed PROVE RowsInv' /\ InTurn(a)'
  <2>1. /\ RowsInv /\ InTurn(a)
        /\ \A i \in Invoice : (Buying(i) => i = e) /\ ~Buying(i)'
    BY <1>1, <1>3, <1>8, OneAtATime DEF At
  <2>2. PaidCount' = PaidCount
    BY DEF PaidCount
  <2>3. InTurn(a)'
    BY <1>2, <1>3, <1>4, <1>5, <2>1, <2>2 DEF InTurn, Without, At, Hand, AutoPayTypeOK
  <2>4. ASSUME NEW i \in Invoice
        PROVE  /\ i \in judged' /\ evidence[i] # "clean" => evidence[i] \in reasons'[i]
               /\ checked'[i] = "unverified" => decision'[i] # "auto_pay"
               /\ i \notin untracked' => spentOn'[i] <= Budget
               /\ i \notin untracked' /\ checked'[i] = "none" => spentOn'[i] = 0
               /\ ~doubted => intent[i] # "unknown_outcome"
    <3>1. CASE i = e
      <4>1. checked'[i] = outcome
        BY <1>2, <3>1 DEF AutoPayTypeOK
      <4>2. i \in judged' /\ evidence[i] # "clean" => evidence[i] \in why /\ evidence[i] \in reasons[i]
        BY <1>1, <1>2, <2>1, <3>1 DEF InTurn, RowsInv
      <4>3. CASE outcome = "unverified"
        <5>1. decision'[i] = "needs_approval" /\ reasons'[i] = why \union {"unverified"}
          BY <1>2, <3>1, <4>3 DEF AutoPayTypeOK
        <5> QED BY <1>1, <1>8, <2>1, <3>1, <4>1, <4>2, <4>3, <5>1 DEF RowsInv
      <4>4. CASE outcome = "verified"
        BY <1>1, <1>2, <1>8, <2>1, <3>1, <4>1, <4>2, <4>4 DEF RowsInv
      <4> QED BY <4>3, <4>4
    <3>2. CASE i # e
      <4>1. reasons'[i] = reasons[i] /\ checked'[i] = checked[i] /\ decision'[i] = decision[i]
        BY <1>2, <3>2 DEF AutoPayTypeOK
      <4> QED BY <1>1, <1>2, <2>1, <3>2, <4>1 DEF RowsInv
    <3> QED BY <3>1, <3>2
  <2>5. RowsInv'
    BY <2>4 DEF RowsInv, switchVars
  <2> QED BY <2>3, <2>5
<1>9. ~At(a, "idle") /\ ~At(a, "pay") /\ new.place # "pay"
  BY <1>3 DEF At
<1> QED BY <1>3, <1>6, <1>7, <1>8, <1>9, NoPaymentKeepsInv

LEMMA EndChecksKeepsInv ==
  ASSUME AutoPayInv, NEW a \in Caller, EndChecks(a)
  PROVE  AutoPayInv'
<1> USE DEF AutoPayInv
<1>1. PICK outcome \in {"verified", "unverified"} :
        outcome = IF call[a].toBuy = 0 THEN "verified" ELSE "unverified"
  OBVIOUS
<1>2. /\ At(a, "buy") /\ WriteEvidence(a, outcome)
      /\ UNCHANGED <<switchVars, intent, spentOn, calls, changes, crossed, doubted, untracked>>
  BY <1>1 DEF EndChecks, tallyVars
<1>3. ~crossed /\ Hand(a) \notin untracked => spentOn[Hand(a)] <= Budget
  BY HandType DEF TurnInv, RowsInv
<1> QED BY <1>2, <1>3, EvidenceKeepsInv DEF AutoPayTypeOK

LEMMA BuyCheckKeepsInv ==
  ASSUME AutoPayInv, NEW a \in Caller, BuyCheck(a)
  PROVE  AutoPayInv'
<1> USE DEF AutoPayInv
<1>1. /\ At(a, "buy") /\ call[a].toBuy > 0 /\ call[a].left > 0
      /\ UNCHANGED <<switchVars, intent, calls, changes, crossed, doubted>>
  BY DEF BuyCheck
<1>2. call[a] \in Call /\ Hand(a) \in Invoice
  BY HandType
<1>3. PICK e \in Invoice, left \in 0..Budget, toBuy \in 0..Checks :
        e = Hand(a) /\ left = call[a].left /\ toBuy = call[a].toBuy
  BY <1>2 DEF Call
<1>4. PICK cost \in 0..left :
        /\ Charge(e, cost)
        /\ \/ /\ call' = [call EXCEPT ![a].toBuy = @ - 1, ![a].left = LeftAfter(@, cost)]
              /\ UNCHANGED <<invoiceVars, untracked>>
           \/ /\ cost > 0
              /\ call' = [call EXCEPT ![a].toBuy = @ - 1]
              /\ untracked' = Untracked(e)
              /\ UNCHANGED invoiceVars
           \/ WriteEvidence(a, "unverified") /\ UNCHANGED untracked
  BY <1>3 DEF BuyCheck
<1>5. cost \in 0..Budget /\ Budget \in Nat
  BY AutoPayAssumption
<1>6. /\ spentOn' \in [Invoice -> 0..Budget + 1]
      /\ ~crossed /\ spentOn[e] + cost <= Budget => spentOn'[e] = spentOn[e] + cost
      /\ \A i \in Invoice : i # e => spentOn'[i] = spentOn[i]
  BY <1>4, <1>5, ChargeType
<1>7. ~crossed /\ e \notin untracked => /\ spentOn'[e] = spentOn[e] + cost
                                        /\ spentOn'[e] + (left - cost) <= Budget
  <2> SUFFICES ASSUME ~crossed, e \notin untracked
               PROVE  spentOn'[e] = spentOn[e] + cost /\ spentOn'[e] + (left - cost) <= Budget
    OBVIOUS
  <2>1. spentOn[e] + left <= Budget
    BY <1>1, <1>3 DEF TurnInv, InTurn
  <2>2. spentOn[e] \in 0..Budget + 1
    BY DEF AutoPayTypeOK
  <2>3. spentOn[e] + cost <= Budget
    BY <1>4, <1>5, <2>1, <2>2
  <2> QED BY <1>4, <1>5, <1>6, <2>1, <2>2, <2>3
<1>8. CASE WriteEvidence(a, "unverified") /\ UNCHANGED untracked
  <2>1. ~crossed /\ e \notin untracked => spentOn'[e] <= Budget
    <3>1. spentOn'[e] \in 0..Budget + 1
      BY <1>6
    <3> QED BY <1>4, <1>5, <1>7, <3>1
  <2> QED BY <1>1, <1>3, <1>6, <1>8, <2>1, EvidenceKeepsInv
<1>9. ASSUME UNCHANGED invoiceVars,
             NEW rest \in 0..Budget,
             call' = [call EXCEPT ![a] = [call[a] EXCEPT !.toBuy = @ - 1, !.left = rest]],
             \/ rest = left - cost /\ UNCHANGED untracked
             \/ untracked' = Untracked(e)
      PROVE  AutoPayInv'
  <2> DEFINE more == [call[a] EXCEPT !.toBuy = @ - 1, !.left = rest]
  <2>1. toBuy - 1 \in 0..Checks
    BY <1>1, <1>3, AutoPayAssumption
  <2>2. /\ more \in Call /\ more.place = "buy" /\ more.job = call[a].job /\ more.on = e
        /\ more.why = call[a].why /\ more.left = rest /\ more.payeeMoved = call[a].payeeMoved
    BY <1>1, <1>2, <1>3, <2>1 DEF Call, At, Hand
  <2>3. call' = [call EXCEPT ![a] = more]
    BY <1>9
  <2> HIDE DEF more
  <2>4. PICK new \in Call : new = more
    BY <2>2
  <2>5. call' = [call EXCEPT ![a] = new] /\ call'[a] = new
    BY <2>3, <2>4 DEF AutoPayTypeOK
  <2>6. Due(a)' <=> Due(a)
    BY <1>1, <2>2, <2>4, <2>5 DEF Due, Without, At
  <2>7. Due(a)' => /\ evidence[new.on] = "clean"
                   /\ payeeOn \/ new.payeeMoved
                   /\ new.place = "claim" => autoPayMode \/ new.modeMoved
    BY <1>1, <1>3, <2>2, <2>4, <2>6 DEF DueInv
  <2>8. untracked \subseteq untracked' /\ untracked' \subseteq Invoice
    BY <1>9 DEF AutoPayTypeOK, Untracked
  <2>9. e \notin untracked' /\ ~crossed => spentOn'[e] + rest <= Budget
    BY <1>7, <1>9, <2>8 DEF Untracked
  <2>10. ASSUME ~crossed PROVE RowsInv' /\ InTurn(a)'
    <3>1. /\ RowsInv /\ InTurn(a)
          /\ \A i \in Invoice : Buying(i) <=> i = e
          /\ \A i \in Invoice : Buying(i)' <=> i = e
      <4>1. ~At(a, "idle") /\ new.place = "buy" /\ new.on = e
        BY <1>1, <2>2, <2>4 DEF At
      <4>2. /\ RowsInv /\ InTurn(a)
            /\ \A i \in Invoice : /\ Buying(i) <=> At(a, "buy") /\ Hand(a) = i
                                  /\ Buying(i)' <=> new.place = "buy" /\ new.on = i
        BY <2>5, <2>10, <4>1, OneAtATime
      <4> QED BY <1>1, <1>3, <4>1, <4>2
    <3>2. PaidCount' = PaidCount
      BY <1>1 DEF PaidCount
    <3>3. InTurn(a)'
      BY <1>1, <1>3, <1>9, <2>2, <2>4, <2>5, <2>6, <2>8, <2>9, <2>10, <3>1, <3>2
         DEF InTurn, At, Hand, switchVars, invoiceVars
    <3>4. e \notin untracked' => spentOn'[e] <= Budget
      <4>1. spentOn'[e] \in 0..Budget + 1
        BY <1>6
      <4> QED BY <1>5, <2>9, <2>10, <4>1
    <3>5. RowsInv'
      BY <1>1, <1>6, <1>9, <2>8, <3>1, <3>4 DEF RowsInv, Untracked, switchVars, invoiceVars
    <3> QED BY <3>3, <3>5
  <2>11. ~At(a, "idle") /\ ~At(a, "pay") /\ new.place = "buy"
    BY <1>1, <2>2, <2>4 DEF At
  <2> QED BY <1>1, <1>6, <1>9, <2>5, <2>7, <2>8, <2>10, <2>11, NoPaymentKeepsInv
             DEF AutoPayTypeOK, invoiceVars
<1>10. CASE /\ call' = [call EXCEPT ![a].toBuy = @ - 1, ![a].left = LeftAfter(@, cost)]
            /\ UNCHANGED <<invoiceVars, untracked>>
  <2>1. PICK rest \in 0..Budget : rest = left - cost
    BY <1>4, <1>5
  <2>2. call' = [call EXCEPT ![a] = [call[a] EXCEPT !.toBuy = @ - 1, !.left = rest]]
    BY <1>2, <1>3, <1>10, <2>1 DEF LeftAfter, AutoPayTypeOK, Call
  <2> QED BY <1>9, <1>10, <2>1, <2>2
<1>11. CASE /\ cost > 0
            /\ call' = [call EXCEPT ![a].toBuy = @ - 1]
            /\ untracked' = Untracked(e)
            /\ UNCHANGED invoiceVars
  <2>1. call' = [call EXCEPT ![a] = [call[a] EXCEPT !.toBuy = @ - 1, !.left = left]]
    BY <1>2, <1>3, <1>11 DEF AutoPayTypeOK, Call
  <2> QED BY <1>9, <1>11, <2>1
<1> QED BY <1>4, <1>8, <1>10, <1>11

LEMMA GateKeepsInv ==
  ASSUME AutoPayInv, NEW a \in Caller, Gate(a)
  PROVE  AutoPayInv'
<1> USE DEF AutoPayInv
<1>1. /\ At(a, "gate")
      /\ UNCHANGED <<switchVars, invoiceVars, intent, spentOn, tallyVars>>
  BY DEF Gate
<1>2. call[a] \in Call /\ Hand(a) \in Invoice
  BY HandType
<1>3. CASE CheckPassed(a) /\ autoPayMode
  <2> DEFINE go == [call[a] EXCEPT !.place = "claim", !.outcome = "none"]
  <2>1. call' = [call EXCEPT ![a] = go]
    BY <1>2, <1>3 DEF Gate, AutoPayTypeOK, Call
  <2>2. /\ go \in Call /\ go.place = "claim" /\ go.on = Hand(a) /\ go.job = call[a].job
        /\ go.payeeMoved = call[a].payeeMoved /\ go.left = call[a].left
    BY <1>2 DEF Call, Place, Hand
  <2> HIDE DEF go
  <2>3. PICK new \in Call : new = go
    BY <2>2
  <2>4. call' = [call EXCEPT ![a] = new] /\ call'[a] = new
    BY <2>1, <2>3 DEF AutoPayTypeOK
  <2>5. Due(a)' => Due(a)
    BY <1>1, <2>2, <2>3, <2>4 DEF Due, Without, At
  <2>6. Due(a)' => /\ evidence[new.on] = "clean"
                   /\ payeeOn \/ new.payeeMoved
                   /\ new.place = "claim" => autoPayMode \/ new.modeMoved
    BY <1>3, <2>2, <2>3, <2>5 DEF DueInv
  <2>7. new.left = 0
    BY <1>1, <2>2, <2>3 DEF LeftInv, At
  <2>8. ASSUME ~crossed PROVE RowsInv' /\ InTurn(a)'
    <3>1. /\ RowsInv /\ InTurn(a)
          /\ \A i \in Invoice : ~Buying(i) /\ ~Buying(i)'
      BY <1>1, <2>2, <2>3, <2>4, <2>8, OneAtATime DEF At
    <3>2. PaidCount' = PaidCount
      BY <1>1 DEF PaidCount
    <3>3. checked[Hand(a)] = "verified"
      BY <1>1, <1>3, <3>1 DEF InTurn, CheckPassed
    <3>4. InTurn(a)'
      BY <1>1, <2>2, <2>3, <2>4, <2>5, <3>1, <3>2, <3>3
         DEF InTurn, At, Hand, invoiceVars, tallyVars
    <3>5. RowsInv'
      BY <1>1, <3>1 DEF RowsInv, switchVars, invoiceVars, tallyVars
    <3> QED BY <3>4, <3>5
  <2>9. ~At(a, "idle") /\ ~At(a, "pay") /\ new.place # "pay"
    BY <1>1, <2>2, <2>3 DEF At
  <2> QED
    BY <1>1, <2>4, <2>6, <2>7, <2>8, <2>9, NoPaymentKeepsInv DEF AutoPayTypeOK, invoiceVars, tallyVars
<1>4. CASE ~(CheckPassed(a) /\ autoPayMode)
  <2>1. PICK queue \in SUBSET Invoice : queue = call[a].queue
    BY <1>2 DEF Call
  <2>2. call' = [call EXCEPT ![a] = NextInvoice(queue)]
    BY <1>4, <2>1 DEF Gate, FinishInvoice
  <2> QED BY <1>1, <2>2, GoneKeepsInv DEF At, tallyVars
<1> QED BY <1>3, <1>4

LEMMA ClaimIntentKeepsInv ==
  ASSUME AutoPayInv, NEW a \in Caller, ClaimIntent(a)
  PROVE  AutoPayInv'
<1> USE DEF AutoPayInv
<1>1. /\ At(a, "claim")
      /\ UNCHANGED <<switchVars, invoiceVars, spentOn, tallyVars>>
  BY DEF ClaimIntent
<1>2. call[a] \in Call
  BY HandType
<1>3. PICK e \in Invoice, queue \in SUBSET Invoice : e = Hand(a) /\ queue = call[a].queue
  BY HandType DEF Call
<1>4. CASE ~Claimable(e)
  <2>1. call' = [call EXCEPT ![a] = NextInvoice(queue)] /\ UNCHANGED intent
    BY <1>3, <1>4 DEF ClaimIntent, FinishInvoice
  <2> QED BY <1>1, <2>1, GoneKeepsInv DEF At, tallyVars
<1>5. CASE Claimable(e)
  <2> DEFINE pay == [call[a] EXCEPT !.place = "pay"]
  <2>1. /\ call' = [call EXCEPT ![a] = pay] /\ intent' = [intent EXCEPT ![e] = "claimed"]
        /\ intent[e] # "claimed"
    BY <1>3, <1>5 DEF ClaimIntent, Go, Claimable
  <2>2. pay \in Call /\ pay.place = "pay" /\ pay.on = e /\ pay.left = call[a].left
    BY <1>2, <1>3 DEF Call, Place, Hand
  <2> HIDE DEF pay
  <2>3. PICK new \in Call : new = pay
    BY <2>2
  <2>4. /\ call' = [call EXCEPT ![a] = new] /\ call' \in [Caller -> Call]
        /\ \A b \in Caller : call'[b] = IF b = a THEN new ELSE call[b]
        /\ new.place = "pay" /\ new.on = e /\ new.left = 0
    BY <1>1, <2>1, <2>2, <2>3 DEF AutoPayTypeOK, LeftInv, At
  <2>5. /\ intent' \in [Invoice -> {"absent", "pending", "claimed", "paid", "failed", "unknown_outcome"}]
        /\ intent'[e] = "claimed"
        /\ \A i \in Invoice : i # e => intent'[i] = intent[i]
    BY <2>1 DEF AutoPayTypeOK
  <2>6. \A b \in Caller : At(b, "pay") => b # a /\ Hand(b) # e
    BY <1>1, <2>1 DEF PayInv, At
  <2>7. \A b \in Caller : /\ At(b, "pay")' <=> b = a \/ At(b, "pay")
                          /\ Hand(b)' = Hand(b)
    BY <1>3, <2>4 DEF At, Hand
  <2>8. AutoPayTypeOK'
    <3>1. \A i \in Invoice : intent'[i] = "claimed" => \E b \in Caller : At(b, "pay")' /\ Hand(b)' = i
      BY <1>3, <2>5, <2>7 DEF AutoPayTypeOK
    <3>2. \A b, c \in Caller : At(b, "pay")' /\ At(c, "pay")' /\ Hand(b)' = Hand(c)' => b = c
      BY <1>3, <2>6, <2>7 DEF AutoPayTypeOK
    <3> QED BY <1>1, <2>4, <2>5, <3>1, <3>2 DEF AutoPayTypeOK, switchVars, invoiceVars, tallyVars
  <2>9. PayInv'
    <3> SUFFICES ASSUME NEW b \in Caller, At(b, "pay")' PROVE intent'[Hand(b)] = "claimed"
      BY <2>7 DEF PayInv
    <3>1. CASE b = a
      BY <1>3, <2>5, <3>1
    <3>2. CASE b # a
      <4>1. At(b, "pay") /\ Hand(b) \in Invoice
        BY <2>7, <3>2, HandType
      <4> QED BY <2>5, <2>6, <4>1 DEF PayInv
    <3> QED BY <3>1, <3>2
  <2>10. LeftInv'
    BY <2>4 DEF LeftInv, At
  <2>11. DueInv' /\ ~Due(a)'
    BY <1>1, <2>4 DEF DueInv, Due, Without, At, Hand, switchVars
  <2>12. ASSUME ~crossed PROVE Alone' /\ RowsInv' /\ \A b \in Caller : InTurn(b)'
    <3>1. /\ Alone' /\ RowsInv /\ \A b \in Caller : b # a => InTurn(b)'
          /\ \A i \in Invoice : ~Buying(i) /\ ~Buying(i)'
      BY <1>1, <2>4, <2>12, OneAtATime DEF At
    <3>2. InTurn(a)'
      BY <2>4, <2>11 DEF InTurn, At
    <3>3. \A i \in Invoice : intent'[i] = "unknown_outcome" => intent[i] = "unknown_outcome"
      BY <2>5
    <3>4. RowsInv'
      BY <1>1, <3>1, <3>3 DEF RowsInv, switchVars, invoiceVars, tallyVars
    <3> QED BY <3>1, <3>2, <3>4
  <2>13. TurnInv'
    BY <1>1, <2>12 DEF TurnInv, tallyVars
  <2> QED BY <2>8, <2>9, <2>10, <2>11, <2>13
<1> QED BY <1>4, <1>5

\* The payment in hand ends, or is given up: nobody else is paying it.
LEMMA PaymentEnds ==
  ASSUME AutoPayInv, NEW a \in Caller, At(a, "pay"),
         NEW result \in {"paid", "failed", "unknown_outcome"},
         intent' = [intent EXCEPT ![Hand(a)] = result],
         doubted' = (doubted \/ result = "unknown_outcome"),
         NEW queue \in SUBSET Invoice,
         call' = [call EXCEPT ![a] = NextInvoice(queue)],
         UNCHANGED <<switchVars, invoiceVars, spentOn, calls, changes, crossed, untracked>>
  PROVE  AutoPayInv'
<1> USE DEF AutoPayInv
<1>1. PICK e \in Invoice, new \in Call :
        /\ e = Hand(a) /\ new = NextInvoice(queue)
        /\ new.place \in {"idle", "next"} /\ new.left = 0
  BY HandType, NextInvoiceType
<1>2. /\ call' = [call EXCEPT ![a] = new] /\ call' \in [Caller -> Call]
      /\ \A b \in Caller : call'[b] = IF b = a THEN new ELSE call[b]
  BY <1>1 DEF AutoPayTypeOK
<1>3. /\ intent' \in [Invoice -> {"absent", "pending", "claimed", "paid", "failed", "unknown_outcome"}]
      /\ intent'[e] = result
      /\ \A i \in Invoice : i # e => intent'[i] = intent[i]
  BY <1>1 DEF AutoPayTypeOK
<1>4. \A b \in Caller : At(b, "pay") /\ b # a => Hand(b) # e
  BY <1>1 DEF AutoPayTypeOK
<1>5. \A b \in Caller : /\ At(b, "pay")' <=> b # a /\ At(b, "pay")
                        /\ b # a => Hand(b)' = Hand(b)
  BY <1>1, <1>2 DEF At, Hand
<1>6. AutoPayTypeOK'
  <2>1. ASSUME NEW i \in Invoice, intent'[i] = "claimed"
        PROVE  \E b \in Caller : At(b, "pay")' /\ Hand(b)' = i
    <3>1. i # e /\ intent[i] = "claimed"
      BY <1>3, <2>1
    <3>2. PICK b \in Caller : At(b, "pay") /\ Hand(b) = i
      BY <3>1 DEF AutoPayTypeOK
    <3> QED BY <1>1, <1>5, <3>1, <3>2
  <2>2. \A b, c \in Caller : At(b, "pay")' /\ At(c, "pay")' /\ Hand(b)' = Hand(c)' => b = c
    BY <1>5 DEF AutoPayTypeOK
  <2>3. doubted' \in BOOLEAN
    OBVIOUS
  <2> QED BY <1>2, <1>3, <2>1, <2>2, <2>3 DEF AutoPayTypeOK, switchVars, invoiceVars
<1>7. PayInv'
  <2> SUFFICES ASSUME NEW b \in Caller, At(b, "pay"), b # a PROVE intent'[Hand(b)] = "claimed"
    BY <1>5 DEF PayInv
  <2> QED BY <1>3, <1>4, HandType DEF PayInv
<1>8. LeftInv'
  BY <1>1, <1>2 DEF LeftInv, At
<1>9. DueInv' /\ ~Due(a)'
  BY <1>1, <1>2 DEF DueInv, Due, Without, At, Hand, switchVars
<1>10. ASSUME ~crossed PROVE Alone' /\ RowsInv' /\ \A b \in Caller : InTurn(b)'
  <2>1. /\ Alone' /\ RowsInv /\ \A b \in Caller : b # a => InTurn(b)'
        /\ \A i \in Invoice : ~Buying(i) /\ ~Buying(i)'
    BY <1>1, <1>2, <1>10, OneAtATime DEF At
  <2>2. InTurn(a)'
    BY <1>1, <1>2, <1>9 DEF InTurn, At
  <2>3. ~doubted' => \A i \in Invoice : intent'[i] # "unknown_outcome"
    BY <1>3, <2>1 DEF RowsInv
  <2>4. RowsInv'
    BY <2>1, <2>3 DEF RowsInv, switchVars, invoiceVars
  <2> QED BY <2>1, <2>2, <2>4
<1>11. TurnInv'
  BY <1>10 DEF TurnInv
<1> QED BY <1>6, <1>7, <1>8, <1>9, <1>11

LEMMA RecordPaymentKeepsInv ==
  ASSUME AutoPayInv, NEW a \in Caller, RecordPayment(a)
  PROVE  AutoPayInv'
<1>1. PICK result \in {"paid", "failed", "unknown_outcome"} :
        /\ intent' = [intent EXCEPT ![Hand(a)] = result]
        /\ doubted' = (doubted \/ result = "unknown_outcome")
  BY DEF RecordPayment
<1>2. PICK queue \in SUBSET Invoice : queue = call[a].queue
  BY HandType DEF AutoPayInv, Call
<1> QED BY <1>1, <1>2, PaymentEnds DEF RecordPayment, FinishInvoice

LEMMA StopCallKeepsInv ==
  ASSUME AutoPayInv, NEW a \in Caller, StopCall(a)
  PROVE  AutoPayInv'
<1> USE DEF AutoPayInv
<1>1. /\ ~At(a, "idle")
      /\ call' = [call EXCEPT ![a] = NextInvoice({})]
      /\ UNCHANGED <<switchVars, invoiceVars, calls, changes, crossed>>
  BY DEF StopCall, NextInvoice
<1>2. call[a] \in Call
  BY HandType
<1>3. PICK e \in Invoice, left \in 0..Budget : e = Hand(a) /\ left = call[a].left
  BY <1>2, HandType DEF Call
<1>4. PICK cost \in 0..left : Charge(e, cost)
  BY <1>3 DEF StopCall
<1>5. cost \in 0..Budget /\ Budget \in Nat
  BY AutoPayAssumption
<1>6. /\ spentOn' \in [Invoice -> 0..Budget + 1]
      /\ ~crossed /\ spentOn[e] + cost <= Budget => spentOn'[e] = spentOn[e] + cost
      /\ cost = 0 => spentOn'[e] = spentOn[e]
      /\ \A i \in Invoice : i # e => spentOn'[i] = spentOn[i]
  BY <1>4, <1>5, ChargeType
<1>7. CASE ~At(a, "buy")
  <2>1. cost = 0
    BY <1>3, <1>7 DEF LeftInv
  <2>2. \A i \in Invoice : spentOn'[i] = spentOn[i]
    BY <1>6, <2>1
  <2>3. spentOn' = spentOn /\ untracked' = untracked
    BY <1>6, <1>7, <2>2 DEF AutoPayTypeOK, StopCall
  <2>4. CASE At(a, "pay")
    <3>1. intent' = [intent EXCEPT ![Hand(a)] = "unknown_outcome"] /\ doubted' = TRUE
      BY <2>4 DEF StopCall
    <3>2. PICK result \in {"paid", "failed", "unknown_outcome"} : result = "unknown_outcome"
      OBVIOUS
    <3>3. PICK queue \in SUBSET Invoice : queue = {}
      OBVIOUS
    <3> QED BY <1>1, <2>3, <2>4, <3>1, <3>2, <3>3, PaymentEnds
  <2>5. CASE ~At(a, "pay")
    <3>1. UNCHANGED <<intent, doubted>>
      BY <2>5 DEF StopCall
    <3>2. PICK queue \in SUBSET Invoice : queue = {}
      OBVIOUS
    <3> QED BY <1>1, <1>7, <2>3, <2>5, <3>1, <3>2, GoneKeepsInv
  <2> QED BY <2>4, <2>5
<1>8. CASE At(a, "buy")
  <2>1. /\ untracked' = IF spentOn'[e] > 0 THEN Untracked(e) ELSE untracked
        /\ UNCHANGED <<intent, doubted>>
    BY <1>3, <1>8 DEF StopCall, At
  <2>2. PICK new \in Call : /\ new = NextInvoice({}) /\ new.left = 0
                            /\ new.place \in {"idle", "next"}
    BY NextInvoiceType
  <2>3. call' = [call EXCEPT ![a] = new] /\ call'[a] = new
    BY <1>1, <2>2 DEF AutoPayTypeOK
  <2>4. ~Due(a)'
    BY <2>2, <2>3 DEF Due, At
  <2>5. spentOn'[e] \in 0..Budget + 1
    BY <1>6
  <2>6. ~crossed /\ e \notin untracked' => spentOn'[e] = 0
    BY <1>5, <2>1, <2>5 DEF Untracked
  <2>7. ASSUME ~crossed PROVE RowsInv' /\ InTurn(a)'
    <3>1. /\ RowsInv /\ \A i \in Invoice : (Buying(i) => i = e) /\ ~Buying(i)'
      BY <1>1, <1>3, <2>2, <2>3, <2>7, OneAtATime DEF At
    <3>2. InTurn(a)'
      BY <2>2, <2>3, <2>4 DEF InTurn, At
    <3>3. \A i \in Invoice : i # e => (i \in untracked' <=> i \in untracked)
      BY <2>1 DEF Untracked
    <3>4. ASSUME NEW i \in Invoice
          PROVE  /\ i \notin untracked' => spentOn'[i] <= Budget
                 /\ i \notin untracked' /\ checked[i] = "none" => spentOn'[i] = 0
      <4>1. CASE i = e
        BY <1>5, <2>6, <2>7, <4>1
      <4>2. CASE i # e
        BY <1>6, <3>1, <3>3, <4>2 DEF RowsInv
      <4> QED BY <4>1, <4>2
    <3>5. RowsInv'
      BY <1>1, <2>1, <3>1, <3>4 DEF RowsInv, switchVars, invoiceVars
    <3> QED BY <3>2, <3>5
  <2>8. ~At(a, "pay") /\ new.place # "pay" /\ untracked' \subseteq Invoice
    BY <1>8, <2>1, <2>2 DEF At, AutoPayTypeOK, Untracked
  <2> QED BY <1>1, <1>6, <2>1, <2>2, <2>3, <2>4, <2>7, <2>8, NoPaymentKeepsInv
             DEF AutoPayTypeOK, invoiceVars
<1> QED BY <1>7, <1>8

---------------------------------------------------------------------------
(* The theorems *)

LEMMA AutoPayStepKeepsInv ==
  ASSUME AutoPayInv, [AutoPayNext]_autoPayVars
  PROVE  AutoPayInv'
<1>1. CASE UNCHANGED autoPayVars
  BY <1>1 DEF AutoPayInv, AutoPayTypeOK, PayInv, LeftInv, DueInv, TurnInv, Alone, RowsInv, Buying,
              InTurn, Due, Without, At, Hand, PaidCount, autoPayVars, switchVars, invoiceVars, tallyVars
<1>2. CASE PayeeChanges \/ ModeChanges
  BY <1>2, SwitchKeepsInv
<1>3. ASSUME NEW e \in Invoice, Settle(e) PROVE AutoPayInv'
  BY <1>3, SettleKeepsInv
<1>4. ASSUME NEW a \in Caller, StartCall(a) PROVE AutoPayInv'
  BY <1>4, StartCallKeepsInv
<1>5. ASSUME NEW a \in Caller, CallStep(a) PROVE AutoPayInv'
  BY <1>5, ReadInvoiceKeepsInv, WriteDecisionKeepsInv, ReadEvidenceKeepsInv, BuyCheckKeepsInv,
     EndChecksKeepsInv, GateKeepsInv, ClaimIntentKeepsInv, RecordPaymentKeepsInv DEF CallStep
<1>6. ASSUME NEW a \in Caller, StopCall(a) PROVE AutoPayInv'
  BY <1>6, StopCallKeepsInv
<1> QED BY <1>1, <1>2, <1>3, <1>4, <1>5, <1>6 DEF AutoPayNext

\* The invariant of the module: what a call in hand of an invoice still knows.
THEOREM AutoPayInductive == AutoPaySpec => []AutoPayInv
<1>1. AutoPayInit => AutoPayInv
  BY AutoPayInitially
<1>2. AutoPayInv /\ [AutoPayNext]_autoPayVars => AutoPayInv'
  BY AutoPayStepKeepsInv
<1> QED BY <1>1, <1>2, PTL DEF AutoPaySpec

\* Every reachable state is well typed, and no two calls of
\* executePreparedPayment pay the same claimed intent.
THEOREM AutoPayTypes == AutoPaySpec => []AutoPayTypeOK
<1>1. AutoPayInv => AutoPayTypeOK
  BY DEF AutoPayInv
<1> QED BY <1>1, AutoPayInductive, PTL

\* Paid without the owner is only what Level 1 found clean, for a payee and in
\* a mode that were on when the call last looked (runAutoPayIfEligible).
THEOREM AutoPayIsDue == AutoPaySpec => AutoPayDue
<1> DEFINE Act == \A a \in Caller, e \in Invoice : AutoClaims(a, e) =>
                    /\ evidence[e] = "clean"
                    /\ payeeOn \/ call[a].payeeMoved
                    /\ autoPayMode \/ call[a].modeMoved
<1>1. AutoPayInv => Act
  BY DEF AutoPayInv, DueInv, Due, AutoClaims, At
<1> QED BY <1>1, AutoPayInductive, PTL DEF AutoPayDue

\* While calls come one at a time, auto-pay claims an intent only on paid
\* checks that the row says were passed (runPaidVerifierForEmail).
THEOREM ChecksComeFirst == AutoPaySpec => CheckedBeforePaid
<1> DEFINE Act == \A a \in Caller, e \in Invoice :
                    AutoClaims(a, e) /\ ~crossed => checked[e] = "verified"
<1>1. AutoPayInv => Act
  BY DEF AutoPayInv, TurnInv, InTurn, AutoClaims, At
<1> QED BY <1>1, AutoPayInductive, PTL DEF CheckedBeforePaid

\* Auto-pay, one call at a time and without uncertain outcomes, stays below the
\* payee's cap (loadPayeeUsage).
THEOREM CapHolds == AutoPaySpec => CapInTurn
<1> DEFINE Act == \A a \in Caller, e \in Invoice :
                    AutoClaims(a, e) /\ ~crossed /\ ~doubted => PaidCount < MaxPayments
<1>1. AutoPayInv => Act
  BY DEF AutoPayInv, TurnInv, InTurn, Due, AutoClaims, At
<1> QED BY <1>1, AutoPayInductive, PTL DEF CapInTurn

\* The checks of an invoice stay within its budget (runPaidVerifierChecks).
THEOREM BudgetHolds == AutoPaySpec => []BudgetKept
<1>1. AutoPayInv => BudgetKept
  BY DEF AutoPayInv, TurnInv, RowsInv, BudgetKept
<1> QED BY <1>1, AutoPayInductive, PTL

\* A failed paid check is not forgotten by a later decision (reevaluatePolicy).
THEOREM FailedChecksStand == AutoPaySpec => []UnverifiedStands
<1>1. AutoPayInv => UnverifiedStands
  BY DEF AutoPayInv, TurnInv, RowsInv, UnverifiedStands
<1> QED BY <1>1, AutoPayInductive, PTL

\* What Level 1 found stays among the reasons of the row (paid-verification.ts).
THEOREM SuspicionStaysNamed == AutoPaySpec => []SuspicionNamed
<1>1. AutoPayInv => SuspicionNamed
  BY DEF AutoPayInv, AutoPayTypeOK, TurnInv, RowsInv, SuspicionNamed
<1> QED BY <1>1, AutoPayInductive, PTL

---------------------------------------------------------------------------
(* The intent *)

\* Where an invoice's payment is in the life of an intent.
intentLife == [e \in Invoice |-> IF intent[e] \in {"absent", "pending"} THEN "open" ELSE intent[e]]

\* Only the claim, the answer, the settlement and a stop write an intent, each
\* as IntentStatus lets it: what is paid for is claimed.
LEMMA IntentLives == AutoPayInv /\ [AutoPayNext]_autoPayVars => [Life!LifeNext]_intentLife
<1> SUFFICES ASSUME AutoPayInv, [AutoPayNext]_autoPayVars
             PROVE  UNCHANGED intentLife \/ Life!LifeNext
  OBVIOUS
<1> USE DEF intentLife
<1>t. /\ intent \in [Invoice -> {"absent", "pending", "claimed", "paid", "failed", "unknown_outcome"}]
      /\ call \in [Caller -> Call]
  BY DEF AutoPayInv, AutoPayTypeOK
<1>h. \A a \in Caller : Hand(a) \in Invoice
  BY <1>t DEF Hand, Call
<1>1. CASE UNCHANGED intent
  BY <1>1
<1>2. ASSUME NEW a \in Caller, ClaimIntent(a)
      PROVE  UNCHANGED intent \/ Life!LifeNext
  <2>1. PICK e \in Invoice : e = Hand(a)
    BY <1>h
  <2>2. CASE Claimable(e)
    <3>1. Life!Claim(e)
      BY <1>2, <1>t, <2>1, <2>2 DEF ClaimIntent, Claimable, Life!Claim, Life!Turn
    <3> QED BY <3>1 DEF Life!LifeNext
  <2> QED BY <1>2, <2>1, <2>2 DEF ClaimIntent
<1>3. ASSUME NEW e \in Invoice, NEW result \in {"paid", "failed"},
             intent[e] \in {"claimed", "unknown_outcome"}, intent' = [intent EXCEPT ![e] = result]
      PROVE  Life!Pay(e) \/ Life!Fail(e)
  BY <1>3, <1>t DEF Life!Pay, Life!Fail, Life!Turn
<1>4. ASSUME NEW e \in Invoice, intent[e] = "claimed", intent' = [intent EXCEPT ![e] = "unknown_outcome"]
      PROVE  Life!LifeNext
  <2>1. Life!Doubt({e}) /\ {e} \in SUBSET Invoice
    BY <1>4, <1>t DEF Life!Doubt
  <2> QED BY <2>1 DEF Life!LifeNext
<1>5. ASSUME NEW a \in Caller, RecordPayment(a)
      PROVE  Life!LifeNext
  <2>1. intent[Hand(a)] = "claimed"
    BY <1>5 DEF RecordPayment, AutoPayInv, PayInv
  <2>2. PICK result \in {"paid", "failed", "unknown_outcome"} :
          intent' = [intent EXCEPT ![Hand(a)] = result]
    BY <1>5 DEF RecordPayment
  <2>3. CASE result \in {"paid", "failed"}
    BY <1>3, <1>h, <2>1, <2>2, <2>3 DEF Life!LifeNext
  <2>4. CASE result = "unknown_outcome"
    BY <1>4, <1>h, <2>1, <2>2, <2>4
  <2> QED BY <2>2, <2>3, <2>4
<1>6. ASSUME NEW a \in Caller, StopCall(a)
      PROVE  UNCHANGED intent \/ Life!LifeNext
  <2>1. At(a, "pay") => intent[Hand(a)] = "claimed"
    BY DEF AutoPayInv, PayInv
  <2> QED BY <1>4, <1>6, <1>h, <2>1 DEF StopCall, Life!LifeNext
<1>7. ASSUME NEW e \in Invoice, Settle(e)
      PROVE  Life!LifeNext
  BY <1>3, <1>7 DEF Settle, Life!LifeNext
<1>8. ASSUME NEW a \in Caller, StartCall(a)
      PROVE  UNCHANGED intent
  BY <1>8 DEF StartCall, Resume, Open, Ingest, Retry, Reevaluate, Start
<1>9. ASSUME NEW a \in Caller,
             \/ ReadInvoice(a) \/ WriteDecision(a) \/ ReadEvidence(a)
             \/ BuyCheck(a) \/ EndChecks(a) \/ Gate(a)
      PROVE  UNCHANGED intent
  BY <1>9 DEF ReadInvoice, WriteDecision, ReadEvidence, BuyCheck, EndChecks, Gate
<1>10. CASE PayeeChanges \/ ModeChanges \/ UNCHANGED autoPayVars
  BY <1>10 DEF PayeeChanges, ModeChanges, autoPayVars
<1>11. ASSUME NEW a \in Caller, CallStep(a)
       PROVE  UNCHANGED intent \/ Life!LifeNext
  BY <1>2, <1>5, <1>9, <1>11 DEF CallStep
<1> HIDE DEF intentLife
<1>12. UNCHANGED intent => UNCHANGED intentLife
  BY DEF intentLife
<1> QED BY <1>6, <1>7, <1>8, <1>10, <1>11, <1>12 DEF AutoPayNext

\* The payment of AutoPay, abridged to the intent's status, lives as the rows
\* of PaymentExecution do: nothing paid or in doubt is claimed again.
THEOREM AutoPayIntentsLive == AutoPaySpec => IntentsLive
<1>1. AutoPayInit => Life!LifeInit
  BY DEF AutoPayInit, Life!LifeInit
<1>2. AutoPayInv /\ [AutoPayNext]_autoPayVars =>
        [Life!LifeNext]_([e \in Invoice |-> IF intent[e] \in {"absent", "pending"} THEN "open" ELSE intent[e]])
  BY IntentLives DEF intentLife
<1> QED BY <1>1, <1>2, AutoPayInductive, PTL DEF AutoPaySpec, IntentsLive, Life!LifeSpec

=============================================================================
