------------------------- MODULE GrantApprovalProofs -------------------------
(***************************************************************************)
(* GrantApproval's invariants, for any number of payees, payment methods   *)
(* and calls, and its refinement of GrantLock.                             *)
(***************************************************************************)
EXTENDS GrantApproval, TLAPS

---------------------------------------------------------------------------
(* The inductive invariant *)

\* The partial unique index.
LockInv ==
  \A s, t \in Sender : status[s] = "pending_grant" /\ status[t] = "pending_grant" => s = t

\* A payee's row holds the grant of a call made for that payee.
RowInv ==
  \A s \in Sender : status[s] # "absent" =>
    attempt[s] \in Call /\ call[attempt[s]].sender = s

\* A call that was made has a request, one that has claimed a row had a
\* payee, and Perflo knows of it once its child was started.
Claimed == {"rail", "store", "spawn", "child", "write"}

CallInv ==
  \A c \in Call :
    /\ call[c].pc = "new" => call[c].sender = None
    /\ call[c].pc # "new" => call[c].sender \in Sender /\ call[c].rail \in Rail
    /\ call[c].pc \in Claimed => status[call[c].sender] # "absent"
    /\ call[c].pc = "child" => perflo[c] # "none"
    /\ call[c].pc = "write" => call[c].outcome \in {"approved", "denied"}
    /\ perflo[c] # "none" =>
         call[c].pc \in {"child", "write", "over"} /\ status[call[c].sender] # "absent"

\* An outcome about to be written is Perflo's.
OutcomeInv ==
  LastLine => \A c \in Call : call[c].pc = "write" =>
    /\ perflo[c] # "open"
    /\ call[c].outcome = "approved" => perflo[c] = "enabled"

\* A call past its claim, or one Perflo still waits for, has its payee's row
\* to itself, unless the row expired under it.
OwnInv ==
  LastLine => \A c \in Call : call[c].pc \in Claimed \/ perflo[c] = "open" =>
    \/ call[c].sender \in overtaken
    \/ status[call[c].sender] = "pending_grant" /\ attempt[call[c].sender] = c

IInv ==
  /\ TypeOK /\ LockInv /\ RowInv /\ CallInv
  /\ OutcomeInv /\ OwnInv /\ ApprovedAsAsked

---------------------------------------------------------------------------
(* Every step keeps it *)

\* Moving a call on changes nothing of it but where it stands.
LEMMA MovesTo ==
  ASSUME TypeOK, NEW c \in Call,
         NEW pc \in {"sweep", "lookup", "claim", "rail", "store", "create", "spawn",
                     "child", "write", "over"},
         Moves(c, pc)
  PROVE  /\ call' \in [Call -> CallState]
         /\ call'[c].pc = pc
         /\ \A d \in Call : call'[d].pc # call[d].pc => d = c
         /\ \A d \in Call : /\ call'[d].sender = call[d].sender
                            /\ call'[d].rail = call[d].rail
                            /\ call'[d].outcome = call[d].outcome
<1>1. call[c] \in CallState
  BY DEF TypeOK
<1>2. [call[c] EXCEPT !.pc = pc] \in CallState
  BY <1>1 DEF CallState
<1> QED BY <1>2 DEF TypeOK, Moves

\* What Create and StoreRail write is a row of payee_payment_methods.
LEMMA StoredType ==
  ASSUME TypeOK, NEW c \in Call, call[c].sender \in Sender
  PROVE  Stored(c) \in [Rail -> RailRow]
BY DEF Stored, TypeOK, RailRow

\* No step leaves the types.
LEMMA TypeStep ==
  ASSUME TypeOK, CallInv, [Next]_vars PROVE TypeOK'
<1> USE DEF TypeOK
<1>1. ASSUME NEW c \in Call, NEW s \in Sender, NEW r \in Rail, Begin(c, s, r) PROVE TypeOK'
  <2>1. \A pc \in {"over", "recipient", "sweep"} :
          [NotMade EXCEPT !.pc = pc, !.sender = s, !.rail = r] \in CallState
    BY DEF NotMade, CallState
  <2>2. call' \in [Call -> CallState]
    BY <1>1, <2>1 DEF Begin
  <2> QED BY <1>1, <2>2 DEF Begin
<1>2. ASSUME NEW c \in Call, CreatePerfloRecipient(c) PROVE TypeOK'
  <2>1. call' \in [Call -> CallState]
    BY <1>2, MovesTo DEF CreatePerfloRecipient
  <2> QED BY <1>2, <2>1 DEF CreatePerfloRecipient
<1>3. ASSUME NEW c \in Call, SweepInline(c) PROVE TypeOK'
  <2>1. call' \in [Call -> CallState]
    BY <1>3, MovesTo DEF SweepInline
  <2> QED BY <1>3, <2>1 DEF SweepInline, ExpireStalePendingGrants, Status, NotApproved
<1>4. ASSUME NEW c \in Call, Lookup(c) PROVE TypeOK'
  <2>1. call' \in [Call -> CallState]
    BY <1>4, MovesTo DEF Lookup
  <2> QED BY <1>4, <2>1 DEF Lookup
<1>5. ASSUME NEW c \in Call, Claim(c) PROVE TypeOK'
  <2>1. call' \in [Call -> CallState]
    BY <1>5, MovesTo DEF Claim
  <2> QED BY <1>5, <2>1 DEF Claim, Takes, Status, CallInv
<1>6. ASSUME NEW c \in Call, FindRail(c) PROVE TypeOK'
  <2>1. call' \in [Call -> CallState]
    BY <1>6, MovesTo DEF FindRail
  <2> QED BY <1>6, <2>1 DEF FindRail
<1>7. ASSUME NEW c \in Call, StoreRail(c) PROVE TypeOK'
  <2>1. call' \in [Call -> CallState]
    BY <1>7, MovesTo DEF StoreRail
  <2> QED BY <1>7, <2>1, StoredType DEF StoreRail, CallInv
<1>8. ASSUME NEW c \in Call, Create(c) PROVE TypeOK'
  <2>1. call' \in [Call -> CallState]
    BY <1>8, MovesTo DEF Create
  <2> QED BY <1>8, <2>1, StoredType DEF Create, Takes, Status, CallInv
<1>9. ASSUME NEW c \in Call, Spawn(c) PROVE TypeOK'
  <2>1. call' \in [Call -> CallState]
    BY <1>9, MovesTo DEF Spawn
  <2> QED BY <1>9, <2>1 DEF Spawn
<1>10. ASSUME NEW c \in Call, ApplyGrantOutcome(c) PROVE TypeOK'
  <2>1. call' \in [Call -> CallState]
    BY <1>10, MovesTo DEF ApplyGrantOutcome
  <2> QED BY <1>10, <2>1 DEF ApplyGrantOutcome, Status, NotApproved, CallInv
<1>11. ASSUME NEW c \in Call, GiveUp(c) PROVE TypeOK'
  <2>1. call' \in [Call -> CallState]
    BY <1>11, MovesTo DEF GiveUp
  <2> QED BY <1>11, <2>1 DEF GiveUp
<1>12. ASSUME NEW c \in Call, Decide(c) PROVE TypeOK'
  BY <1>12 DEF Decide
<1>13. ASSUME NEW c \in Call, Close(c) PROVE TypeOK'
  <2>1. PICK outcome \in {"approved", "denied"} :
          call' = [call EXCEPT ![c].pc = "write", ![c].outcome = outcome]
    BY <1>13 DEF Close, Readings
  <2>2. call[c] \in CallState
    OBVIOUS
  <2>3. [call[c] EXCEPT !.pc = "write", !.outcome = outcome] \in CallState
    BY <2>2 DEF CallState
  <2>4. call' = [call EXCEPT ![c] = [call[c] EXCEPT !.pc = "write", !.outcome = outcome]]
    BY <2>1
  <2>5. call' \in [Call -> CallState]
    BY <2>3, <2>4
  <2> QED BY <1>13, <2>5 DEF Close
<1>14. ASSUME NEW s \in Sender, Age(s) PROVE TypeOK'
  BY <1>14 DEF Age
<1>15. ASSUME NEW r \in Rail, RevokePaymentRail(r) PROVE TypeOK'
  BY <1>15 DEF RevokePaymentRail, RailRow
<1>16. CASE ReconcileStuckGrantApprovals
  BY <1>16 DEF ReconcileStuckGrantApprovals, ExpireStalePendingGrants, Status, NotApproved
<1>17. CASE UNCHANGED vars
  BY <1>17 DEF vars
<1> QED
  BY <1>1, <1>2, <1>3, <1>4, <1>5, <1>6, <1>7, <1>8, <1>9, <1>10, <1>11, <1>12,
     <1>13, <1>14, <1>15, <1>16, <1>17 DEF Next, CallStep

\* Nor does one break the inductive invariant.
LEMMA InvStep ==
  ASSUME IInv, [Next]_vars PROVE IInv'
<1>0. TypeOK'
  BY TypeStep DEF IInv
<1> USE <1>0, NoneAssumption, LastLineAssumption DEF IInv, TypeOK, NotApproved
<1>1. ASSUME NEW c \in Call, NEW s \in Sender, NEW r \in Rail, Begin(c, s, r) PROVE IInv'
  BY <1>1 DEF Begin, NotMade, LockInv, RowInv, CallInv, OutcomeInv, OwnInv,
     ApprovedAsAsked, Claimed
<1>2. ASSUME NEW c \in Call, CreatePerfloRecipient(c) PROVE IInv'
  BY <1>2, MovesTo DEF CreatePerfloRecipient, LockInv, RowInv, CallInv,
     OutcomeInv, OwnInv, ApprovedAsAsked, Claimed
<1>3. ASSUME NEW c \in Call, SweepInline(c) PROVE IInv'
  <2>1. LockInv'
    BY <1>3, MovesTo DEF SweepInline, ExpireStalePendingGrants, Stale,
       Underway, LockInv
  <2>2. RowInv'
    BY <1>3, MovesTo DEF SweepInline, ExpireStalePendingGrants, Stale,
       Underway, RowInv, CallInv
  <2>3. CallInv'
    BY <1>3, MovesTo DEF SweepInline, ExpireStalePendingGrants, Stale,
       Underway, CallInv, Claimed
  <2>4. OutcomeInv'
    BY <1>3, MovesTo DEF SweepInline, ExpireStalePendingGrants, Stale,
       Underway, OutcomeInv, CallInv
  <2>5. OwnInv'
    BY <1>3, MovesTo DEF SweepInline, ExpireStalePendingGrants, Stale,
       Underway, OwnInv, CallInv, RowInv, OutcomeInv, LockInv, Claimed
  <2>6. ApprovedAsAsked'
    BY <1>3, MovesTo DEF SweepInline, ExpireStalePendingGrants, Stale,
       Underway, ApprovedAsAsked, OwnInv, OutcomeInv, RowInv, CallInv,
       Claimed
  <2> QED BY <2>1, <2>2, <2>3, <2>4, <2>5, <2>6
<1>4. ASSUME NEW c \in Call, Lookup(c) PROVE IInv'
  <2>1. LockInv'
    BY <1>4, MovesTo DEF Lookup, LockInv
  <2>2. RowInv'
    BY <1>4, MovesTo DEF Lookup, RowInv, CallInv
  <2>3. CallInv'
    BY <1>4, MovesTo DEF Lookup, CallInv, Claimed
  <2>4. OutcomeInv'
    BY <1>4, MovesTo DEF Lookup, OutcomeInv, CallInv
  <2>5. OwnInv'
    BY <1>4, MovesTo DEF Lookup, OwnInv, CallInv, RowInv, OutcomeInv,
       LockInv, Claimed
  <2>6. ApprovedAsAsked'
    BY <1>4, MovesTo DEF Lookup, ApprovedAsAsked, OwnInv, OutcomeInv,
       RowInv, CallInv, Claimed
  <2> QED BY <2>1, <2>2, <2>3, <2>4, <2>5, <2>6
<1>5. ASSUME NEW c \in Call, Claim(c) PROVE IInv'
  <2>1. LockInv'
    BY <1>5, MovesTo DEF Claim, Claimable, LockFree, Takes, LockInv
  <2>2. RowInv'
    BY <1>5, MovesTo DEF Claim, Claimable, LockFree, Takes, RowInv,
       CallInv
  <2>3. CallInv'
    BY <1>5, MovesTo DEF Claim, Claimable, LockFree, Takes, CallInv,
       Claimed
  <2>4. OutcomeInv'
    BY <1>5, MovesTo DEF Claim, Claimable, LockFree, Takes, OutcomeInv,
       CallInv
  <2>5. OwnInv'
    BY <1>5, MovesTo DEF Claim, Claimable, LockFree, Takes, OwnInv,
       CallInv, RowInv, OutcomeInv, LockInv, Claimed
  <2>6. ApprovedAsAsked'
    BY <1>5, MovesTo DEF Claim, Claimable, LockFree, Takes,
       ApprovedAsAsked, OwnInv, OutcomeInv, RowInv, CallInv, Claimed
  <2> QED BY <2>1, <2>2, <2>3, <2>4, <2>5, <2>6
<1>6. ASSUME NEW c \in Call, FindRail(c) PROVE IInv'
  BY <1>6, MovesTo DEF FindRail, LockInv, RowInv, CallInv, OutcomeInv,
     OwnInv, ApprovedAsAsked, Claimed
<1>7. ASSUME NEW c \in Call, StoreRail(c) PROVE IInv'
  <2>1. LockInv'
    BY <1>7, MovesTo DEF StoreRail, LockInv
  <2>2. RowInv'
    BY <1>7, MovesTo DEF StoreRail, RowInv, CallInv
  <2>3. CallInv'
    BY <1>7, MovesTo DEF StoreRail, CallInv, Claimed
  <2>4. OutcomeInv'
    BY <1>7, MovesTo DEF StoreRail, OutcomeInv, CallInv
  <2>5. OwnInv'
    BY <1>7, MovesTo DEF StoreRail, OwnInv, CallInv, RowInv, OutcomeInv,
       LockInv, Claimed
  <2>6. ApprovedAsAsked'
    BY <1>7, MovesTo DEF StoreRail, ApprovedAsAsked, OwnInv, OutcomeInv,
       RowInv, CallInv, Claimed
  <2> QED BY <2>1, <2>2, <2>3, <2>4, <2>5, <2>6
<1>8. ASSUME NEW c \in Call, Create(c) PROVE IInv'
  <2>1. LockInv'
    BY <1>8, MovesTo DEF Create, LockFree, Takes, LockInv
  <2>2. RowInv'
    BY <1>8, MovesTo DEF Create, LockFree, Takes, RowInv, CallInv
  <2>3. CallInv'
    BY <1>8, MovesTo DEF Create, LockFree, Takes, CallInv, Claimed
  <2>4. OutcomeInv'
    BY <1>8, MovesTo DEF Create, LockFree, Takes, OutcomeInv, CallInv
  <2>5. OwnInv'
    BY <1>8, MovesTo DEF Create, LockFree, Takes, OwnInv, CallInv, RowInv,
       OutcomeInv, LockInv, Claimed
  <2>6. ApprovedAsAsked'
    BY <1>8, MovesTo DEF Create, LockFree, Takes, ApprovedAsAsked, OwnInv,
       OutcomeInv, RowInv, CallInv, Claimed
  <2> QED BY <2>1, <2>2, <2>3, <2>4, <2>5, <2>6
<1>9. ASSUME NEW c \in Call, Spawn(c) PROVE IInv'
  <2>1. LockInv'
    BY <1>9, MovesTo DEF Spawn, LockInv
  <2>2. RowInv'
    BY <1>9, MovesTo DEF Spawn, RowInv, CallInv
  <2>3. CallInv'
    BY <1>9, MovesTo DEF Spawn, CallInv, Claimed
  <2>4. OutcomeInv'
    BY <1>9, MovesTo DEF Spawn, OutcomeInv, CallInv
  <2>5. OwnInv'
    BY <1>9, MovesTo DEF Spawn, OwnInv, CallInv, RowInv, OutcomeInv,
       LockInv, Claimed
  <2>6. ApprovedAsAsked'
    BY <1>9, MovesTo DEF Spawn, ApprovedAsAsked, OwnInv, OutcomeInv,
       RowInv, CallInv, Claimed
  <2> QED BY <2>1, <2>2, <2>3, <2>4, <2>5, <2>6
<1>10. ASSUME NEW c \in Call, ApplyGrantOutcome(c) PROVE IInv'
  <2>1. LockInv'
    BY <1>10, MovesTo DEF ApplyGrantOutcome, Settles, LockInv
  <2>2. RowInv'
    BY <1>10, MovesTo DEF ApplyGrantOutcome, Settles, RowInv, CallInv
  <2>3. CallInv'
    BY <1>10, MovesTo DEF ApplyGrantOutcome, Settles, CallInv, Claimed
  <2>4. OutcomeInv'
    BY <1>10, MovesTo DEF ApplyGrantOutcome, Settles, OutcomeInv, CallInv
  <2>5. OwnInv'
    BY <1>10, MovesTo DEF ApplyGrantOutcome, Settles, OwnInv, CallInv,
       RowInv, OutcomeInv, LockInv, Claimed
  <2>6. ApprovedAsAsked'
    BY <1>10, MovesTo DEF ApplyGrantOutcome, Settles, ApprovedAsAsked,
       OwnInv, OutcomeInv, RowInv, CallInv, Claimed
  <2> QED BY <2>1, <2>2, <2>3, <2>4, <2>5, <2>6
<1>11. ASSUME NEW c \in Call, GiveUp(c) PROVE IInv'
  BY <1>11, MovesTo DEF GiveUp, LockInv, RowInv, CallInv, OutcomeInv,
     OwnInv, ApprovedAsAsked, Claimed
<1>12. ASSUME NEW c \in Call, Decide(c) PROVE IInv'
  BY <1>12 DEF Decide, LockInv, RowInv, CallInv, OutcomeInv, OwnInv,
     ApprovedAsAsked, Claimed
<1>13. ASSUME NEW c \in Call, Close(c) PROVE IInv'
  BY <1>13 DEF Close, Readings, LockInv, RowInv, CallInv, OutcomeInv,
     OwnInv, ApprovedAsAsked, Claimed
<1>14. ASSUME NEW s \in Sender, Age(s) PROVE IInv'
  BY <1>14 DEF Age, LockInv, RowInv, CallInv, OutcomeInv, OwnInv,
     ApprovedAsAsked, Claimed
<1>15. ASSUME NEW r \in Rail, RevokePaymentRail(r) PROVE IInv'
  BY <1>15 DEF RevokePaymentRail, LockInv, RowInv, CallInv, OutcomeInv,
     OwnInv, ApprovedAsAsked, Claimed
<1>16. CASE ReconcileStuckGrantApprovals
  BY <1>16 DEF ReconcileStuckGrantApprovals, ExpireStalePendingGrants,
     Stale, Underway, LockInv, RowInv, CallInv, OutcomeInv, OwnInv,
     ApprovedAsAsked, Claimed
<1>17. CASE UNCHANGED vars
  BY <1>17 DEF vars, LockInv, RowInv, CallInv, OutcomeInv, OwnInv,
     ApprovedAsAsked, Claimed
<1> QED
  BY <1>1, <1>2, <1>3, <1>4, <1>5, <1>6, <1>7, <1>8, <1>9, <1>10, <1>11, <1>12,
     <1>13, <1>14, <1>15, <1>16, <1>17 DEF Next, CallStep

\* It holds with no payee, no call and nothing at Perflo.
LEMMA InvInit == Init => IInv
BY NoneAssumption
   DEF Init, IInv, TypeOK, Status, RailRow, CallState, NotMade, LockInv, RowInv, CallInv,
       Claimed, OutcomeInv, OwnInv, ApprovedAsAsked

\* The inductive invariant holds in every reachable state.
LEMMA Inductive == Spec => []IInv
<1>1. IInv /\ [Next]_vars => IInv'
  BY InvStep
<1> QED BY InvInit, <1>1, PTL DEF Spec

---------------------------------------------------------------------------
(* The theorems *)

\* The columns, the local state of a call and Perflo's answers always have
\* their types.
THEOREM TypeCorrect == Spec => []TypeOK
<1>1. IInv => TypeOK
  BY DEF IInv
<1> QED BY Inductive, <1>1, PTL

\* However many payees, methods and calls: while no row expires under a live
\* attempt, the lock on our rows keeps Perflo's rule of one open approval.
THEOREM OneOpenApproval == Spec => []OneApprovalAtPerflo
<1>1. IInv => OneApprovalAtPerflo
  <2> SUFFICES ASSUME IInv, LastLine, overtaken = {},
                      NEW c \in Call, NEW d \in Call,
                      perflo[c] = "open", perflo[d] = "open"
               PROVE  c = d
    BY DEF OneApprovalAtPerflo
  <2>1. /\ status[call[c].sender] = "pending_grant" /\ attempt[call[c].sender] = c
        /\ status[call[d].sender] = "pending_grant" /\ attempt[call[d].sender] = d
    BY DEF IInv, OwnInv
  <2>2. call[c].sender \in Sender /\ call[d].sender \in Sender
    BY DEF IInv, CallInv
  <2> QED BY <2>1, <2>2 DEF IInv, LockInv
<1> QED BY Inductive, <1>1, PTL

\* A payee approved under caps and a recipient has them at Perflo.
THEOREM ApprovalsAreAsAsked == Spec => []ApprovedAsAsked
<1>1. IInv => ApprovedAsAsked
  BY DEF IInv
<1> QED BY Inductive, <1>1, PTL

\* An approval is final, whichever sweeps, late outcomes and retries follow,
\* and whether or not the CLI's output was complete.
THEOREM ApprovalsStay == Spec => ApprovedStays
<1>1. ASSUME IInv, [Next]_vars
      PROVE  [\A s \in Sender : status[s] = "approved" =>
                status'[s] = "approved" /\ attempt'[s] = attempt[s]]_vars
  <2> SUFFICES ASSUME NEW s \in Sender, status[s] = "approved", Next
               PROVE  status'[s] = "approved" /\ attempt'[s] = attempt[s]
    BY <1>1
  <2> USE DEF IInv, TypeOK
  <2>1. ASSUME NEW c \in Call, CallStep(c) PROVE status'[s] = "approved" /\ attempt'[s] = attempt[s]
    <3>1. CASE \E t \in Sender, r \in Rail : Begin(c, t, r)
      BY <3>1 DEF Begin
    <3>2. CASE SweepInline(c)
      BY <1>1, <3>2 DEF SweepInline, ExpireStalePendingGrants, Stale
    <3>3. CASE Claim(c)
      BY <1>1, <3>3 DEF Claim, Claimable, NotApproved, Takes
    <3>4. CASE Create(c)
      BY <1>1, <3>4 DEF Create, Takes
    <3>5. CASE ApplyGrantOutcome(c)
      BY <1>1, <3>5 DEF ApplyGrantOutcome, Settles
    <3>6. CASE \/ CreatePerfloRecipient(c) \/ Lookup(c) \/ FindRail(c) \/ StoreRail(c)
               \/ Spawn(c) \/ Decide(c) \/ Close(c) \/ GiveUp(c)
      BY <3>6 DEF CreatePerfloRecipient, Lookup, FindRail, StoreRail, Spawn, Decide, Close,
                  GiveUp
    <3> QED BY <2>1, <3>1, <3>2, <3>3, <3>4, <3>5, <3>6 DEF CallStep
  <2>2. ASSUME NEW t \in Sender, Age(t) PROVE status'[s] = "approved" /\ attempt'[s] = attempt[s]
    BY <2>2 DEF Age
  <2>3. ASSUME NEW r \in Rail, RevokePaymentRail(r)
        PROVE  status'[s] = "approved" /\ attempt'[s] = attempt[s]
    BY <2>3 DEF RevokePaymentRail
  <2>4. CASE ReconcileStuckGrantApprovals
    BY <1>1, <2>4 DEF ReconcileStuckGrantApprovals, ExpireStalePendingGrants, Stale
  <2> QED BY <2>1, <2>2, <2>3, <2>4 DEF Next
<1> QED BY Inductive, <1>1, PTL DEF Spec, ApprovedStays

---------------------------------------------------------------------------
(* The refinement of GrantLock *)

\* Steps that leave the statuses alone leave the lock's phases alone.
LEMMA SamePhase ==
  ASSUME status' = status PROVE phase' = phase
BY DEF phase, NotApproved

\* One row's new status is one payee's new phase.
LEMMA NewPhase ==
  ASSUME IInv, NEW s \in Sender, NEW new \in Status \ {"absent"},
         status' = [status EXCEPT ![s] = new]
  PROVE  phase' = [phase EXCEPT ![s] =
                     IF new \in NotApproved THEN "free"
                     ELSE IF new = "pending_grant" THEN "holding" ELSE "approved"]
BY DEF phase, IInv, TypeOK, Status, NotApproved

\* Authority changes with Perflo's decisions only, because a call for which
\* Perflo has opened an approval keeps its payee.
LEMMA SameAuthority ==
  ASSUME IInv, perflo' = perflo,
         \A d \in Call : perflo[d] # "none" => call'[d].sender = call[d].sender
  PROVE  authorised' = authorised
BY DEF authorised

\* In particular, it stays when a call only moves on.
LEMMA MovesKeepAuthority ==
  ASSUME IInv, NEW c \in Call, NEW pc, Moves(c, pc), perflo' = perflo
  PROVE  authorised' = authorised
<1>1. \A d \in Call : call'[d].sender = call[d].sender
  BY DEF Moves, IInv, TypeOK, CallState
<1> QED BY <1>1, SameAuthority

\* A sweep releases the lock, if anyone.
LEMMA SweepRefines ==
  ASSUME IInv, ExpireStalePendingGrants, authorised' = authorised
  PROVE  [Lock!Next]_Lock!vars
<1>1. CASE \A s \in Sender : ~Stale(s)
  <2>1. status' = status
    BY <1>1 DEF ExpireStalePendingGrants, IInv, TypeOK
  <2> QED BY <2>1, SamePhase DEF Lock!vars
<1>2. CASE \E s \in Sender : Stale(s)
  <2>1. PICK s \in Sender : Stale(s)
    BY <1>2
  <2>2. status' = [status EXCEPT ![s] = "expired"]
    BY <2>1 DEF ExpireStalePendingGrants, Stale, IInv, TypeOK, LockInv
  <2>3. phase' = [phase EXCEPT ![s] = "free"]
    BY <2>2, NewPhase DEF Status, NotApproved
  <2>4. phase[s] = "holding"
    BY <2>1 DEF phase, Stale, NotApproved
  <2>5. Lock!Release(s)
    BY <2>3, <2>4 DEF Lock!Release
  <2> QED BY <2>5 DEF Lock!Next
<1> QED BY <1>1, <1>2

\* A claim takes the lock.
LEMMA TakesRefines ==
  ASSUME IInv, NEW c \in Call, NEW s \in Sender, Takes(c, s), LockFree,
         status[s] \in NotApproved \union {"absent"}, authorised' = authorised
  PROVE  Lock!Next
<1>1. phase' = [phase EXCEPT ![s] = "holding"]
  BY NewPhase DEF Takes, Status, NotApproved
<1>2. phase[s] \in {"unknown", "free"}
  BY DEF phase, NotApproved
<1>3. \A t \in Sender : phase[t] # "holding"
  BY DEF phase, LockFree, NotApproved, IInv, TypeOK, Status
<1>4. Lock!Acquire(s)
  BY <1>1, <1>2, <1>3 DEF Lock!Acquire
<1> QED BY <1>4 DEF Lock!Next

\* An outcome approves or releases, or finds the row settled.
LEMMA OutcomeRefines ==
  ASSUME IInv, LastLine, NEW c \in Call, ApplyGrantOutcome(c)
  PROVE  [Lock!Next]_Lock!vars
<1> DEFINE s == call[c].sender
<1>1. s \in Sender /\ call[c].outcome \in {"approved", "denied"}
  BY DEF ApplyGrantOutcome, IInv, CallInv
<1>2. authorised' = authorised
  BY MovesKeepAuthority DEF ApplyGrantOutcome
<1>3. CASE ~Settles(s)
  BY <1>2, <1>3, SamePhase DEF ApplyGrantOutcome, Lock!vars
<1>4. CASE Settles(s)
  <2>1. phase[s] = "holding"
    BY <1>1, <1>4 DEF phase, Settles, NotApproved
  <2>2. CASE call[c].outcome = "approved"
    <3>1. status' = [status EXCEPT ![s] = "approved"]
      BY <1>4, <2>2 DEF ApplyGrantOutcome
    <3>2. /\ "approved" \in Status \ {"absent"}
          /\ "approved" \notin NotApproved /\ "approved" # "pending_grant"
      BY DEF Status, NotApproved
    <3>3. phase' = [phase EXCEPT ![s] = "approved"]
      BY <1>1, <3>1, <3>2, NewPhase
    <3>4. s \in authorised
      BY <2>2 DEF ApplyGrantOutcome, authorised, IInv, OutcomeInv
    <3>5. Lock!Approve(s)
      BY <1>2, <2>1, <3>3, <3>4 DEF Lock!Approve
    <3> QED BY <1>1, <3>5 DEF Lock!Next
  <2>3. CASE call[c].outcome = "denied"
    <3>1. status' = [status EXCEPT ![s] = "denied"]
      BY <1>4, <2>3 DEF ApplyGrantOutcome
    <3>2. phase' = [phase EXCEPT ![s] = "free"]
      BY <1>1, <3>1, NewPhase DEF Status, NotApproved
    <3>3. Lock!Release(s)
      BY <1>2, <2>1, <3>2 DEF Lock!Release
    <3> QED BY <1>1, <3>3 DEF Lock!Next
  <2> QED BY <1>1, <2>2, <2>3
<1> QED BY <1>3, <1>4

\* A decision of the owner gives authority, or nothing.
LEMMA DecideRefines ==
  ASSUME IInv, NEW c \in Call, Decide(c)
  PROVE  [Lock!Next]_Lock!vars
<1> DEFINE s == call[c].sender
<1>1. s \in Sender /\ status[s] # "absent"
  BY DEF Decide, IInv, CallInv
<1>2. phase' = phase
  BY SamePhase DEF Decide
<1>3. CASE perflo'[c] = "enabled"
  <2>1. authorised' = authorised \union {s}
    BY <1>3 DEF Decide, authorised, IInv, TypeOK
  <2>2. phase[s] # "unknown"
    BY <1>1 DEF phase, NotApproved
  <2>3. Lock!Authorise(s)
    BY <1>2, <2>1, <2>2 DEF Lock!Authorise
  <2> QED BY <1>1, <2>3 DEF Lock!Next
<1>4. CASE perflo'[c] = "refused"
  <2>1. authorised' = authorised
    BY <1>4 DEF Decide, authorised, IInv, TypeOK
  <2> QED BY <1>2, <2>1 DEF Lock!vars
<1> QED BY <1>3, <1>4 DEF Decide, IInv, TypeOK

\* Every step of the system is a step of the lock or nothing to it.
LEMMA StepRefines ==
  ASSUME IInv, LastLine, [Next]_vars PROVE [Lock!Next]_Lock!vars
<1>1. ASSUME NEW c \in Call, CallStep(c) PROVE [Lock!Next]_Lock!vars
  <2>1. ASSUME NEW s \in Sender, NEW r \in Rail, Begin(c, s, r) PROVE [Lock!Next]_Lock!vars
    <3>1. perflo[c] = "none"
      BY <2>1 DEF Begin, IInv, TypeOK, CallInv
    <3>2. authorised' = authorised
      BY <2>1, <3>1, SameAuthority DEF Begin, IInv, TypeOK
    <3> QED BY <2>1, <3>2, SamePhase DEF Begin, Lock!vars
  <2>2. CASE SweepInline(c)
    BY <2>2, SweepRefines, MovesKeepAuthority DEF SweepInline
  <2>3. CASE Claim(c)
    <3>1. authorised' = authorised
      BY <2>3, MovesKeepAuthority DEF Claim
    <3>2. call[c].sender \in Sender
      BY <2>3 DEF Claim, IInv, CallInv
    <3>3. CASE Claimable(call[c].sender) /\ LockFree
      BY <2>3, <3>1, <3>2, <3>3, TakesRefines DEF Claim, Claimable
    <3>4. CASE ~(Claimable(call[c].sender) /\ LockFree)
      BY <2>3, <3>1, <3>4, SamePhase DEF Claim, Lock!vars
    <3> QED BY <3>3, <3>4
  <2>4. CASE Create(c)
    <3>1. authorised' = authorised
      BY <2>4, MovesKeepAuthority DEF Create
    <3>2. call[c].sender \in Sender
      BY <2>4 DEF Create, IInv, CallInv
    <3>3. CASE Takes(c, call[c].sender) /\ LockFree /\ status[call[c].sender] = "absent"
      BY <3>1, <3>2, <3>3, TakesRefines
    <3>4. CASE status' = status
      BY <3>1, <3>4, SamePhase DEF Lock!vars
    <3> QED BY <2>4, <3>3, <3>4 DEF Create
  <2>5. CASE ApplyGrantOutcome(c)
    BY <2>5, OutcomeRefines
  <2>6. CASE Decide(c)
    BY <2>6, DecideRefines
  <2>7. CASE Spawn(c)
    <3>1. authorised' = authorised
      BY <2>7 DEF Spawn, Moves, authorised, IInv, TypeOK, CallState, CallInv
    <3> QED BY <2>7, <3>1, SamePhase DEF Spawn, Lock!vars
  <2>8. CASE Close(c)
    <3>1. \A d \in Call : call'[d].sender = call[d].sender
      BY <2>8 DEF Close, IInv, TypeOK, CallState
    <3> QED BY <2>8, <3>1, SamePhase, SameAuthority DEF Close, Lock!vars
  <2>9. CASE \/ CreatePerfloRecipient(c) \/ Lookup(c) \/ FindRail(c) \/ StoreRail(c)
             \/ GiveUp(c)
    <3>1. status' = status /\ perflo' = perflo /\ \E pc : Moves(c, pc)
      BY <2>9 DEF CreatePerfloRecipient, Lookup, FindRail, StoreRail, GiveUp
    <3> QED BY <3>1, SamePhase, MovesKeepAuthority DEF Lock!vars
  <2> QED BY <1>1, <2>1, <2>2, <2>3, <2>4, <2>5, <2>6, <2>7, <2>8, <2>9 DEF CallStep
<1>2. CASE \/ \E s \in Sender : Age(s)
           \/ \E r \in Rail : RevokePaymentRail(r)
           \/ UNCHANGED vars
  <2>1. UNCHANGED <<status, call, perflo>>
    BY <1>2 DEF Age, RevokePaymentRail, vars
  <2> QED BY <2>1, SamePhase, SameAuthority DEF Lock!vars
<1>3. CASE ReconcileStuckGrantApprovals
  BY <1>3, SweepRefines, SameAuthority DEF ReconcileStuckGrantApprovals
<1> QED BY <1>1, <1>2, <1>3 DEF Next

\* Approvals are the lock that GrantLock specifies: one payee holds it at a
\* time, and whoever leaves it approved has authority at Perflo.
THEOREM LockImplemented ==
  ASSUME LastLine
  PROVE  Spec => LockSpec
<1>1. Init => Lock!Init
  BY DEF Init, Lock!Init, phase, authorised, NotApproved
<1>2. IInv /\ [Next]_vars => [Lock!Next]_Lock!vars
  BY StepRefines
<1> QED BY Inductive, <1>1, <1>2, PTL DEF Spec, LockSpec, Lock!Spec

---------------------------------------------------------------------------
(* What the lock's promise says of the payees' rows *)

\* No step of the lock approves without authority or takes authority away.
LEMMA LockKeepsAuthority ==
  ASSUME [Lock!Next]_Lock!vars, \A s \in Sender : phase[s] = "approved" => s \in authorised
  PROVE  \A s \in Sender : phase'[s] = "approved" => s \in authorised'
<1>1. DOMAIN phase = Sender
  BY DEF phase
<1>2. ASSUME NEW t \in Sender, Lock!Acquire(t) \/ Lock!Release(t)
      PROVE  \A s \in Sender : phase'[s] = "approved" => s \in authorised'
  <2>1. PICK new \in {"holding", "free"} : phase' = [phase EXCEPT ![t] = new]
    BY <1>2 DEF Lock!Acquire, Lock!Release
  <2>2. authorised' = authorised
    BY <1>2 DEF Lock!Acquire, Lock!Release
  <2> QED BY <1>1, <2>1, <2>2
<1>3. ASSUME NEW t \in Sender, Lock!Authorise(t)
      PROVE  \A s \in Sender : phase'[s] = "approved" => s \in authorised'
  BY <1>3 DEF Lock!Authorise
<1>4. ASSUME NEW t \in Sender, Lock!Approve(t)
      PROVE  \A s \in Sender : phase'[s] = "approved" => s \in authorised'
  BY <1>1, <1>4 DEF Lock!Approve
<1> QED BY <1>2, <1>3, <1>4 DEF Lock!Next, Lock!vars

\* schema.prisma's word on payeeStatus, "only true once the real Perflo grant
\* has actually been set up", holds of every payee whatever expires under a
\* live attempt, provided that every child's last line is its final answer:
\* that proviso is all that is wrong with it.
THEOREM ApprovedHasAuthority ==
  ASSUME LastLine
  PROVE  Spec => []ApprovedHasGrant
<1> DEFINE Backed == \A s \in Sender : phase[s] = "approved" => s \in authorised
<1>1. Init => Backed
  BY DEF Init, phase
<1>2. IInv /\ [Next]_vars /\ Backed => Backed'
  BY StepRefines, LockKeepsAuthority
<1>3. IInv /\ Backed => ApprovedHasGrant
  <2> SUFFICES ASSUME IInv, Backed, NEW s \in Sender, status[s] = "approved"
               PROVE  \E c \in Call : call[c].sender = s /\ perflo[c] = "enabled"
    BY DEF ApprovedHasGrant
  <2>1. phase[s] = "approved"
    BY DEF phase, NotApproved
  <2> QED BY <2>1 DEF authorised
<1> QED BY Inductive, <1>1, <1>2, <1>3, PTL DEF Spec

=============================================================================
