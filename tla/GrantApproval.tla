--------------------------- MODULE GrantApproval ---------------------------
(***************************************************************************)
(* How a payee is put up for approval at Perflo and approved               *)
(* (worker/src/payee-approval.ts, payee-approval-deps.ts,                  *)
(* reconcile-grant-approvals.ts, enableGrantViaPerfloCli in perflo-cli.ts, *)
(* and the create and revoke actions of app/app/payee-actions.ts).         *)
(*                                                                         *)
(* A call is one run of approvePayee and of what it leaves behind: the     *)
(* `policy enable` child and the write of its outcome.  It runs in the app *)
(* and may die anywhere.  Each database statement is one atomic step.      *)
(* Perflo and the owner in front of its page are external.                 *)
(*                                                                         *)
(* The recipient, the caps and the expiry that one statement writes on a   *)
(* payee's row are one value: the call whose request they come from.       *)
(***************************************************************************)
EXTENDS Naturals

CONSTANTS
  Sender,       \* sender addresses; one address belongs to one payee
  Rail,         \* payment methods, by lookup hash
  Call,         \* bound: the clicks on "Approve", each made at most once
  LastLine,     \* TRUE: a CLI that ends by itself has printed its last line
  None          \* null

ASSUME NoneAssumption == None \notin Sender \union Rail \union Call
ASSUME LastLineAssumption == LastLine \in BOOLEAN

VARIABLES
  status,       \* status[s] of the payee of s; "absent": no payee yet;
                \*   "denied", "expired": not_approved, by lastGrantOutcome
  attempt,      \* attempt[s]: whose request the row's grant columns hold
  aged,         \* aged[s]: pendingGrantExpiresAt is past
  rail,         \* rail[r]: the row of payee_payment_methods
  call,         \* call[c]: the local state of call c
  perflo,       \* perflo[c]: what became of c's approval at Perflo
  overtaken     \* history: the payees whose row expired under a live attempt

vars == <<status, attempt, aged, rail, call, perflo, overtaken>>

---------------------------------------------------------------------------
(* Types *)

NotApproved == {"denied", "expired"}
Status == {"absent", "pending_grant", "approved"} \union NotApproved

RailRow == [owner : Sender \union {None}, status : {"absent", "active", "revoked"}]

CallState == [pc : {"new", "recipient", "sweep", "lookup", "claim", "rail", "store",
                    "create", "spawn", "child", "write", "over"},
              sender : Sender \union {None},
              rail : Rail \union {None},
              outcome : {"none", "approved", "denied"}]

NotMade == [pc |-> "new", sender |-> None, rail |-> None, outcome |-> "none"]

TypeOK ==
  /\ status \in [Sender -> Status]
  /\ attempt \in [Sender -> Call \union {None}]
  /\ aged \in [Sender -> BOOLEAN]
  /\ rail \in [Rail -> RailRow]
  /\ call \in [Call -> CallState]
  /\ perflo \in [Call -> {"none", "open", "enabled", "refused"}]
  /\ overtaken \in SUBSET Sender

Init ==
  /\ status = [s \in Sender |-> "absent"]
  /\ attempt = [s \in Sender |-> None]
  /\ aged = [s \in Sender |-> FALSE]
  /\ rail = [r \in Rail |-> [owner |-> None, status |-> "absent"]]
  /\ call = [c \in Call |-> NotMade]
  /\ perflo = [c \in Call |-> "none"]
  /\ overtaken = {}

---------------------------------------------------------------------------
(* The expiry of a pending row *)

\* pendingGrantExpiresAt passes, GRANT_APPROVAL_TIMEOUT_MS after the call
\* took its time (which is before it claimed the row).
Age(s) ==
  /\ status[s] = "pending_grant" /\ ~aged[s]
  /\ aged' = [aged EXCEPT ![s] = TRUE]
  /\ UNCHANGED <<status, attempt, rail, call, perflo, overtaken>>

\* (Mutation: the comparison with now is the wrong way round.)
NotYetStale(s) == status[s] = "pending_grant" /\ ~aged[s]

Stale(s) == status[s] = "pending_grant" /\ aged[s]

\* The attempt can still be answered: its call runs, or Perflo waits.
Underway(c) == call[c].pc # "over" \/ perflo[c] = "open"

ExpireStalePendingGrants ==
  /\ status' = [s \in Sender |-> IF Stale(s) THEN "expired" ELSE status[s]]
  /\ overtaken' = overtaken \union {s \in Sender : Stale(s) /\ Underway(attempt[s])}

\* The worker, at its start and on each poll.
ReconcileStuckGrantApprovals ==
  /\ ExpireStalePendingGrants
  /\ UNCHANGED <<attempt, aged, rail, call, perflo>>

---------------------------------------------------------------------------
(* approvePayee *)

Moves(c, pc) == call' = [call EXCEPT ![c].pc = pc]

\* findExistingApproval, of a confirmed and valid request.  The owner names a
\* beneficiary that Perflo has, or one is to be registered first.
Begin(c, s, r) ==
  /\ call[c].pc = "new"
  /\ \E pc \in IF status[s] = "approved" THEN {"over"} ELSE {"recipient", "sweep"} :
       call' = [call EXCEPT ![c] = [NotMade EXCEPT !.pc = pc, !.sender = s, !.rail = r]]
  /\ UNCHANGED <<status, attempt, aged, rail, perflo, overtaken>>

CreatePerfloRecipient(c) ==
  /\ call[c].pc = "recipient"
  /\ Moves(c, "sweep")
  /\ UNCHANGED <<status, attempt, aged, rail, perflo, overtaken>>

\* startPendingGrant, statement by statement.
SweepInline(c) ==
  /\ call[c].pc = "sweep"
  /\ ExpireStalePendingGrants
  /\ Moves(c, "lookup")
  /\ UNCHANGED <<attempt, aged, rail, perflo>>

Lookup(c) ==
  LET s == call[c].sender IN
  /\ call[c].pc = "lookup"
  /\ Moves(c, IF status[s] = "absent" THEN "create"
              ELSE IF status[s] \in NotApproved THEN "claim"
              ELSE "over")
  /\ UNCHANGED <<status, attempt, aged, rail, perflo, overtaken>>

Claimable(s) == status[s] \in NotApproved

\* (Mutation: no partial unique index.)
NoIndex == TRUE

\* The partial unique index on pending_grant.
LockFree == \A s \in Sender : status[s] # "pending_grant"

\* The row becomes pending with the grant of call c.
Takes(c, s) ==
  /\ status' = [status EXCEPT ![s] = "pending_grant"]
  /\ attempt' = [attempt EXCEPT ![s] = c]
  /\ aged' = [aged EXCEPT ![s] = FALSE]

Claim(c) ==
  LET s == call[c].sender IN
  /\ call[c].pc = "claim"
  /\ IF Claimable(s) /\ LockFree
     THEN Takes(c, s) /\ Moves(c, "rail")
     ELSE UNCHANGED <<status, attempt, aged>> /\ Moves(c, "over")
  /\ UNCHANGED <<rail, perflo, overtaken>>

\* Whichever payee has the method, and whatever its status, it is left alone.
FindRail(c) ==
  /\ call[c].pc = "rail"
  /\ Moves(c, IF rail[call[c].rail].status = "absent" THEN "store" ELSE "spawn")
  /\ UNCHANGED <<status, attempt, aged, rail, perflo, overtaken>>

Stored(c) == [rail EXCEPT ![call[c].rail] = [owner |-> call[c].sender, status |-> "active"]]

\* If another call has stored the method meanwhile, approvePayee throws.
StoreRail(c) ==
  /\ call[c].pc = "store"
  /\ IF rail[call[c].rail].status = "absent"
     THEN rail' = Stored(c) /\ Moves(c, "spawn")
     ELSE UNCHANGED rail /\ Moves(c, "over")
  /\ UNCHANGED <<status, attempt, aged, perflo, overtaken>>

\* Payee, identity and method in one statement.  Any unique violation is
\* answered like the lock's: the address' or the method's as well.
Create(c) ==
  LET s == call[c].sender IN
  /\ call[c].pc = "create"
  /\ IF LockFree /\ status[s] = "absent" /\ rail[call[c].rail].status = "absent"
     THEN Takes(c, s) /\ rail' = Stored(c) /\ Moves(c, "spawn")
     ELSE UNCHANGED <<status, attempt, aged, rail>> /\ Moves(c, "over")
  /\ UNCHANGED <<perflo, overtaken>>

---------------------------------------------------------------------------
(* The child process and its outcome *)

\* enablePerfloGrant, not awaited; Perflo opens an approval.
Spawn(c) ==
  /\ call[c].pc = "spawn"
  /\ Moves(c, "child")
  /\ perflo' = [perflo EXCEPT ![c] = "open"]
  /\ UNCHANGED <<status, attempt, aged, rail, overtaken>>

\* The owner approves in the browser; or declines, or lets the link lapse.
Decide(c) ==
  /\ perflo[c] = "open"
  /\ \E answer \in {"enabled", "refused"} : perflo' = [perflo EXCEPT ![c] = answer]
  /\ UNCHANGED <<status, attempt, aged, rail, call, overtaken>>

\* (Mutations: every exit is a success; Perflo's word is not translated.)
ReadsSuccess(c) == {"approved"}
ReadsPerflo(c) == {perflo[c]}

\* What classifyBeneficiaryAddStdout makes of a child that ended by itself: the
\* last line of its output that is JSON decides.  Without a final answer that
\* is the first line, {"ok":true,"status":"awaiting_browser",...}.
Readings(c) ==
  (IF perflo[c] = "enabled" \/ ~LastLine THEN {"approved"} ELSE {})
  \union (IF perflo[c] = "refused" THEN {"denied"} ELSE {})

Close(c) ==
  /\ call[c].pc = "child"
  /\ \E outcome \in Readings(c) :
       call' = [call EXCEPT ![c].pc = "write", ![c].outcome = outcome]
  /\ UNCHANGED <<status, attempt, aged, rail, perflo, overtaken>>

\* (Mutation: the outcome is written whatever became of the row.)
SettlesAnything(s) == TRUE

Settles(s) == status[s] = "pending_grant"

ApplyGrantOutcome(c) ==
  LET s == call[c].sender IN
  /\ call[c].pc = "write"
  /\ status' = IF Settles(s) THEN [status EXCEPT ![s] = call[c].outcome] ELSE status
  /\ Moves(c, "over")
  /\ UNCHANGED <<attempt, aged, rail, perflo, overtaken>>

\* The call ends early, wherever it is: its process dies, a statement or the
\* registration of the recipient throws, the child does not start, is killed
\* at its time limit or ends with no readable answer, the outcome is not
\* saved.  What it did stays, and so does an approval open at Perflo.
GiveUp(c) ==
  /\ call[c].pc \notin {"new", "over"}
  /\ Moves(c, "over")
  /\ UNCHANGED <<status, attempt, aged, rail, perflo, overtaken>>

\* revokeRailAction
RevokePaymentRail(r) ==
  /\ rail[r].status # "absent"
  /\ rail' = [rail EXCEPT ![r].status = "revoked"]
  /\ UNCHANGED <<status, attempt, aged, call, perflo, overtaken>>

---------------------------------------------------------------------------
CallStep(c) ==
  \/ \E s \in Sender, r \in Rail : Begin(c, s, r)
  \/ CreatePerfloRecipient(c) \/ SweepInline(c) \/ Lookup(c) \/ Claim(c)
  \/ FindRail(c) \/ StoreRail(c) \/ Create(c)
  \/ Spawn(c) \/ Decide(c) \/ Close(c) \/ ApplyGrantOutcome(c) \/ GiveUp(c)

Next ==
  \/ \E c \in Call : CallStep(c)
  \/ \E s \in Sender : Age(s)
  \/ \E r \in Rail : RevokePaymentRail(r)
  \/ ReconcileStuckGrantApprovals

Spec == Init /\ [][Next]_vars

---------------------------------------------------------------------------
(* Safety *)

\* Perflo's rule, "only one live approval can exist for a customer at a
\* time", is kept by a lock in another system: as long as no row expires
\* under a live attempt, no two approvals are open at Perflo.
OneApprovalAtPerflo ==
  LastLine /\ overtaken = {} =>
    \A c, d \in Call : perflo[c] = "open" /\ perflo[d] = "open" => c = d

\* The recipient and the caps on an approved row are those the owner agreed
\* to at Perflo, whatever other calls for the payee did meanwhile, unless one
\* of its earlier attempts outlived its row.
ApprovedAsAsked ==
  LastLine =>
    \A s \in Sender \ overtaken :
      status[s] = "approved" => attempt[s] \in Call /\ perflo[attempt[s]] = "enabled"

\* No sweep, late denial or concurrent retry takes an approval back or
\* changes the grant on the row.
ApprovedStays ==
  [][\A s \in Sender : status[s] = "approved" =>
        status'[s] = "approved" /\ attempt'[s] = attempt[s]]_vars

\* Rows and approvals, seen together, are the lock of GrantLock (given
\* LastLine): one holder, and "approved" only with authority for that payee,
\* even if the answer is late and another attempt's.
phase == [s \in Sender |->
           CASE status[s] = "absent" -> "unknown"
             [] status[s] \in NotApproved -> "free"
             [] status[s] = "pending_grant" -> "holding"
             [] OTHER -> "approved"]

authorised == {call[c].sender : c \in {d \in Call : perflo[d] = "enabled"}}

Lock == INSTANCE GrantLock

LockSpec == Lock!Spec

---------------------------------------------------------------------------
(* What the documentation says and the code does not do *)

\* payee-approval-deps.ts:203-205 "reuse the existing active method": the
\* method a retry goes on with is an active one of this payee.
ReusedRailIsActive ==
  [][\A c \in Call : call[c].pc = "rail" /\ call'[c].pc = "spawn" =>
        rail[call[c].rail] = [owner |-> call[c].sender, status |-> "active"]]_vars

\* schema.prisma:176-177 "Only true once the real Perflo grant ... has actually
\* been set up": an approved payee has been given authority.
ApprovedHasGrant ==
  \A s \in Sender : status[s] = "approved" =>
    \E c \in Call : call[c].sender = s /\ perflo[c] = "enabled"

---------------------------------------------------------------------------
(* Liveness *)

\* Time passes and the worker polls for ever; nothing else has to happen.
FairSpec ==
  /\ Spec
  /\ \A s \in Sender : WF_vars(Age(s))
  /\ WF_vars(ReconcileStuckGrantApprovals)

\* A call that dies with the lock does not keep it.
LockReleased ==
  \A s \in Sender : status[s] = "pending_grant" ~> status[s] # "pending_grant"

=============================================================================
