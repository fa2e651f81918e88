------------------------------- MODULE Notices -------------------------------
(***************************************************************************)
(* What a poll (worker/src/index.ts) tells the owner: the alerts of the    *)
(* rows it takes in, the warnings and the daily digest.  The parts share   *)
(* no variable and no step of one disables a step of another, so that a    *)
(* property of one part needs the steps of that part only: a behaviour     *)
(* here follows one part, any one, while the others stand still.           *)
(***************************************************************************)
EXTENDS Intake, GrantWarning, DailyDigest

VARIABLE part         \* the part that moves

noticeVars == <<intakeVars, warnVars, digestVars, part>>

NoticesInit ==
  /\ part \in {"rows", "warnings", "digest"}
  /\ IntakeInit /\ WarnInit /\ DigestInit
  \* The mails do not matter to the other parts.
  /\ part # "rows" => book = CHOOSE b \in Book : TRUE

TakesIn == part = "rows" /\ IntakeNext /\ UNCHANGED <<warnVars, digestVars, part>>
Warns == part = "warnings" /\ WarnNext /\ UNCHANGED <<intakeVars, digestVars, part>>
Digests == part = "digest" /\ DigestNext /\ UNCHANGED <<intakeVars, warnVars, part>>

NoticesNext == TakesIn \/ Warns \/ Digests

\* The worker's own pass, over and over, and some pass of the warnings.
Polls ==
  /\ part = "rows"
  /\ StartPass(Worker) \/ PassStep(Worker)
  /\ UNCHANGED <<warnVars, digestVars, part>>

Reminds ==
  /\ part = "warnings"
  /\ \E w \in Warner : WarnStep(w)
  /\ UNCHANGED <<intakeVars, digestVars, part>>

\* The worker polls again and again; any other process may stop for good.
\* (What is asked of a part that stands still is never enabled.)
NoticesFairness == WF_noticeVars(Polls) /\ WF_noticeVars(Reminds)

NoticesSpec == NoticesInit /\ [][NoticesNext]_noticeVars /\ NoticesFairness

\* The types of the part that moves, the only one whose variables change.
NoticesTypeOK ==
  CASE part = "rows" -> IntakeTypeOK
    [] part = "warnings" -> WarnTypeOK
    [] part = "digest" -> DigestTypeOK

=============================================================================
