------------------------------- MODULE Services -------------------------------
(***************************************************************************)
(* The work that depends on somebody else's service: the sync with Gmail   *)
(* (GmailSync), and auto-pay with its checks bought from Perflo (AutoPay). *)
(* The two share no variable and no step of one disables a step of the     *)
(* other, so that a property of one needs the steps of that one only: a    *)
(* behaviour here follows one part, any one, while the other stands still. *)
(***************************************************************************)
EXTENDS GmailSync, AutoPay

VARIABLE part         \* the part that moves

servicesVars == <<syncVars, autoPayVars, part>>

ServicesInit ==
  /\ part \in {"sync", "auto-pay"}
  /\ SyncInit /\ AutoPayInit
  \* The invoices do not matter to the sync.
  /\ part = "sync" => evidence = (CHOOSE f \in Evidence : TRUE) /\ ~autoPayMode

Syncs == part = "sync" /\ SyncNext /\ UNCHANGED <<autoPayVars, part>>
AutoPays == part = "auto-pay" /\ AutoPayNext /\ UNCHANGED <<syncVars, part>>

ServicesNext == Syncs \/ AutoPays

ServicesSpec == ServicesInit /\ [][ServicesNext]_servicesVars

\* The types of the part that moves, the only one whose variables change.
ServicesTypeOK ==
  CASE part = "sync" -> SyncTypeOK
    [] part = "auto-pay" -> AutoPayTypeOK

=============================================================================
