----------------------------- MODULE DailyDigest -----------------------------
(***************************************************************************)
(* The daily digest (worker/src/daily-digest.ts): within its hour a pass   *)
(* reads when the last digest was claimed, collects what has happened      *)
(* since, claims the time at which it began and sends.                     *)
(***************************************************************************)
EXTENDS Naturals

CONSTANTS
  Event,        \* rows a digest reports
  KindOf,       \* KindOf[e]: a payment, a waiting invoice, a rejected one
  Digester,     \* passes that may run at once
  DayOf, HourOf,   \* functions of the time: its day, and its hour
  DigestHour,   \* ingest_checkpoint.digestHour
  LastTick,     \* bound: the clock
  Never         \* null

ASSUME DigestAssumption ==
  /\ KindOf \in [Event -> {"paid", "waiting", "rejected"}]
  /\ LastTick \in Nat /\ Never \notin Nat
\* Days follow each other.
ASSUME DayAssumption ==
  /\ \A t \in 0..LastTick : DayOf[t] \in Nat
  /\ \A s, t \in 0..LastTick : s <= t => DayOf[s] <= DayOf[t]

VARIABLES
  tick,         \* the clock
  at,           \* paidAt, level1ProcessedAt or reviewedAt of each event
  touched,      \* waiting invoices with a review status that is not null
  lastDigest,   \* ingest_checkpoint.lastDigestSentAt
  digest,       \* the passes
  accepted,     \* how many digests of a day Gmail has accepted
  reported,     \* the events in them
  dropped       \* history: events of claimed digests that were not sent

digestVars == <<tick, at, touched, lastDigest, digest, accepted, reported, dropped>>

Ticks == 0..LastTick

DigestState == [step : {"idle", "collect", "claim", "send"},
                began : Ticks \union {Never},    \* the pass's "now"
                last : Ticks \union {Never},     \* the last digest it has read
                lines : SUBSET Event]

NoDigest == [step |-> "idle", began |-> Never, last |-> Never, lines |-> {}]

DigestInit ==
  /\ tick = 0 /\ lastDigest = Never
  /\ at = [e \in Event |-> Never]
  /\ touched = {} /\ reported = {} /\ dropped = {}
  /\ digest = [d \in Digester |-> NoDigest]
  /\ accepted = [day \in {DayOf[t] : t \in Ticks} |-> 0]

DigestTick ==
  /\ tick < LastTick
  /\ tick' = tick + 1
  /\ UNCHANGED <<at, touched, lastDigest, digest, accepted, reported, dropped>>

Happen(e) ==
  /\ at[e] = Never
  /\ at' = [at EXCEPT ![e] = tick]
  /\ UNCHANGED <<tick, touched, lastDigest, digest, accepted, reported, dropped>>

\* The owner has looked at a waiting invoice and kept it waiting.
Touch(e) ==
  /\ KindOf[e] = "waiting" /\ at[e] # Never
  /\ touched' = touched \union {e}
  /\ UNCHANGED <<tick, at, lastDigest, digest, accepted, reported, dropped>>

SendDailyDigest(d) ==
  /\ digest[d].step = "idle"
  /\ HourOf[tick] = DigestHour
  /\ lastDigest # Never => DayOf[lastDigest] # DayOf[tick]
  /\ digest' = [digest EXCEPT ![d] = [NoDigest EXCEPT !.step = "collect", !.began = tick,
                                                      !.last = lastDigest]]
  /\ UNCHANGED <<tick, at, touched, lastDigest, accepted, reported, dropped>>

\* reviewStatus: { not: "rejected" } is review_status <> 'rejected', which no
\* row without a review status fulfils.
Listable(e) == KindOf[e] = "waiting" => e \in touched

Since(e, last) == last = Never \/ at[e] >= last

Collect(d) ==
  /\ digest[d].step = "collect"
  /\ digest' = [digest EXCEPT ![d].step = "claim",
                              ![d].lines = {e \in Event : /\ at[e] # Never /\ Listable(e)
                                                          /\ Since(e, digest[d].last)}]
  /\ UNCHANGED <<tick, at, touched, lastDigest, accepted, reported, dropped>>

\* (Mutation: whoever comes claims.)
NobodyElse(d) == TRUE

\* (Mutation: the time of the claim.)
TimeOfClaim(d) == tick

\* The guard and the value of claimDigest.
StillLast(d) == lastDigest = digest[d].last
ClaimedTime(d) == digest[d].began

ClaimDigest(d) ==
  /\ digest[d].step = "claim"
  /\ IF StillLast(d)
     THEN lastDigest' = ClaimedTime(d) /\ digest' = [digest EXCEPT ![d].step = "send"]
     ELSE digest' = [digest EXCEPT ![d] = NoDigest] /\ UNCHANGED lastDigest
  /\ UNCHANGED <<tick, at, touched, accepted, reported, dropped>>

SendDigest(d) ==
  /\ digest[d].step = "send"
  /\ accepted' = [accepted EXCEPT ![DayOf[digest[d].began]] = @ + 1]
  /\ reported' = reported \union digest[d].lines
  /\ digest' = [digest EXCEPT ![d] = NoDigest]
  /\ UNCHANGED <<tick, at, touched, lastDigest, dropped>>

\* Gmail or the database throws, or the process dies.  A claim stays.
FailDigest(d) ==
  /\ digest[d].step # "idle"
  /\ dropped' = IF digest[d].step = "send" THEN dropped \union digest[d].lines ELSE dropped
  /\ digest' = [digest EXCEPT ![d] = NoDigest]
  /\ UNCHANGED <<tick, at, touched, lastDigest, accepted, reported>>

DigestNext ==
  \/ DigestTick
  \/ \E e \in Event : Happen(e) \/ Touch(e)
  \/ \E d \in Digester : \/ SendDailyDigest(d) \/ Collect(d) \/ ClaimDigest(d)
                         \/ SendDigest(d) \/ FailDigest(d)

DigestSpec == DigestInit /\ [][DigestNext]_digestVars

---------------------------------------------------------------------------
(* Properties *)

\* Types.
DigestTypeOK ==
  /\ tick \in Ticks
  /\ at \in [Event -> Ticks \union {Never}]
  /\ touched \subseteq Event /\ reported \subseteq Event /\ dropped \subseteq Event
  /\ lastDigest \in Ticks \union {Never}
  /\ digest \in [Digester -> DigestState]
  /\ \A day \in DOMAIN accepted : accepted[day] \in Nat

\* One digest a day, however the polls overlap.
OneDigestADay == \A day \in DOMAIN accepted : accepted[day] <= 1

Handled(e) == e \in reported \/ e \in dropped \/ \E d \in Digester : digest[d].step = "send" /\ e \in digest[d].lines

\* No payment and no rejection falls between two digests: what happened before
\* the last claimed digest is in one that was sent, is being sent, or failed.
NothingBetweenDigests ==
  \A e \in Event : /\ KindOf[e] # "waiting"
                   /\ at[e] # Never /\ lastDigest # Never /\ at[e] < lastDigest
                   => Handled(e)

=============================================================================
