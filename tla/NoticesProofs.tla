---------------------------- MODULE NoticesProofs ----------------------------
(***************************************************************************)
(* One warning per payee, for any number of payees and of passes that run  *)
(* at once, fail and stop.  One digest a day, and nothing between two      *)
(* digests, for any events, any clock and any hour.  And what is proved of *)
(* these and of the intake (IntakeProofs) holds where they run together.   *)
(***************************************************************************)
EXTENDS Notices, IntakeProofs

---------------------------------------------------------------------------
(* The warnings: inductive invariant *)

\* A payee that has been warned was claimed for it, and once.
WarnedInv == \A g \in Grantee : warned[g] \in {0, 1} /\ (warned[g] = 1 => g \in claimed)

\* A pass warns about one payee at a time, who has had no warning and none
\* that failed.
SendingInv ==
  \A w \in Warner : /\ \A g \in sending[w] : warned[g] = 0 /\ g \notin unsent
                    /\ \A g, h \in sending[w] : g = h

WarnInv == WarnTypeOK /\ WarnedInv /\ SendingInv

---------------------------------------------------------------------------
(* The warnings: every step keeps it *)

LEMMA WarnInitially == WarnInit => WarnInv
BY StopAssumption DEF WarnInit, WarnInv, WarnTypeOK, WarnedInv, SendingInv

\* A claim is made of a payee nobody has claimed before.
LEMMA WarningClaimKeepsInv ==
  ASSUME WarnInv, NEW w \in Warner, ClaimWarning(w)
  PROVE  WarnInv'
<1> USE DEF WarnInv, WarnTypeOK, WarnedInv, SendingInv
<1>1. PICK g \in listed[w] :
        /\ listed' = [listed EXCEPT ![w] = @ \ {g}]
        /\ IF Unwarned(g)
           THEN claimed' = claimed \union {g} /\ sending' = [sending EXCEPT ![w] = {g}]
           ELSE UNCHANGED <<claimed, sending>>
  BY DEF ClaimWarning
<1>2. UNCHANGED <<expiring, warned, unsent, stops>> /\ sending[w] = {} /\ g \in Grantee
  BY <1>1 DEF ClaimWarning
<1>3. CASE Unwarned(g)
  <2>1. /\ claimed' = claimed \union {g}
        /\ \A v \in Warner : sending'[v] = IF v = w THEN {g} ELSE sending[v]
        /\ sending' \in [Warner -> SUBSET claimed']
        /\ g \notin claimed /\ warned[g] = 0 /\ g \notin unsent
    BY <1>1, <1>2, <1>3 DEF Unwarned
  <2>2. listed' \in [Warner -> SUBSET Grantee]
    BY <1>1
  <2>3. \A u, v \in Warner : u # v => sending'[u] \intersect sending'[v] = {}
    BY <2>1
  <2> QED BY <1>2, <2>1, <2>2, <2>3
<1>4. CASE ~Unwarned(g)
  <2>1. UNCHANGED <<claimed, sending>> /\ listed' \in [Warner -> SUBSET Grantee]
    BY <1>1, <1>4
  <2> QED BY <1>2, <2>1
<1> QED BY <1>3, <1>4

\* What a pass has claimed is its own, so that no other pass's payee is
\* touched when it sends or fails.
LEMMA SendKeepsInv ==
  ASSUME WarnInv, NEW w \in Warner, SendWarning(w)
  PROVE  WarnInv'
<1> USE DEF WarnInv, WarnTypeOK, WarnedInv, SendingInv
<1>1. /\ sending' = [sending EXCEPT ![w] = {}]
      /\ UNCHANGED <<expiring, stops>>
      /\ sending[w] \subseteq claimed
  BY DEF SendWarning
<1>2. /\ sending' \in [Warner -> SUBSET claimed]
      /\ \A v \in Warner : sending'[v] = IF v = w THEN {} ELSE sending[v]
  BY <1>1
<1>3. CASE /\ warned' = WarnedOnceMore(w) /\ UNCHANGED <<unsent, claimed>>
           /\ listed' = listed \/ listed' = [listed EXCEPT ![w] = {}]
  <2>1. \A g \in Grantee : warned'[g] = IF g \in sending[w] THEN 1 ELSE warned[g]
    BY <1>3 DEF WarnedOnceMore
  <2>2. warned' \in [Grantee -> Nat] /\ listed' \in [Warner -> SUBSET Grantee]
    BY <1>3 DEF WarnedOnceMore
  <2>3. \A v \in Warner : \A g \in sending'[v] : g \notin sending[w]
    BY <1>2
  <2> QED BY <1>1, <1>2, <1>3, <2>1, <2>2, <2>3
<1>4. CASE /\ unsent' = unsent \union sending[w]
           /\ listed' = [listed EXCEPT ![w] = {}]
           /\ claimed' = claimed
           /\ UNCHANGED warned
  <2>1. \A v \in Warner : \A g \in sending'[v] : g \notin sending[w]
    BY <1>2
  <2>2. listed' \in [Warner -> SUBSET Grantee]
    BY <1>4
  <2> QED BY <1>1, <1>2, <1>4, <2>1, <2>2
<1> QED BY <1>3, <1>4 DEF SendWarning, ClaimsAfterFailure

LEMMA StopKeepsInv ==
  ASSUME WarnInv, NEW w \in Warner, StopWarning(w)
  PROVE  WarnInv'
<1> USE DEF WarnInv, WarnTypeOK, WarnedInv, SendingInv
<1>1. /\ sending' \in [Warner -> SUBSET claimed]
      /\ \A v \in Warner : sending'[v] = IF v = w THEN {} ELSE sending[v]
      /\ listed' \in [Warner -> SUBSET Grantee]
      /\ stops' \in 0..MaxStops
  BY StopAssumption DEF StopWarning
<1>2. unsent' = unsent \union sending[w] /\ UNCHANGED <<expiring, claimed, warned>>
  BY DEF StopWarning
<1>3. \A v \in Warner : \A g \in sending'[v] : g \notin sending[w]
  BY <1>1
<1> QED BY <1>1, <1>2, <1>3

LEMMA WarnStepKeepsInv == WarnInv /\ [WarnNext]_warnVars => WarnInv'
<1> SUFFICES ASSUME WarnInv, [WarnNext]_warnVars
             PROVE  WarnInv'
  OBVIOUS
<1>1. CASE UNCHANGED warnVars
  BY <1>1 DEF warnVars, WarnInv, WarnTypeOK, WarnedInv, SendingInv
<1>2. ASSUME NEW g \in Grantee, GrantAges(g)
      PROVE  WarnInv'
  BY <1>2 DEF GrantAges, WarnInv, WarnTypeOK, WarnedInv, SendingInv
<1>3. ASSUME NEW w \in Warner, FindExpiringPayees(w)
      PROVE  WarnInv'
  BY <1>3 DEF FindExpiringPayees, Expiring, WarnInv, WarnTypeOK, WarnedInv, SendingInv
<1> QED BY <1>1, <1>2, <1>3, WarningClaimKeepsInv, SendKeepsInv, StopKeepsInv DEF WarnNext, WarnStep

LEMMA WarnInductive == WarnSpec => []WarnInv
BY WarnInitially, WarnStepKeepsInv, PTL DEF WarnSpec

---------------------------------------------------------------------------
(* The warnings: theorems *)

\* Types; a pass warns about a payee that it and no other has claimed
\* (grant-expiry-warning.ts), and one that was not accepted is not tried again.
THEOREM WarningTypes == WarnSpec => []WarnTypeOK
<1>1. WarnInv => WarnTypeOK
  BY DEF WarnInv
<1> QED BY <1>1, WarnInductive, PTL

\* Where a payee's warning is in the outbox.
box == [g \in Grantee |-> CASE warned[g] > 1 -> "twice"
                            [] warned[g] = 1 -> "sent"
                            [] OTHER -> IF g \in claimed THEN "claimed" ELSE "due"]

LEMMA WarnStepRefines == WarnInv /\ [WarnNext]_warnVars => [Warnings!OutboxNext]_box
<1> SUFFICES ASSUME WarnInv, [WarnNext]_warnVars
             PROVE  [Warnings!OutboxNext]_box
  OBVIOUS
<1> USE DEF WarnInv, WarnTypeOK, WarnedInv, SendingInv, box
<1>1. \A g \in Grantee : box[g] = IF warned[g] = 1 THEN "sent"
                                  ELSE IF g \in claimed THEN "claimed" ELSE "due"
  OBVIOUS
<1>2. \A g \in Grantee : box'[g] = IF warned'[g] = 1 THEN "sent"
                                   ELSE IF g \in claimed' THEN "claimed" ELSE "due"
  BY WarnStepKeepsInv
<1>3. CASE UNCHANGED <<warned, claimed>>
  BY <1>3
<1>4. ASSUME NEW w \in Warner, ClaimWarning(w)
      PROVE  [Warnings!OutboxNext]_box
  <2>1. PICK g \in Grantee :
          warned' = warned /\ claimed' = IF Unwarned(g) THEN claimed \union {g} ELSE claimed
    BY <1>4 DEF ClaimWarning
  <2>2. CASE Unwarned(g)
    <3>0. warned[g] = 0 /\ box[g] = "due"
      BY <1>1, <2>2 DEF Unwarned
    <3>1. box[g] = "due" /\ box' = [box EXCEPT ![g] = "claimed"]
      <4>1. \A h \in Grantee : box'[h] = [box EXCEPT ![g] = "claimed"][h]
        BY <1>1, <1>2, <2>1, <2>2, <3>0
      <4> QED BY <3>0, <4>1
    <3>2. Warnings!Claim(g)
      BY <3>1 DEF Warnings!Claim
    <3> QED BY <3>2 DEF Warnings!OutboxNext
  <2> QED BY <1>3, <2>1, <2>2
<1>5. ASSUME NEW w \in Warner, SendWarning(w)
      PROVE  [Warnings!OutboxNext]_box
  <2>1. PICK g \in sending[w] : sending[w] = {g} /\ g \in claimed /\ warned[g] = 0
    BY <1>5 DEF SendWarning
  <2>2. CASE UNCHANGED warned
    BY <1>3, <1>5, <2>2 DEF SendWarning, ClaimsAfterFailure
  <2>3. CASE warned' = WarnedOnceMore(w) /\ UNCHANGED claimed
    <3>1. box[g] = "claimed" /\ box' = [box EXCEPT ![g] = "sent"]
      BY <1>1, <1>2, <2>1, <2>3 DEF WarnedOnceMore
    <3>2. Warnings!Sent(g)
      BY <3>1 DEF Warnings!Sent
    <3> QED BY <2>1, <3>2 DEF Warnings!OutboxNext
  <2> QED BY <1>5, <2>2, <2>3 DEF SendWarning, ClaimsAfterFailure
<1> QED BY <1>3, <1>4, <1>5 DEF WarnNext, WarnStep, warnVars, GrantAges, FindExpiringPayees, StopWarning

\* grant-expiry-warning.ts, "Warns once per approved payee": the warnings are
\* an outbox, however passes overlap, fail and stop.
THEOREM WarningsAreAnOutbox == WarnSpec => WarningsOnce
<1>1. WarnInit => Warnings!OutboxInit
  BY DEF WarnInit, Warnings!OutboxInit
<1>2. WarnInv /\ [WarnNext]_warnVars =>
        [Warnings!OutboxNext]_([g \in Grantee |-> CASE warned[g] > 1 -> "twice"
                              [] warned[g] = 1 -> "sent"
                              [] OTHER -> IF g \in claimed THEN "claimed" ELSE "due"])
  BY WarnStepRefines DEF box
<1> QED BY <1>1, <1>2, WarnInductive, PTL DEF WarnSpec, WarningsOnce, Warnings!OutboxSpec

---------------------------------------------------------------------------
(* The digest: inductive invariant *)

Days == {DayOf[t] : t \in Ticks}

\* Nothing is later than the clock.
ClockInv ==
  /\ accepted \in [Days -> Nat]
  /\ lastDigest # Never => lastDigest <= tick
  /\ \A e \in Event : at[e] # Never => at[e] <= tick
  /\ \A d \in Digester : digest[d].step # "idle" => digest[d].began \in 0..tick

\* A pass began on a later day than the digest it read.
BeganInv ==
  \A d \in Digester : digest[d].step # "idle" /\ digest[d].last # Never =>
    DayOf[digest[d].last] < DayOf[digest[d].began]

\* What is being sent was claimed, on a day without a digest, by one pass.
ClaimInv ==
  \A d \in Digester : digest[d].step = "send" =>
    /\ lastDigest # Never /\ DayOf[digest[d].began] <= DayOf[lastDigest]
    /\ accepted[DayOf[digest[d].began]] = 0
    /\ \A c \in Digester : digest[c].step = "send" /\ c # d =>
         DayOf[digest[c].began] # DayOf[digest[d].began]

\* Of the days after the last digest none has one.
DayInv ==
  /\ OneDigestADay
  /\ \A day \in Days : accepted[day] > 0 => lastDigest # Never /\ day <= DayOf[lastDigest]

\* What a pass has collected has all that happened before it began.
LinesInv ==
  \A d \in Digester, e \in Event :
    /\ digest[d].step \in {"claim", "send"}
    /\ KindOf[e] # "waiting" /\ at[e] # Never
    /\ at[e] < digest[d].began /\ Since(e, digest[d].last)
    => e \in digest[d].lines

DigestInv ==
  /\ DigestTypeOK /\ ClockInv /\ BeganInv /\ ClaimInv /\ DayInv
  /\ LinesInv /\ NothingBetweenDigests

---------------------------------------------------------------------------
(* The digest: every step keeps it *)

LEMMA DigestInitially == DigestInit => DigestInv
<1> SUFFICES ASSUME DigestInit PROVE DigestInv
  OBVIOUS
<1>1. /\ tick = 0 /\ lastDigest = Never /\ touched = {} /\ reported = {} /\ dropped = {}
      /\ \A e \in Event : at[e] = Never
      /\ \A d \in Digester : digest[d].step = "idle"
      /\ accepted = [day \in Days |-> 0]
  BY DEF DigestInit, NoDigest, Days
<1>2. NoDigest \in DigestState /\ 0 \in Ticks
  BY DigestAssumption DEF NoDigest, DigestState, Ticks
<1>3. DigestTypeOK
  BY <1>1, <1>2 DEF DigestInit, DigestTypeOK, Ticks
<1>4. ClockInv /\ BeganInv /\ ClaimInv /\ LinesInv /\ NothingBetweenDigests
  BY <1>1 DEF ClockInv, BeganInv, ClaimInv, LinesInv, NothingBetweenDigests
<1>5. DayInv
  BY <1>1 DEF DayInv, OneDigestADay
<1> QED BY <1>3, <1>4, <1>5 DEF DigestInv

\* The clock, and what happens: a pass that has begun began before it.
LEMMA TimePasses ==
  ASSUME DigestInv, DigestTick \/ \E e \in Event : Happen(e) \/ Touch(e)
  PROVE  DigestInv'
<1> USE DEF DigestInv, DigestTypeOK, ClockInv, Ticks
<1>1. UNCHANGED <<lastDigest, digest, accepted, reported, dropped>>
  BY DEF DigestTick, Happen, Touch
<1>2. tick' \in 0..LastTick /\ tick <= tick'
  BY DigestAssumption DEF DigestTick, Happen, Touch
<1>3. at' \in [Event -> Ticks \union {Never}] /\ touched' \subseteq Event
  BY DEF DigestTick, Happen, Touch
<1>4. \A e \in Event : at'[e] = at[e] \/ (at[e] = Never /\ at'[e] = tick)
  BY DEF DigestTick, Happen, Touch
<1>5. DigestTypeOK'
  BY <1>1, <1>2, <1>3
<1>6. ClockInv'
  BY <1>1, <1>2, <1>4, DigestAssumption DEF Days, DigestState
<1>7. BeganInv' /\ ClaimInv' /\ DayInv'
  BY <1>1 DEF BeganInv, ClaimInv, DayInv, OneDigestADay
<1>8. LinesInv'
  <2> SUFFICES ASSUME NEW d \in Digester, NEW e \in Event,
                      digest[d].step \in {"claim", "send"},
                      KindOf[e] # "waiting", at'[e] # Never,
                      at'[e] < digest[d].began, Since(e, digest[d].last)'
               PROVE  e \in digest[d].lines
    BY <1>1 DEF LinesInv
  <2>1. digest[d].began \in Nat /\ digest[d].began <= tick /\ tick \in Nat
    BY DigestAssumption
  <2>2. at'[e] = at[e]
    BY <1>4, <2>1
  <2> QED BY <1>1, <2>2 DEF LinesInv, Since
<1>9. NothingBetweenDigests'
  <2> SUFFICES ASSUME NEW e \in Event, KindOf[e] # "waiting",
                      at'[e] # Never, lastDigest # Never, at'[e] < lastDigest
               PROVE  Handled(e)'
    BY <1>1 DEF NothingBetweenDigests
  <2>1. lastDigest \in Nat /\ lastDigest <= tick /\ tick \in Nat
    BY DigestAssumption
  <2>2. at'[e] = at[e]
    BY <1>4, <2>1
  <2> QED BY <1>1, <2>2 DEF NothingBetweenDigests, Handled
<1> QED BY <1>5, <1>6, <1>7, <1>8, <1>9

LEMMA BeginKeepsInv ==
  ASSUME DigestInv, NEW d \in Digester, SendDailyDigest(d)
  PROVE  DigestInv'
<1> USE DEF DigestInv, DigestTypeOK, ClockInv, Ticks
<1>1. UNCHANGED <<tick, at, touched, lastDigest, accepted, reported, dropped>>
  BY DEF SendDailyDigest
<1>2. digest[d].step = "idle"
  BY DEF SendDailyDigest
<1> DEFINE new == [NoDigest EXCEPT !.step = "collect", !.began = tick, !.last = lastDigest]
<1>3. new.step = "collect" /\ new.began = tick /\ new.last = lastDigest /\ new.lines = {}
  BY DEF NoDigest
<1>4. new \in DigestState
  BY DEF NoDigest, DigestState
<1>5. digest' = [digest EXCEPT ![d] = new]
  BY DEF SendDailyDigest
<1> HIDE DEF new
<1>6. digest' \in [Digester -> DigestState]
  BY <1>4, <1>5
<1>7. \A c \in Digester : digest'[c] = IF c = d THEN new ELSE digest[c]
  BY <1>5
<1>8. lastDigest # Never => DayOf[lastDigest] < DayOf[tick]
  <2> SUFFICES ASSUME lastDigest # Never PROVE DayOf[lastDigest] < DayOf[tick]
    OBVIOUS
  <2>1. DayOf[lastDigest] # DayOf[tick]
    BY DEF SendDailyDigest
  <2>2. lastDigest \in Ticks /\ tick \in Ticks /\ lastDigest <= tick
    OBVIOUS
  <2>3. /\ DayOf[lastDigest] \in Nat /\ DayOf[tick] \in Nat
        /\ DayOf[lastDigest] <= DayOf[tick]
    BY <2>2, DayAssumption
  <2> QED BY <2>1, <2>3
<1>9. DigestTypeOK'
  BY <1>1, <1>6
<1>10. ClockInv'
  <2>1. \A c \in Digester : digest'[c].step # "idle" => digest'[c].began \in 0..tick
    BY <1>3, <1>7, DigestAssumption
  <2> QED BY <1>1, <2>1 DEF Days
<1>11. BeganInv'
  BY <1>1, <1>3, <1>7, <1>8 DEF BeganInv
<1>12. DayInv' /\ LinesInv'
  BY <1>1, <1>3, <1>7 DEF DayInv, OneDigestADay, LinesInv, Since
<1>13. ClaimInv'
  <2>1. \A c \in Digester : digest'[c].step = "send" => c # d /\ digest'[c] = digest[c]
    BY <1>3, <1>7
  <2> QED BY <1>1, <2>1 DEF ClaimInv
<1>14. NothingBetweenDigests'
  BY <1>1, <1>2, <1>3, <1>7 DEF NothingBetweenDigests, Handled
<1> QED BY <1>9, <1>10, <1>11, <1>12, <1>13, <1>14

\* What has happened before the pass began is there to be collected.
LEMMA CollectKeepsInv ==
  ASSUME DigestInv, NEW d \in Digester, Collect(d)
  PROVE  DigestInv'
<1> USE DEF DigestInv, DigestTypeOK, ClockInv, Ticks
<1>1. UNCHANGED <<tick, at, touched, lastDigest, accepted, reported, dropped>>
  BY DEF Collect
<1>2. digest[d].step = "collect"
  BY DEF Collect
<1> DEFINE lines == {e \in Event : at[e] # Never /\ Listable(e) /\ Since(e, digest[d].last)}
<1> DEFINE new == [digest[d] EXCEPT !.step = "claim", !.lines = lines]
<1>3. digest' = [digest EXCEPT ![d] = new]
  BY DEF Collect
<1>4. lines \subseteq Event /\ digest[d] \in DigestState
  BY DEF lines
<1> HIDE DEF lines
<1>5. /\ new.step = "claim" /\ new.lines = lines
       /\ new.began = digest[d].began /\ new.last = digest[d].last
  BY <1>4 DEF DigestState
<1>6. new \in DigestState
  BY <1>4 DEF DigestState
<1> HIDE DEF new
<1>7. digest' \in [Digester -> DigestState]
  BY <1>3, <1>6
<1>8. \A c \in Digester : digest'[c] = IF c = d THEN new ELSE digest[c]
  BY <1>3
<1>9. DigestTypeOK'
  BY <1>1, <1>7
<1>10. ClockInv'
  <2>1. \A c \in Digester : digest'[c].step # "idle" => digest'[c].began \in 0..tick
    BY <1>2, <1>5, <1>8
  <2> QED BY <1>1, <2>1 DEF Days
<1>11. BeganInv' /\ DayInv'
  BY <1>1, <1>2, <1>5, <1>8 DEF BeganInv, DayInv, OneDigestADay
<1>12. ClaimInv'
  <2>1. \A c \in Digester : digest'[c].step = "send" => c # d /\ digest'[c] = digest[c]
    BY <1>5, <1>8
  <2> QED BY <1>1, <2>1 DEF ClaimInv
<1>13. LinesInv'
  <2>1. \A e \in Event : KindOf[e] # "waiting" /\ at[e] # Never /\ Since(e, digest[d].last)
                          => e \in lines
    BY DEF lines, Listable
  <2> SUFFICES ASSUME NEW c \in Digester, NEW e \in Event,
                      digest'[c].step \in {"claim", "send"},
                      KindOf[e] # "waiting", at[e] # Never,
                      at[e] < digest'[c].began, Since(e, digest'[c].last)
               PROVE  e \in digest'[c].lines
    BY <1>1 DEF LinesInv, Since
  <2>2. CASE c = d
    BY <1>5, <1>8, <2>1, <2>2
  <2>3. CASE c # d
    BY <1>8, <2>3 DEF LinesInv
  <2> QED BY <2>2, <2>3
<1>14. NothingBetweenDigests'
  BY <1>1, <1>2, <1>5, <1>8 DEF NothingBetweenDigests, Handled
<1> QED BY <1>9, <1>10, <1>11, <1>12, <1>13, <1>14

\* The claim is made on a later day than the last one, and with it goes what
\* has happened since.
LEMMA DigestClaimKeepsInv ==
  ASSUME DigestInv, NEW d \in Digester, ClaimDigest(d), StillLast(d)
  PROVE  DigestInv'
<1> USE DEF DigestInv, DigestTypeOK, ClockInv, Ticks
<1>1. UNCHANGED <<tick, at, touched, accepted, reported, dropped>>
  BY DEF ClaimDigest
<1>2. digest[d].step = "claim" /\ lastDigest = digest[d].last /\ lastDigest' = digest[d].began
  BY DEF ClaimDigest, StillLast, ClaimedTime
<1>3. \A c \in Digester : digest'[c] =
        IF c = d THEN [step |-> "send", began |-> digest[d].began, last |-> digest[d].last,
                       lines |-> digest[d].lines]
        ELSE digest[c]
  BY DEF ClaimDigest, DigestState
<1>4. digest' \in [Digester -> DigestState]
  BY DEF ClaimDigest, DigestState
<1>5. digest[d].began \in 0..tick /\ digest[d].began \in Ticks /\ digest[d].began # Never
  BY <1>2, DigestAssumption
<1>6. DigestTypeOK' /\ ClockInv'
  BY <1>1, <1>2, <1>3, <1>4, <1>5 DEF Days
<1>7. BeganInv'
  BY <1>2, <1>3 DEF BeganInv
<1>8. lastDigest # Never => DayOf[lastDigest] < DayOf[digest[d].began]
  BY <1>2 DEF BeganInv
<1>9. DayOf[digest[d].began] \in Days /\ \A day \in Days : day \in Nat
  BY <1>5, DayAssumption DEF Days
<1>10. accepted[DayOf[digest[d].began]] = 0
  BY <1>8, <1>9, DayAssumption DEF DayInv
<1>11. DayInv'
  BY <1>1, <1>2, <1>5, <1>8, <1>9, DayAssumption DEF DayInv, OneDigestADay
<1>12. ClaimInv'
  <2>1. \A c \in Digester \ {d} : digest[c].step = "send" =>
          /\ lastDigest # Never
          /\ DayOf[digest[c].began] < DayOf[digest[d].began]
          /\ accepted[DayOf[digest[c].began]] = 0
    <3> SUFFICES ASSUME NEW c \in Digester \ {d}, digest[c].step = "send"
                 PROVE  /\ lastDigest # Never
                        /\ DayOf[digest[c].began] < DayOf[digest[d].began]
                        /\ accepted[DayOf[digest[c].began]] = 0
      OBVIOUS
    <3>1. /\ lastDigest # Never /\ DayOf[digest[c].began] <= DayOf[lastDigest]
          /\ accepted[DayOf[digest[c].began]] = 0
      BY DEF ClaimInv
    <3>2. digest[c].began \in Ticks
      BY DigestAssumption
    <3> QED BY <1>5, <1>8, <3>1, <3>2, DayAssumption
  <2>2. \A c \in Digester \ {d} : digest[c].step = "send" => digest[c].began \in Ticks
    BY DigestAssumption
  <2> SUFFICES ASSUME NEW c \in Digester, digest'[c].step = "send"
               PROVE  /\ lastDigest' # Never /\ DayOf[digest'[c].began] <= DayOf[lastDigest']
                      /\ accepted'[DayOf[digest'[c].began]] = 0
                      /\ \A b \in Digester : digest'[b].step = "send" /\ b # c =>
                           DayOf[digest'[b].began] # DayOf[digest'[c].began]
    BY DEF ClaimInv
  <2>3. CASE c = d
    BY <1>1, <1>2, <1>3, <1>5, <1>9, <1>10, <2>1, <2>2, <2>3, DayAssumption
  <2>4. CASE c # d
    BY <1>1, <1>2, <1>3, <1>5, <2>1, <2>2, <2>4, DayAssumption DEF ClaimInv
  <2> QED BY <2>3, <2>4
<1>13. LinesInv'
  BY <1>1, <1>2, <1>3 DEF LinesInv, Since
<1>14. NothingBetweenDigests'
  <2> SUFFICES ASSUME NEW e \in Event, KindOf[e] # "waiting",
                      at[e] # Never, at[e] < digest[d].began
               PROVE  Handled(e)'
    BY <1>1, <1>2 DEF NothingBetweenDigests
  <2>1. CASE Since(e, digest[d].last)
    <3>1. e \in digest[d].lines
      BY <1>2, <2>1 DEF LinesInv
    <3> QED BY <1>3, <3>1 DEF Handled
  <2>2. CASE ~Since(e, digest[d].last)
    <3>1. lastDigest # Never /\ at[e] < lastDigest
      BY <1>2, <2>2, DigestAssumption DEF Since
    <3>2. Handled(e)
      BY <3>1 DEF NothingBetweenDigests
    <3> QED BY <1>1, <1>2, <1>3, <3>2 DEF Handled
  <2> QED BY <2>1, <2>2
<1> QED BY <1>6, <1>7, <1>11, <1>12, <1>13, <1>14

\* A pass ends: its digest was sent, was lost, or was never claimed.
LEMMA EndKeepsInv ==
  ASSUME DigestInv, NEW d \in Digester,
         \/ SendDigest(d) \/ FailDigest(d)
         \/ ClaimDigest(d) /\ ~StillLast(d)
  PROVE  DigestInv'
<1> USE DEF DigestInv, DigestTypeOK, ClockInv, Ticks
<1>1. UNCHANGED <<tick, at, touched, lastDigest>>
  BY DEF SendDigest, FailDigest, ClaimDigest
<1>2. digest' = [digest EXCEPT ![d] = NoDigest]
  BY DEF SendDigest, FailDigest, ClaimDigest
<1>3. /\ \A c \in Digester : digest'[c] = IF c = d THEN NoDigest ELSE digest[c]
      /\ NoDigest.step = "idle" /\ NoDigest \in DigestState
  BY <1>2 DEF NoDigest, DigestState
<1>4. /\ reported' \subseteq Event /\ dropped' \subseteq Event
      /\ reported \subseteq reported' /\ dropped \subseteq dropped'
      /\ digest[d].step = "send" => digest[d].lines \subseteq reported' \union dropped'
  BY DEF SendDigest, FailDigest, ClaimDigest, DigestState
<1>5. \/ accepted' = accepted
      \/ /\ digest[d].step = "send"
         /\ accepted' = [accepted EXCEPT ![DayOf[digest[d].began]] = @ + 1]
  BY DEF SendDigest, FailDigest, ClaimDigest
<1>6. digest[d].step = "send" =>
        /\ digest[d].began \in Ticks /\ DayOf[digest[d].began] \in Days
        /\ accepted[DayOf[digest[d].began]] = 0
        /\ lastDigest # Never /\ DayOf[digest[d].began] <= DayOf[lastDigest]
  BY DigestAssumption DEF Days, ClaimInv
<1>7. accepted' \in [Days -> Nat]
  BY <1>5, <1>6
<1>8. DigestTypeOK' /\ ClockInv'
  BY <1>1, <1>2, <1>3, <1>4, <1>7
<1>9. BeganInv' /\ LinesInv'
  BY <1>1, <1>3 DEF BeganInv, LinesInv, Since
<1>10. DayInv'
  BY <1>1, <1>5, <1>6, <1>7 DEF DayInv, OneDigestADay
<1>11. ClaimInv'
  <2> SUFFICES ASSUME NEW c \in Digester, c # d, digest[c].step = "send"
               PROVE  /\ lastDigest # Never /\ DayOf[digest[c].began] <= DayOf[lastDigest]
                      /\ accepted'[DayOf[digest[c].began]] = 0
                      /\ \A b \in Digester : digest'[b].step = "send" /\ b # c =>
                           DayOf[digest'[b].began] # DayOf[digest[c].began]
    BY <1>1, <1>3 DEF ClaimInv
  <2>1. accepted[DayOf[digest[c].began]] = 0 /\ lastDigest # Never
        /\ DayOf[digest[c].began] <= DayOf[lastDigest]
    BY DEF ClaimInv
  <2>2. digest[d].step = "send" => DayOf[digest[c].began] # DayOf[digest[d].began]
    BY DEF ClaimInv
  <2>3. DayOf[digest[c].began] \in Days
    BY DigestAssumption DEF Days
  <2>4. accepted'[DayOf[digest[c].began]] = 0
    BY <1>5, <2>1, <2>2, <2>3
  <2> QED BY <1>3, <2>1, <2>4 DEF ClaimInv
<1>12. NothingBetweenDigests'
  BY <1>1, <1>3, <1>4 DEF NothingBetweenDigests, Handled
<1> QED BY <1>8, <1>9, <1>10, <1>11, <1>12

LEMMA DigestStepKeepsInv == DigestInv /\ [DigestNext]_digestVars => DigestInv'
<1> SUFFICES ASSUME DigestInv, [DigestNext]_digestVars
             PROVE  DigestInv'
  OBVIOUS
<1>1. CASE UNCHANGED digestVars
  BY <1>1 DEF digestVars, DigestInv, DigestTypeOK, ClockInv, BeganInv, ClaimInv, DayInv,
              OneDigestADay, LinesInv, Since, NothingBetweenDigests, Handled
<1> QED BY <1>1, TimePasses, BeginKeepsInv, CollectKeepsInv, DigestClaimKeepsInv, EndKeepsInv
        DEF DigestNext

LEMMA DigestInductive == DigestSpec => []DigestInv
BY DigestInitially, DigestStepKeepsInv, PTL DEF DigestSpec

---------------------------------------------------------------------------
(* The digest: theorems *)

\* Types of the clock, the checkpoint and the passes of daily-digest.ts.
THEOREM DigestTypes == DigestSpec => []DigestTypeOK
<1>1. DigestInv => DigestTypeOK
  BY DEF DigestInv
<1> QED BY <1>1, DigestInductive, PTL

\* sendDailyDigest sends at most one digest a day: the claim of a pass that
\* began on a day fails once the day has one.
THEOREM OneDigest == DigestSpec => []OneDigestADay
<1>1. DigestInv => OneDigestADay
  BY DEF DigestInv, DayInv
<1> QED BY <1>1, DigestInductive, PTL

\* A payment or rejection before the last claimed digest is in a digest that
\* was sent, is being sent or failed: collect and claimDigest leave no gap.
THEOREM NothingFallsBetween == DigestSpec => []NothingBetweenDigests
<1>1. DigestInv => NothingBetweenDigests
  BY DEF DigestInv
<1> QED BY <1>1, DigestInductive, PTL

---------------------------------------------------------------------------
(* The notices together *)

\* The rows, the warnings and the digests of a behaviour of Notices are those
\* of Intake, GrantWarning and DailyDigest: none writes a variable of another.
THEOREM NoticesAreTheirParts == NoticesSpec => IntakeSpec /\ WarnSpec /\ DigestSpec
<1>1. NoticesInit => IntakeInit /\ WarnInit /\ DigestInit
  BY DEF NoticesInit
<1>2. [NoticesNext]_noticeVars => /\ [IntakeNext]_intakeVars
                                 /\ [WarnNext]_warnVars
                                 /\ [DigestNext]_digestVars
  BY DEF NoticesNext, TakesIn, Warns, Digests, noticeVars
<1> QED BY <1>1, <1>2, PTL DEF NoticesSpec, IntakeSpec, WarnSpec, DigestSpec

\* Which part moves is settled at the start.
PartInv == part \in {"rows", "warnings", "digest"}

LEMMA PartStays == NoticesSpec => []PartInv
<1>1. NoticesInit => PartInv
  BY DEF NoticesInit, PartInv
<1>2. PartInv /\ [NoticesNext]_noticeVars => PartInv'
  BY DEF PartInv, NoticesNext, TakesIn, Warns, Digests, noticeVars
<1> QED BY <1>1, <1>2, PTL DEF NoticesSpec

\* Types of all parts, of the one that moves and of those that stand.
THEOREM NoticesTypes == NoticesSpec => []NoticesTypeOK
<1>1. PartInv /\ IntakeTypeOK /\ WarnTypeOK /\ DigestTypeOK => NoticesTypeOK
  BY DEF PartInv, NoticesTypeOK
<1> QED BY <1>1, PartStays, NoticesAreTheirParts, IntakeTypes, WarningTypes, DigestTypes, PTL

\* Every safety property of the intake, the warnings and the digest holds of
\* the three together, and alerts and warnings are outboxes.
THEOREM NoticesKeepTheirWord ==
  NoticesSpec => /\ [](PaidOnceInTurn /\ OneStays /\ ReviewedNotPaid /\ StampBacked)
                 /\ [](OneDigestADay /\ NothingBetweenDigests)
                 /\ AlertsOnce /\ WarningsOnce
BY NoticesAreTheirParts, InvoiceLaunchedOnce, OneMailStays, ReviewedStaysUnpaid, StampsTellTheTruth,
   OneDigest, NothingFallsBetween, AlertsAreAnOutbox, WarningsAreAnOutbox, PTL

=============================================================================
