--------------------------- MODULE ServicesProofs ---------------------------
(***************************************************************************)
(* Gmail's sync: no mail is lost between two windows, for any mailbox, any *)
(* number of overlapping passes, any overlap of the windows and any fetch  *)
(* limit.  And what is proved of the sync and of auto-pay (AutoPayProofs)  *)
(* holds where the two run side by side.                                   *)
(***************************************************************************)
EXTENDS Services, AutoPayProofs

---------------------------------------------------------------------------
(* The sync: its inductive invariant *)

\* What the theorem says of the checkpoint's window, said of any bound: the
\* mails before it that are excused by nothing have their rows.
Covered(bound) ==
  \A l \in found : /\ sentAt[l] < bound
                   /\ l \notin late /\ l \notin cut
                   /\ sentAt[l] >= opened
                   => l \in stored

\* A mail before such a bound that is found from now on is found late.
Past(bound) == bound \in Nat /\ (bound = 0 \/ bound + Overlap <= now)

\* Nothing is later than the clock.
BoxInv ==
  /\ \A l \in found : sentAt[l] # Unset
  /\ \A l \in Letter : sentAt[l] # Unset => sentAt[l] <= now
  /\ checkpoint # Unset => checkpoint <= now
  /\ \A s \in Sync : sync[s].at # "idle" => sync[s].began <= now

\* A pass that has read the checkpoint covers what comes before its window;
\* one that has stored its mails, what comes before its own start.
PassInv ==
  \A s \in Sync :
    /\ sync[s].at \in {"fetch", "level 1"} => opened # Unset
    /\ sync[s].at = "fetch" => Past(sync[s].since) /\ Covered(sync[s].since)
    /\ sync[s].at = "level 1" => Covered(WindowFrom(sync[s].began))

CheckpointInv == checkpoint # Unset => Covered(WindowFrom(checkpoint))

SyncInv == SyncTypeOK /\ BoxInv /\ PassInv /\ CheckpointInv

---------------------------------------------------------------------------
(* The sync: its windows *)

LEMMA WindowType == ASSUME NEW t \in Nat PROVE WindowFrom(t) \in Nat /\ WindowFrom(t) <= t
BY WindowAssumption DEF WindowFrom

LEMMA WindowPast ==
  ASSUME NEW t \in Nat, now \in Nat, t <= now
  PROVE  Past(WindowFrom(t))
BY WindowAssumption DEF WindowFrom, Past

LEMMA WindowInTime == ASSUME NEW t \in Time PROVE WindowFrom(t) \in Time
BY WindowAssumption DEF WindowFrom, Time

\* The excuse of an opened window only grows.
LEMMA OpensGrows ==
  ASSUME NEW t \in Time, opened \in Time \union {Unset}
  PROVE  /\ Opens(t) \in Time /\ Opens(t) >= t
         /\ opened # Unset => Opens(t) >= opened
BY WindowAssumption DEF Opens, Time

---------------------------------------------------------------------------
(* Every step keeps it *)

LEMMA SyncInitially == SyncInit => SyncInv
<1> SUFFICES ASSUME SyncInit PROVE SyncInv
  OBVIOUS
<1>1. Idle \in SyncState /\ Idle.at = "idle" /\ Idle.began = Unset /\ Idle.since = Unset
  BY DEF SyncState, Idle
<1>2. sync \in [Sync -> SyncState] /\ \A s \in Sync : sync[s] = Idle
  BY <1>1 DEF SyncInit
<1>3. /\ now = 0 /\ 0 \in Time /\ sentAt \in [Letter -> Time \union {Unset}]
      /\ \A l \in Letter : sentAt[l] = Unset
      /\ found = {} /\ late = {} /\ cut = {} /\ stored = {}
      /\ checkpoint = Unset /\ opened = Unset
  BY WindowAssumption DEF SyncInit, Time
<1>4. SyncTypeOK
  BY <1>1, <1>2, <1>3 DEF SyncTypeOK
<1>5. BoxInv /\ PassInv /\ CheckpointInv
  BY <1>1, <1>2, <1>3 DEF BoxInv, PassInv, CheckpointInv
<1> QED BY <1>4, <1>5 DEF SyncInv

\* When a pass under way began.
LEMMA BeganInTime ==
  ASSUME SyncInv, NEW s \in Sync, sync[s].at # "idle"
  PROVE  /\ sync[s].began \in Time /\ sync[s].began \in Nat
         /\ sync[s].began # Unset /\ sync[s].began <= now
<1>1. sync[s] \in SyncState /\ sync[s].began # Unset
  BY DEF SyncInv, SyncTypeOK
<1>2. sync[s].began \in Time
  BY <1>1 DEF SyncState
<1>3. sync[s].began <= now
  BY DEF SyncInv, BoxInv
<1> QED BY <1>1, <1>2, <1>3 DEF Time

\* Time passes and mails arrive: what is found stays as it was.
LEMMA BoxKeepsInv ==
  ASSUME SyncInv, Tick \/ \E l \in Letter : Arrive(l)
  PROVE  SyncInv'
<1> USE DEF SyncInv
<1>1. UNCHANGED <<found, late, checkpoint, stored, sync, cut, opened>>
  BY DEF Tick, Arrive
<1>2. now \in Nat /\ now' \in Time /\ now' \in Nat /\ now <= now'
  BY WindowAssumption DEF SyncTypeOK, Tick, Arrive, Time
<1>3. sentAt' \in [Letter -> Time \union {Unset}]
  BY DEF SyncTypeOK, Tick, Arrive
<1>4. \A l \in Letter : sentAt'[l] = sentAt[l] \/ (sentAt[l] = Unset /\ sentAt'[l] = now)
  BY DEF SyncTypeOK, Tick, Arrive
<1>5. \A l \in found : l \in Letter /\ sentAt'[l] = sentAt[l]
  BY <1>4 DEF SyncTypeOK, BoxInv
<1>6. SyncTypeOK'
  BY <1>1, <1>2, <1>3 DEF SyncTypeOK
<1>7. BoxInv'
  <2>1. \A l \in Letter : sentAt'[l] # Unset => sentAt'[l] <= now'
    BY <1>2, <1>4, WindowAssumption DEF SyncTypeOK, BoxInv, Time
  <2>2. checkpoint # Unset => checkpoint <= now'
    BY <1>2, WindowAssumption DEF SyncTypeOK, BoxInv, Time
  <2>3. \A s \in Sync : sync[s].at # "idle" => sync[s].began <= now'
    <3> SUFFICES ASSUME NEW s \in Sync, sync[s].at # "idle" PROVE sync[s].began <= now'
      OBVIOUS
    <3>1. sync[s].began \in Nat /\ sync[s].began <= now
      BY BeganInTime
    <3> QED BY <1>2, <3>1
  <2> QED BY <1>1, <1>5, <2>1, <2>2, <2>3 DEF BoxInv
<1>8. \A b : Covered(b) => Covered(b)'
  BY <1>1, <1>5 DEF Covered
<1>9. \A b : Past(b) => Past(b)'
  BY <1>2, WindowAssumption DEF Past
<1>10. PassInv' /\ CheckpointInv'
  BY <1>1, <1>8, <1>9 DEF PassInv, CheckpointInv, WindowFrom
<1> QED BY <1>6, <1>7, <1>10

\* A mail is found: before a bound that is past it is late.
LEMMA IndexKeepsInv ==
  ASSUME SyncInv, NEW k \in Letter, Index(k)
  PROVE  SyncInv'
<1> USE DEF SyncInv
<1>1. UNCHANGED <<now, sentAt, checkpoint, stored, sync, cut, opened>>
  BY DEF Index
<1>2. /\ found' = found \union {k} /\ sentAt[k] # Unset
      /\ late' = IF now > sentAt[k] + Overlap THEN late \union {k} ELSE late
  BY DEF Index
<1>3. SyncTypeOK'
  BY <1>1, <1>2 DEF SyncTypeOK
<1>4. BoxInv'
  BY <1>1, <1>2 DEF BoxInv
<1>5. now \in Nat /\ sentAt[k] \in Nat
  BY <1>2, WindowAssumption DEF SyncTypeOK, Time
<1>6. \A b : Past(b) /\ Covered(b) => Covered(b)'
  <2> SUFFICES ASSUME NEW b, Past(b), Covered(b),
                      NEW l \in found', sentAt[l] < b, l \notin late', l \notin cut,
                      sentAt[l] >= opened
               PROVE  l \in stored
    BY <1>1 DEF Covered
  <2>1. CASE l \in found
    BY <1>2, <2>1 DEF Covered
  <2>2. CASE l = k
    <3>1. b \in Nat /\ b + Overlap <= now
      BY <1>5, <2>2 DEF Past
    <3>2. now > sentAt[k] + Overlap
      BY <1>5, <3>1, <2>2, WindowAssumption
    <3> QED BY <1>2, <3>2, <2>2
  <2> QED BY <1>2, <2>1, <2>2
<1>7. \A b : Past(b) => Past(b)'
  BY <1>1 DEF Past
<1>8. \A s \in Sync : sync[s].at = "level 1" => Past(WindowFrom(sync[s].began))
  <2> SUFFICES ASSUME NEW s \in Sync, sync[s].at = "level 1"
               PROVE  Past(WindowFrom(sync[s].began))
    OBVIOUS
  <2>1. sync[s].began \in Nat /\ sync[s].began <= now
    BY BeganInTime
  <2> QED BY <1>5, <2>1, WindowPast
<1>9. checkpoint # Unset => Past(WindowFrom(checkpoint))
  <2> SUFFICES ASSUME checkpoint # Unset PROVE Past(WindowFrom(checkpoint))
    OBVIOUS
  <2>1. checkpoint \in Nat /\ checkpoint <= now
    BY WindowAssumption DEF SyncTypeOK, BoxInv, Time
  <2> QED BY <1>5, <2>1, WindowPast
<1>10. PassInv' /\ CheckpointInv'
  BY <1>1, <1>6, <1>7, <1>8, <1>9 DEF PassInv, CheckpointInv, WindowFrom
<1> QED BY <1>3, <1>4, <1>10

\* The two steps after which no call is due: a pass begins, or it fails.
LEMMA EdgeKeepsInv ==
  ASSUME SyncInv, NEW s \in Sync, BeginSync(s) \/ FailSync(s)
  PROVE  SyncInv'
<1> USE DEF SyncInv
<1>1. UNCHANGED <<now, sentAt, found, late, checkpoint, stored, cut, opened>>
  BY DEF BeginSync, FailSync, boxVars
<1> DEFINE new == [Idle EXCEPT !.at = "load", !.began = now]
<1>2. /\ new \in SyncState /\ new.at = "load" /\ new.began = now /\ new.since = Unset
      /\ Idle \in SyncState /\ Idle.at = "idle" /\ Idle.began = Unset /\ Idle.since = Unset
  BY DEF SyncTypeOK, SyncState, Idle
<1>3. \/ sync' = [sync EXCEPT ![s] = new]
      \/ sync' = [sync EXCEPT ![s] = Idle]
  BY DEF BeginSync, FailSync
<1> HIDE DEF new
<1>4. /\ sync' \in [Sync -> SyncState]
      /\ \A r \in Sync : IF r = s THEN sync'[r] = new \/ sync'[r] = Idle ELSE sync'[r] = sync[r]
  BY <1>2, <1>3 DEF SyncTypeOK
<1>5. SyncTypeOK'
  <2>1. now # Unset
    BY WindowAssumption DEF SyncTypeOK, Time
  <2>2. \A r \in Sync : /\ sync'[r].at # "idle" <=> sync'[r].began # Unset
                        /\ sync'[r].at = "fetch" <=> sync'[r].since # Unset
    BY <1>2, <1>4, <2>1 DEF SyncTypeOK
  <2> QED BY <1>1, <1>4, <2>2 DEF SyncTypeOK
<1>6. BoxInv'
  <2>1. \A r \in Sync : sync'[r].at # "idle" => sync'[r].began <= now
    BY <1>2, <1>4, WindowAssumption DEF BoxInv, SyncTypeOK, Time
  <2> QED BY <1>1, <2>1 DEF BoxInv
<1>7. \A r \in Sync : sync'[r].at \in {"fetch", "level 1"} => sync'[r] = sync[r]
  BY <1>2, <1>4
<1>8. PassInv' /\ CheckpointInv'
  BY <1>1, <1>7 DEF PassInv, CheckpointInv, Covered, Past, WindowFrom
<1> QED BY <1>5, <1>6, <1>8

\* A window that counts from the clock excuses what comes before it.
LEMMA OpenedCovers ==
  ASSUME SyncInv, NEW t \in Time, opened' = Opens(t),
         UNCHANGED <<sentAt, found, late, stored, cut>>
  PROVE  /\ opened' \in Time /\ opened' # Unset
         /\ Covered(t)'
         /\ opened # Unset => \A b : Covered(b) => Covered(b)'
<1>1. /\ opened' \in Nat /\ opened' >= t /\ t \in Nat /\ opened' \in Time
      /\ opened # Unset => opened \in Nat /\ opened' >= opened
  BY OpensGrows, WindowAssumption DEF SyncInv, SyncTypeOK, Time
<1>2. \A l \in found : sentAt[l] \in Nat
  BY WindowAssumption DEF SyncInv, SyncTypeOK, BoxInv, Time
<1>3. t' = t
  OBVIOUS
<1>4. Covered(t)'
  BY <1>1, <1>2 DEF Covered
<1>5. ASSUME opened # Unset, NEW b, Covered(b) PROVE Covered(b)'
  BY <1>1, <1>2, <1>5 DEF Covered
<1> QED BY <1>1, <1>4, <1>5, WindowAssumption

\* loadCheckpoint
LEMMA LoadKeepsInv ==
  ASSUME SyncInv, NEW s \in Sync, LoadCheckpoint(s)
  PROVE  SyncInv'
<1> USE DEF SyncInv
<1>1. UNCHANGED <<now, sentAt, found, late, checkpoint, stored, cut>> /\ sync[s].at = "load"
  BY DEF LoadCheckpoint, boxVars
<1> DEFINE since == IF checkpoint = Unset THEN WindowFrom(now) ELSE WindowFrom(checkpoint)
           new == [sync[s] EXCEPT !.at = "fetch", !.since = since]
<1>2. sync' = [sync EXCEPT ![s] = new]
  BY DEF LoadCheckpoint
<1>3. /\ since \in Time /\ since \in Nat /\ since # Unset /\ Past(since)
  <2>1. now \in Nat /\ now \in Time /\ now <= now
    BY WindowAssumption DEF SyncTypeOK, Time
  <2>2. checkpoint # Unset => checkpoint \in Nat /\ checkpoint \in Time /\ checkpoint <= now
    BY WindowAssumption DEF SyncTypeOK, BoxInv, Time
  <2> QED BY <2>1, <2>2, WindowType, WindowInTime, WindowPast, WindowAssumption
<1> HIDE DEF since
<1>4. PICK t \in Time : t = since
  BY <1>3
<1>5. t \in Nat /\ t # Unset /\ Past(t)
  BY <1>3, <1>4
<1>6. sync[s] \in SyncState /\ sync[s].began # Unset
  BY <1>1 DEF SyncTypeOK
<1>7. new \in SyncState /\ new.at = "fetch" /\ new.since = t /\ new.began = sync[s].began
  BY <1>3, <1>4, <1>6 DEF SyncState
<1> HIDE DEF new
<1>8. /\ sync' \in [Sync -> SyncState]
      /\ \A r \in Sync : sync'[r] = IF r = s THEN new ELSE sync[r]
  BY <1>2, <1>7 DEF SyncTypeOK
<1>9. /\ opened' \in Time /\ opened' # Unset
      /\ Covered(t)'
      /\ opened # Unset => \A b : Covered(b) => Covered(b)'
  <2>1. CASE checkpoint = Unset
    <3>1. opened' = Opens(t)
      BY <1>4, <2>1 DEF LoadCheckpoint, since
    <3> QED BY <1>1, <3>1, OpenedCovers
  <2>2. CASE checkpoint # Unset
    <3>1. opened' = opened /\ t = WindowFrom(checkpoint)
      BY <1>4, <2>2 DEF LoadCheckpoint, since
    <3>2. \A b : Covered(b) => Covered(b)'
      BY <1>1, <3>1 DEF Covered
    <3>3. Covered(t)
      BY <3>1, <2>2 DEF CheckpointInv
    <3>4. opened \in Time /\ opened # Unset
      BY <2>2 DEF SyncTypeOK
    <3> QED BY <3>1, <3>2, <3>3, <3>4
  <2> QED BY <2>1, <2>2
<1>10. SyncTypeOK'
  <2>1. \A r \in Sync : /\ sync'[r].at # "idle" <=> sync'[r].began # Unset
                        /\ sync'[r].at = "fetch" <=> sync'[r].since # Unset
    BY <1>5, <1>6, <1>7, <1>8 DEF SyncTypeOK
  <2> QED BY <1>1, <1>8, <1>9, <2>1 DEF SyncTypeOK
<1>11. BoxInv'
  BY <1>1, <1>7, <1>8 DEF BoxInv
<1>12. PassInv'
  <2> SUFFICES ASSUME NEW r \in Sync
               PROVE  (/\ sync[r].at = "fetch" => Past(sync[r].since) /\ Covered(sync[r].since)
                       /\ sync[r].at = "level 1" => Covered(WindowFrom(sync[r].began)))'
    BY <1>9 DEF PassInv
  <2>1. CASE r = s
    <3>1. sync'[r].at = "fetch" /\ sync'[r].since = t
      BY <1>7, <1>8, <2>1
    <3> QED BY <1>1, <1>5, <1>9, <3>1 DEF Past, Covered
  <2>2. CASE r # s
    <3>1. sync'[r] = sync[r]
      BY <1>8, <2>2
    <3>2. PICK start, bound : start = sync[r].since /\ bound = WindowFrom(sync[r].began)
      OBVIOUS
    <3>3. sync[r].at = "fetch" => Past(start)' /\ Covered(start)'
      BY <1>1, <1>9, <3>2 DEF PassInv, Past
    <3>4. sync[r].at = "level 1" => Covered(bound)'
      BY <1>9, <3>2 DEF PassInv
    <3> QED BY <3>1, <3>2, <3>3, <3>4 DEF Covered, Past, WindowFrom
  <2> QED BY <2>1, <2>2
<1>13. CheckpointInv'
  BY <1>1, <1>9 DEF SyncTypeOK, CheckpointInv, WindowFrom
<1> QED BY <1>10, <1>11, <1>12, <1>13

\* The mails of the window get their rows, up to the limit of the fetch.
LEMMA FetchKeepsInv ==
  ASSUME SyncInv, NEW s \in Sync, FetchAndStore(s)
  PROVE  SyncInv'
<1> USE DEF SyncInv
<1>1. UNCHANGED <<now, sentAt, found, late, checkpoint, opened>> /\ sync[s].at = "fetch"
  BY DEF FetchAndStore, boxVars
<1> DEFINE since == sync[s].since
           new == [sync[s] EXCEPT !.at = "level 1", !.since = Unset]
<1>2. PICK A \in Answers(since) :
        /\ stored' = stored \union A
        /\ cut' = cut \union (Matches(since) \ (A \union stored))
  BY DEF FetchAndStore
<1>3. A \subseteq Matches(since) /\ Matches(since) \subseteq found
  BY DEF Answers, Matches
<1>4. sync' = [sync EXCEPT ![s] = new]
  BY DEF FetchAndStore
<1>5. sync[s] \in SyncState /\ sync[s].began # Unset
  BY <1>1 DEF SyncTypeOK
<1>6. new \in SyncState /\ new.at = "level 1" /\ new.since = Unset /\ new.began = sync[s].began
  BY <1>5 DEF SyncState
<1> HIDE DEF new
<1>7. /\ sync' \in [Sync -> SyncState]
      /\ \A r \in Sync : sync'[r] = IF r = s THEN new ELSE sync[r]
  BY <1>4, <1>6 DEF SyncTypeOK
<1>8. SyncTypeOK'
  <2>1. \A r \in Sync : /\ sync'[r].at # "idle" <=> sync'[r].began # Unset
                        /\ sync'[r].at = "fetch" <=> sync'[r].since # Unset
    BY <1>5, <1>6, <1>7 DEF SyncTypeOK
  <2>2. stored' \subseteq found /\ cut' \subseteq found
    BY <1>2, <1>3 DEF SyncTypeOK
  <2> QED BY <1>1, <1>7, <2>1, <2>2 DEF SyncTypeOK
<1>9. BoxInv'
  BY <1>1, <1>6, <1>7 DEF BoxInv
<1>10. \A b : Covered(b) => Covered(b)'
  BY <1>1, <1>2 DEF Covered
<1>11. \A b : Covered(b)'
  <2> SUFFICES ASSUME NEW b, NEW l \in found, sentAt[l] < b,
                      l \notin late, l \notin cut', sentAt[l] >= opened
               PROVE  l \in stored'
    BY <1>1 DEF Covered
  <2>1. CASE sentAt[l] >= since
    BY <1>2, <2>1 DEF Matches
  <2>2. CASE ~(sentAt[l] >= since)
    <3>1. sentAt[l] \in Nat
      BY DEF SyncTypeOK, BoxInv, Time
    <3>2. since \in Nat
      BY <1>1 DEF PassInv, Past
    <3>3. Covered(since)
      BY <1>1 DEF PassInv
    <3> QED BY <1>2, <3>1, <3>2, <3>3, <2>2 DEF Covered
  <2> QED BY <2>1, <2>2
<1>12. PassInv'
  <2> SUFFICES ASSUME NEW r \in Sync
               PROVE  (/\ sync[r].at \in {"fetch", "level 1"} => opened # Unset
                       /\ sync[r].at = "fetch" => Past(sync[r].since))'
    BY <1>11 DEF PassInv
  <2> QED BY <1>1, <1>6, <1>7 DEF PassInv, Past
<1>13. CheckpointInv'
  BY <1>11 DEF CheckpointInv
<1> QED BY <1>8, <1>9, <1>12, <1>13

\* saveCheckpoint: the start of the pass is covered.
LEMMA SaveKeepsInv ==
  ASSUME SyncInv, NEW s \in Sync, SaveCheckpoint(s)
  PROVE  SyncInv'
<1> USE DEF SyncInv
<1>1. /\ UNCHANGED <<now, sentAt, found, late, stored, cut, opened>> /\ sync[s].at = "level 1"
      /\ checkpoint' = sync[s].began
  BY DEF SaveCheckpoint, boxVars, NextCheckpoint
<1>2. Idle \in SyncState /\ Idle.at = "idle" /\ Idle.began = Unset /\ Idle.since = Unset
  BY DEF SyncState, Idle
<1>3. /\ sync' \in [Sync -> SyncState]
      /\ \A r \in Sync : sync'[r] = IF r = s THEN Idle ELSE sync[r]
  BY <1>2 DEF SaveCheckpoint, SyncTypeOK
<1>4. sync[s].began \in Time /\ sync[s].began # Unset /\ sync[s].began <= now /\ opened # Unset
  BY <1>1 DEF SyncTypeOK, SyncState, BoxInv, PassInv
<1>5. SyncTypeOK'
  BY <1>1, <1>2, <1>3, <1>4 DEF SyncTypeOK
<1>6. BoxInv'
  BY <1>1, <1>2, <1>3, <1>4 DEF BoxInv
<1>7. PassInv'
  BY <1>1, <1>2, <1>3 DEF PassInv, Covered, Past, WindowFrom
<1>8. CheckpointInv'
  BY <1>1 DEF PassInv, CheckpointInv, Covered, WindowFrom
<1> QED BY <1>5, <1>6, <1>7, <1>8

LEMMA CreateKeepsInv ==
  ASSUME SyncInv, CreateCheckpoint
  PROVE  SyncInv'
<1> USE DEF SyncInv
<1>1. /\ UNCHANGED <<now, sentAt, found, late, stored, sync, cut>> /\ checkpoint = Unset
      /\ checkpoint' = now /\ opened' = Opens(WindowFrom(now))
  BY DEF CreateCheckpoint, boxVars
<1>2. now \in Time /\ now <= now /\ WindowFrom(now) \in Time
  BY WindowInTime, WindowAssumption DEF SyncTypeOK, Time
<1>3. /\ opened' \in Time /\ opened' # Unset /\ Covered(WindowFrom(now))'
      /\ opened # Unset => \A b : Covered(b) => Covered(b)'
  BY <1>1, <1>2, OpenedCovers
<1>4. SyncTypeOK' /\ BoxInv'
  BY <1>1, <1>2, <1>3 DEF SyncTypeOK, BoxInv
<1>5. PassInv'
  BY <1>1, <1>3 DEF PassInv, Past, WindowFrom
<1>6. CheckpointInv'
  BY <1>1, <1>3 DEF CheckpointInv, WindowFrom
<1> QED BY <1>4, <1>5, <1>6

LEMMA SyncStepKeepsInv == SyncInv /\ [SyncNext]_syncVars => SyncInv'
<1> SUFFICES ASSUME SyncInv, [SyncNext]_syncVars
             PROVE  SyncInv'
  OBVIOUS
<1>1. CASE UNCHANGED syncVars
  BY <1>1 DEF syncVars, boxVars, SyncInv, SyncTypeOK, BoxInv, PassInv, CheckpointInv,
              Covered, Past, WindowFrom
<1> QED BY <1>1, BoxKeepsInv, IndexKeepsInv, EdgeKeepsInv, LoadKeepsInv, FetchKeepsInv,
           SaveKeepsInv, CreateKeepsInv DEF SyncNext, SyncStep

LEMMA SyncInductive == SyncSpec => []SyncInv
BY SyncInitially, SyncStepKeepsInv, PTL DEF SyncSpec

---------------------------------------------------------------------------
(* The sync: its theorems *)

\* Types of the mailbox, the checkpoint and the passes of sync.ts.
THEOREM SyncTypes == SyncSpec => []SyncTypeOK
<1>1. SyncInv => SyncTypeOK
  BY DEF SyncInv
<1> QED BY <1>1, SyncInductive, PTL

\* A mail that the next window of syncOnce no longer covers has its row: the
\* overlap of the windows and the checkpoint taken at the start of a pass are
\* enough, in whatever order passes save.
THEOREM NoMailIsLost == SyncSpec => []MailKept
<1>1. SyncInv => MailKept
  <2> SUFFICES ASSUME SyncInv, NEW l \in found, checkpoint # Unset,
                      sentAt[l] < WindowFrom(checkpoint),
                      l \notin late, l \notin cut, sentAt[l] >= opened
               PROVE  l \in stored
    BY DEF MailKept
  <2> QED BY DEF SyncInv, CheckpointInv, Covered
<1> QED BY <1>1, SyncInductive, PTL

---------------------------------------------------------------------------
(* The services together *)

\* The sync of a behaviour of Services is one of GmailSync, and its payments
\* are those of AutoPay: neither writes a variable of the other.
THEOREM ServicesAreBoth == ServicesSpec => SyncSpec /\ AutoPaySpec
<1>1. ServicesInit => SyncInit /\ AutoPayInit
  BY DEF ServicesInit
<1>2. [ServicesNext]_servicesVars => [SyncNext]_syncVars /\ [AutoPayNext]_autoPayVars
  BY DEF ServicesNext, Syncs, AutoPays, servicesVars
<1> QED BY <1>1, <1>2, PTL DEF ServicesSpec, SyncSpec, AutoPaySpec

\* Which part moves is settled at the start.
PartInv == part \in {"sync", "auto-pay"}

LEMMA PartStays == ServicesSpec => []PartInv
<1>1. ServicesInit => PartInv
  BY DEF ServicesInit, PartInv
<1>2. PartInv /\ [ServicesNext]_servicesVars => PartInv'
  BY DEF PartInv, ServicesNext, Syncs, AutoPays, servicesVars
<1> QED BY <1>1, <1>2, PTL DEF ServicesSpec

\* Types of both parts, of the one that moves and of the one that stands.
THEOREM ServicesTypes == ServicesSpec => []ServicesTypeOK
<1>1. PartInv /\ SyncTypeOK /\ AutoPayTypeOK => ServicesTypeOK
  BY DEF PartInv, ServicesTypeOK
<1> QED BY <1>1, PartStays, ServicesAreBoth, SyncTypes, AutoPayTypes, PTL

\* Every safety property of the sync and of auto-pay holds of the two together.
THEOREM ServicesKeepTheirWord ==
  ServicesSpec => /\ [](MailKept /\ BudgetKept /\ UnverifiedStands /\ SuspicionNamed)
                  /\ AutoPayDue /\ CheckedBeforePaid /\ CapInTurn /\ IntentsLive
BY ServicesAreBoth, NoMailIsLost, BudgetHolds, FailedChecksStand, SuspicionStaysNamed,
   AutoPayIsDue, ChecksComeFirst, CapHolds, AutoPayIntentsLive, PTL

=============================================================================
