------------------------------ MODULE GmailSync ------------------------------
(***************************************************************************)
(* Which mails reach the database at all (worker/src/sync.ts, gmail.ts,    *)
(* sync-state.ts, index.ts): a pass asks Gmail for the newest mails since  *)
(* the checkpoint less an overlap, stores them, and moves the checkpoint   *)
(* to the time at which the pass began.  The worker's polls and the app's  *)
(* "Sync now" are processes of their own and overlap.                      *)
(*                                                                         *)
(* Gmail is external: a mail has the time it was sent and can be found     *)
(* some time after that.  What a pass does with the rows is Intake's.      *)
(***************************************************************************)
EXTENDS Naturals, FiniteSets

CONSTANTS
  Letter,       \* mails of the mailbox
  Sync,         \* processes that may run a pass
  Overlap,      \* CHECKPOINT_OVERLAP_SECONDS
  Limit,        \* max_results of a fetch
  LastTime,     \* bound: the clock
  Unset         \* null

ASSUME WindowAssumption ==
  /\ Overlap \in Nat /\ Limit \in Nat \ {0} /\ LastTime \in Nat
  /\ Unset \notin Nat

VARIABLES
  now,          \* the clock
  sentAt,       \* when each mail was sent
  found,        \* the mails that Gmail's search finds
  checkpoint,   \* ingest_checkpoint: sinceEpochSeconds, Unset without the row
  stored,       \* the mails that have a row
  sync,         \* the passes
  \* history of the run
  late,         \* mails found more than the overlap after they were sent
  cut,          \* mails that matched a fetch and were over its limit
  opened        \* the latest window that counted from the clock

boxVars == <<now, sentAt, found, late>>
syncVars == <<boxVars, checkpoint, stored, sync, cut, opened>>

Time == 0..LastTime

SyncState == [at : {"idle", "load", "fetch", "level 1"},
              began : Time \union {Unset},      \* startedAt
              since : Time \union {Unset}]

Idle == [at |-> "idle", began |-> Unset, since |-> Unset]

SyncInit ==
  /\ now = 0
  /\ sentAt = [l \in Letter |-> Unset]
  /\ found = {} /\ late = {} /\ cut = {} /\ stored = {}
  /\ checkpoint = Unset /\ opened = Unset
  /\ sync = [s \in Sync |-> Idle]

---------------------------------------------------------------------------
(* Gmail *)

Tick ==
  /\ now < LastTime
  /\ now' = now + 1
  /\ UNCHANGED <<sentAt, found, late, checkpoint, stored, sync, cut, opened>>

Arrive(l) ==
  /\ sentAt[l] = Unset
  /\ sentAt' = [sentAt EXCEPT ![l] = now]
  /\ UNCHANGED <<now, found, late, checkpoint, stored, sync, cut, opened>>

\* Search and index lag behind.
Index(l) ==
  /\ sentAt[l] # Unset /\ l \notin found
  /\ found' = found \union {l}
  /\ late' = IF now > sentAt[l] + Overlap THEN late \union {l} ELSE late
  /\ UNCHANGED <<now, sentAt, checkpoint, stored, sync, cut, opened>>

Matches(since) == {l \in found : sentAt[l] >= since}

\* What a search for "after:since" may answer: the newest Limit of them.
Answers(since) ==
  {A \in SUBSET Matches(since) :
     /\ Cardinality(A) = IF Cardinality(Matches(since)) <= Limit THEN Cardinality(Matches(since))
                                                                ELSE Limit
     /\ \A l \in A, k \in Matches(since) \ A : sentAt[l] >= sentAt[k]}

---------------------------------------------------------------------------
(* A pass: syncOnce *)

\* A poll is skipped while the owner has paused them, "Sync now" is not: a
\* pass may begin at any time.
BeginSync(s) ==
  /\ sync[s].at = "idle"
  /\ sync' = [sync EXCEPT ![s] = [Idle EXCEPT !.at = "load", !.began = now]]
  /\ UNCHANGED <<boxVars, checkpoint, stored, cut, opened>>

\* (Mutation: the window begins at the checkpoint.)
WindowWithoutOverlap(start) == start

WindowFrom(start) == IF start > Overlap THEN start - Overlap ELSE 0

\* A window that counts from the clock, for there is no checkpoint.
Opens(start) == IF opened = Unset \/ opened < start THEN start ELSE opened

\* loadCheckpoint
LoadCheckpoint(s) ==
  /\ sync[s].at = "load"
  /\ IF checkpoint = Unset
     THEN /\ sync' = [sync EXCEPT ![s].at = "fetch", ![s].since = WindowFrom(now)]
          /\ opened' = Opens(WindowFrom(now))
     ELSE /\ sync' = [sync EXCEPT ![s].at = "fetch", ![s].since = WindowFrom(checkpoint)]
          /\ UNCHANGED opened
  /\ UNCHANGED <<boxVars, checkpoint, stored, cut>>

\* fetchNewGmailMessages and the createMany of ingestGmailMessages: a mail
\* that has its row is skipped.  A pass that dies in between is one that has
\* fetched nothing.
FetchAndStore(s) ==
  /\ sync[s].at = "fetch"
  /\ \E A \in Answers(sync[s].since) :
       /\ stored' = stored \union A
       /\ cut' = cut \union (Matches(sync[s].since) \ (A \union stored))
  /\ sync' = [sync EXCEPT ![s].at = "level 1", ![s].since = Unset]
  /\ UNCHANGED <<boxVars, checkpoint, opened>>

NextCheckpoint(s) == sync[s].began

\* saveCheckpoint, when Level 1 has gone through all rows.
SaveCheckpoint(s) ==
  /\ sync[s].at = "level 1"
  /\ checkpoint' = NextCheckpoint(s)
  /\ sync' = [sync EXCEPT ![s] = Idle]
  /\ UNCHANGED <<boxVars, stored, cut, opened>>

\* Gmail, the database or Level 1 throws, or the process is killed: what was
\* stored stays and the checkpoint does not move.
FailSync(s) ==
  /\ sync[s].at # "idle"
  /\ sync' = [sync EXCEPT ![s] = Idle]
  /\ UNCHANGED <<boxVars, checkpoint, stored, cut, opened>>

\* The pause button and the claim of the daily digest create the row when
\* there is none.
CreateCheckpoint ==
  /\ checkpoint = Unset
  /\ checkpoint' = now
  /\ opened' = Opens(WindowFrom(now))
  /\ UNCHANGED <<boxVars, stored, sync, cut>>

SyncStep(s) ==
  BeginSync(s) \/ LoadCheckpoint(s) \/ FetchAndStore(s)
    \/ SaveCheckpoint(s) \/ FailSync(s)

SyncNext ==
  \/ Tick \/ CreateCheckpoint
  \/ \E l \in Letter : Arrive(l) \/ Index(l)
  \/ \E s \in Sync : SyncStep(s)

SyncSpec == SyncInit /\ [][SyncNext]_syncVars

---------------------------------------------------------------------------
(* Properties *)

\* Types; a pass knows when it began, and between two steps its window.
SyncTypeOK ==
  /\ now \in Time
  /\ sentAt \in [Letter -> Time \union {Unset}]
  /\ found \subseteq Letter /\ late \subseteq found /\ cut \subseteq found /\ stored \subseteq found
  /\ checkpoint \in Time \union {Unset} /\ opened \in Time \union {Unset}
  /\ checkpoint # Unset => opened # Unset
  /\ sync \in [Sync -> SyncState]
  /\ \A s \in Sync : /\ sync[s].at # "idle" <=> sync[s].began # Unset
                     /\ sync[s].at = "fetch" <=> sync[s].since # Unset

\* Polling loses no mail (sync.ts, gmail.ts: "picked up across a couple of
\* extra ticks, not lost"): a mail that the next window will no longer cover
\* has its row, however passes overlap, fail or save out of order.  It takes
\* that Gmail finds it within the overlap, that no fetch had more than its
\* limit to return, and that no window without a checkpoint was opened later.
MailKept ==
  \A l \in found :
    /\ checkpoint # Unset
    /\ sentAt[l] < WindowFrom(checkpoint)
    /\ l \notin late /\ l \notin cut
    /\ sentAt[l] >= opened
    => l \in stored

=============================================================================
