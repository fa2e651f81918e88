---------------------------- MODULE IntakeProofs ----------------------------
(***************************************************************************)
(* Rows, alerts and payments of what is taken in, for any number of mails  *)
(* and passes, and whatever becomes of the payees meanwhile.               *)
(***************************************************************************)
EXTENDS Intake, FiniteSetTheorems, TLAPS

---------------------------------------------------------------------------
(* The inductive invariant *)

\* A pass works on rows that are stored: nothing deletes one.
TodoInv == \A c \in Pass : todo[c] \subseteq Stored

AlertStep == {"claim", "send", "take back"}
Sending(c, m) == task[c][m].step \in {"send", "take back"}

\* What is claimed and sent is one of the two alerts.
AlertTaskInv ==
  \A c \in Pass, m \in Mail : task[c][m].step \in AlertStep => AlertOf(c, m) \in Alert

\* An alert that was accepted is stamped until its sender takes it back, which
\* it does not when it knows; and what is on its way is stamped by its sender.
AlertInv ==
  /\ \A a \in Alert : copy[a] # "twice" /\ (copy[a] # "none" => stamp[a] # None)
  /\ \A c \in Pass, m \in Mail : Sending(c, m) =>
       /\ stamp[AlertOf(c, m)] = c /\ copy[AlertOf(c, m)] # "known"
       /\ task[c][m].step = "send" => copy[AlertOf(c, m)] = "none"
  /\ StampBacked

AloneInv == \A c, d \in Pass : pc[c] # "idle" /\ pc[d] # "idle" => c = d

\* What went to payment was to be paid, and is one mail.
LaunchedInv ==
  /\ \A m \in launched : m \in Fingerprints /\ row[m].decision = "auto_pay"
  /\ \A m, n \in launched : m = n

Retrying == {"clear", "cli", "cli payees", "cli history", "retry"}

\* What the pass decides, or has decided, may be a payment.
HasTask(c, m) == task[c][m].step # "none" /\ Resolves(c, m)

\* A pass knows the rows that were decided before the one it decides, decides
\* one resolving row at a time, and none that is decided or went to payment.
PassInv(c) ==
  /\ pc[c] \in Retrying => \E m \in Mail \ launched : todo[c] = {m}
  /\ pc[c] \in Retrying \ {"clear"} => todo[c] \subseteq retried
  /\ pc[c] \notin {"idle", "batch", "pending", "clear"} =>
       \A m \in todo[c] : task[c][m].step \in {"none", "judge"} => ~row[m].judged
  /\ pc[c] = "in turn" =>
       /\ \A m, n \in Mail : task[c][m].step # "none" /\ task[c][n].step # "none" => m = n
       /\ (\A m \in Mail : task[c][m].step = "none") => history[c] = Fingerprints
  /\ \A m, n \in Mail : HasTask(c, m) /\ HasTask(c, n) => m = n
  /\ \A m \in Mail : task[c][m].step = "judge" /\ Resolves(c, m) => history[c] = Fingerprints
  /\ \A m \in Mail : task[c][m].step = "pay" =>
       /\ m \in Fingerprints /\ row[m].decision = "auto_pay"
       /\ launched \subseteq {m} /\ pc[c] # "retry" /\ Resolves(c, m)

\* The first resolving mail that is decided is not dropped.
FirstInv ==
  retried = {} =>
    /\ Fingerprints # {} => \E m \in Fingerprints : row[m].decision # "ignore"
    /\ \A m \in Stored : row[m].decision = "ignore" => m \in Fingerprints

TurnInv == ~overlapped => AloneInv /\ LaunchedInv /\ FirstInv /\ \A c \in Pass : PassInv(c)

\* The owner was alerted of the mail, or has had it cleared.
Reviewed(m) == m \in retried \/ \E a \in Alert : a[1] = m /\ stamp[a] # None

\* A reviewed mail is decided, or under a retry, and so not for a pass that
\* launches; and a mail that was launched is decided, and so not for an alert.
ReviewInv ==
  ~overlapped /\ deaths = 0 =>
    /\ \A m \in Mail : Reviewed(m) =>
         \/ m \in Stored /\ row[m].judged
         \/ \E c \in Pass : pc[c] \in Retrying \ {"clear"} /\ m \in todo[c]
    /\ \A m \in launched : ~Reviewed(m)
    /\ \A c \in Pass, m \in Mail :
         /\ task[c][m].step = "pay" => ~Reviewed(m)
         /\ task[c][m].step \in AlertStep => m \notin launched
         /\ task[c][m].step \notin {"none", "judge"} => row[m].judged

IntakeInv == IntakeTypeOK /\ TodoInv /\ AlertTaskInv /\ AlertInv /\ TurnInv /\ ReviewInv

---------------------------------------------------------------------------
(* One row *)

LEMMA NewRowType == NewRow \in Row /\ NewRow # None
<1>1. NewRow \in Row
  BY DEF NewRow, Row
<1> QED BY <1>1, NoneIsNull

LEMMA StoredRow ==
  ASSUME IntakeTypeOK, NEW m \in Stored
  PROVE  m \in Mail /\ row[m] \in Row
  BY DEF IntakeTypeOK, Stored

LEMMA VerdictType ==
  ASSUME IntakeTypeOK, NEW c \in Pass, NEW m \in Mail, seen[c] \in Book
  PROVE  /\ Verdict(c, m) \in Decided /\ Resolves(c, m) \in BOOLEAN
         /\ AfterJudging(c, m) \in {"claim", "pay", "done"}
         /\ AfterJudging(c, m) = "pay" =>
              /\ Resolves(c, m) /\ history[c] \subseteq {m} /\ pc[c] # "retry"
              /\ Verdict(c, m) = "auto_pay"
         /\ AfterJudging(c, m) = "claim" => <<m, Verdict(c, m)>> \in Alert
         /\ Verdict(c, m) = "ignore" => Resolves(c, m) /\ ~(history[c] \subseteq {m})
<1>1. Is(c, m) \in Kind
  BY BookAssumption DEF Is
<1>2. history[c] \ {m} # {} <=> ~(history[c] \subseteq {m})
  OBVIOUS
<1>3. CASE Is(c, m) \in {"suspect", "tampered"}
  <2>1. Verdict(c, m) = "quarantine" /\ Alerting(c, m)
    BY <1>3 DEF Verdict, Alerting
  <2>2. AfterJudging(c, m) \in {"claim", "done"}
    BY <2>1 DEF AfterJudging
  <2> QED BY <2>1, <2>2 DEF Decided, Alert, Resolves
<1>4. CASE Is(c, m) = "unknown"
  <2>1. Verdict(c, m) = "needs_approval" /\ Alerting(c, m)
    BY <1>4 DEF Verdict, Alerting
  <2>2. AfterJudging(c, m) \in {"claim", "done"}
    BY <2>1 DEF AfterJudging
  <2> QED BY <2>1, <2>2 DEF Decided, Alert, Resolves
<1>5. CASE Is(c, m) \in {"payable", "held"}
  <2>1. Verdict(c, m) = IF history[c] \ {m} # {} THEN "ignore"
                        ELSE IF Open(c, m) THEN "auto_pay" ELSE "needs_approval"
    BY <1>5 DEF Verdict
  <2>2. ~Alerting(c, m) /\ Resolves(c, m)
    BY <1>5 DEF Alerting, Resolves, Resolving
  <2>3. AfterJudging(c, m) = IF Verdict(c, m) = "auto_pay" /\ pc[c] # "retry" THEN "pay" ELSE "done"
    BY <2>2 DEF AfterJudging
  <2>4. /\ Verdict(c, m) \in {"ignore", "auto_pay", "needs_approval"}
        /\ Verdict(c, m) = "ignore" <=> ~(history[c] \subseteq {m})
    BY <1>2, <2>1
  <2> QED BY <2>2, <2>3, <2>4 DEF Decided
<1>6. CASE Is(c, m) = "changed"
  <2>1. Verdict(c, m) = "needs_approval" /\ ~Alerting(c, m)
    BY <1>6 DEF Verdict, Alerting
  <2>2. AfterJudging(c, m) = "done"
    BY <2>1 DEF AfterJudging
  <2> QED BY <2>1, <2>2 DEF Decided, Resolves
<1> QED BY <1>1, <1>3, <1>4, <1>5, <1>6 DEF Kind, Resolving

\* What a step on a row does to the row and to the task.
RowChange(c, m, newRow, newTask) ==
  /\ row' \in [Mail -> Row \union {None}]
  /\ task' \in [Pass -> [Mail -> Task]]
  /\ row'[m] = newRow /\ row'[m] # None
  /\ task'[c][m] = newTask
  /\ \A x \in Mail \ {m} : row'[x] = row[x]
  /\ \A d \in Pass, x \in Mail : d # c \/ x # m => task'[d][x] = task[d][x]

LEMMA RowChangeRule ==
  ASSUME IntakeTypeOK, NEW c \in Pass, NEW m \in Mail, NEW newRow \in Row, NEW newTask \in Task,
         row' = [row EXCEPT ![m] = newRow],
         task' = [task EXCEPT ![c][m] = newTask]
  PROVE  RowChange(c, m, newRow, newTask)
<1>1. row \in [Mail -> Row \union {None}] /\ task \in [Pass -> [Mail -> Task]]
  BY DEF IntakeTypeOK
<1>2. newRow # None
  BY NoneIsNull
<1> QED BY <1>1, <1>2 DEF RowChange

\* The five steps, as changes of the row, the task and the alert.
Judges(c, m, newRow, newTask) ==
  /\ task[c][m].step = "judge"
  /\ newRow.judged = TRUE /\ newRow.decision = Verdict(c, m) /\ newRow.resolved = Resolves(c, m)
  /\ newTask.step = AfterJudging(c, m) /\ newTask.decision = Verdict(c, m)
  /\ UNCHANGED <<stamp, copy, launched>>

Goes(c, m, from, newTask, to) ==
  task[c][m].step = from /\ newTask.step = to /\ newTask.decision = task[c][m].decision

Claims(c, m, newTask) ==
  /\ Goes(c, m, "claim", newTask, "send")
  /\ stamp[AlertOf(c, m)] = None
  /\ stamp' = [stamp EXCEPT ![AlertOf(c, m)] = c]
  /\ UNCHANGED <<copy, launched>>

GivesUp(c, m, newTask) ==
  /\ Goes(c, m, "claim", newTask, "done") \/ Goes(c, m, "send", newTask, "take back")
  /\ UNCHANGED <<stamp, copy, launched>>

Sends(c, m, newTask) ==
  /\ \/ /\ Goes(c, m, "send", newTask, "done")
        /\ copy' = [copy EXCEPT ![AlertOf(c, m)] = Delivered(AlertOf(c, m), "known")]
     \/ /\ Goes(c, m, "send", newTask, "take back")
        /\ copy' = [copy EXCEPT ![AlertOf(c, m)] = Delivered(AlertOf(c, m), "lost")]
  /\ UNCHANGED <<stamp, launched>>

TakesBack(c, m, newTask) ==
  /\ Goes(c, m, "take back", newTask, "done")
  /\ stamp' = [stamp EXCEPT ![AlertOf(c, m)] = StampAfterFailure(c, m)]
  /\ copy' = [copy EXCEPT ![AlertOf(c, m)] = "none"]
  /\ UNCHANGED launched

Pays(c, m, newTask) ==
  /\ Goes(c, m, "pay", newTask, "done")
  /\ launched' \in {launched, launched \union {m}}
  /\ UNCHANGED <<stamp, copy>>

StepChange(c, m, newRow, newTask) ==
  /\ RowChange(c, m, newRow, newTask)
  /\ newTask.step \notin {"none", "judge"} /\ task[c][m].step # "none"
  /\ \/ Judges(c, m, newRow, newTask)
     \/ /\ newRow = row[m]
        /\ \/ Claims(c, m, newTask) \/ GivesUp(c, m, newTask) \/ Sends(c, m, newTask)
           \/ TakesBack(c, m, newTask) \/ Pays(c, m, newTask)

LEMMA RowStepChange ==
  ASSUME IntakeTypeOK, TodoInv, NEW c \in Pass, NEW m \in todo[c],
         \/ Judge(c, m) \/ ClaimAlert(c, m) \/ SendAlert(c, m) \/ TakeBackAlert(c, m) \/ Launch(c, m)
  PROVE  \E newRow \in Row, newTask \in Task : StepChange(c, m, newRow, newTask)
<1>1. m \in Mail /\ row[m] \in Row /\ task[c][m] \in Task
  BY StoredRow DEF TodoInv, IntakeTypeOK
<1>2. row \in [Mail -> Row \union {None}] /\ task \in [Pass -> [Mail -> Task]]
  BY DEF IntakeTypeOK
<1>3. CASE Judge(c, m)
  <2>0. task[c][m].step = "judge" /\ seen[c] \in Book
    BY <1>1, <1>3 DEF Judge, IntakeTypeOK, Loaded
  <2>1. PICK newRow \in Row, newTask \in Task :
          /\ newRow = [judged |-> TRUE, decision |-> Verdict(c, m), resolved |-> Resolves(c, m)]
          /\ newTask = [step |-> AfterJudging(c, m), decision |-> Verdict(c, m)]
    BY <1>1, <2>0, VerdictType DEF Row, Task, Step
  <2>2. row' = [row EXCEPT ![m] = newRow] /\ task' = [task EXCEPT ![c][m] = newTask]
    BY <1>1, <1>2, <1>3, <2>1 DEF Judge
  <2>3. RowChange(c, m, newRow, newTask)
    BY <1>1, <2>2, RowChangeRule
  <2>4. /\ newRow.judged = TRUE /\ newRow.decision = Verdict(c, m) /\ newRow.resolved = Resolves(c, m)
        /\ newTask.step = AfterJudging(c, m) /\ newTask.decision = Verdict(c, m)
    BY <2>1
  <2>5. newTask.step \notin {"none", "judge"}
    BY <1>1, <2>0, <2>4, VerdictType
  <2>6. Judges(c, m, newRow, newTask)
    BY <1>3, <2>0, <2>4 DEF Judge, Judges
  <2> QED BY <2>0, <2>3, <2>5, <2>6 DEF StepChange
<1>4. ASSUME UNCHANGED row, NEW step \in Step, task' = [task EXCEPT ![c][m].step = step]
      PROVE  \E newTask \in Task : /\ RowChange(c, m, row[m], newTask)
                                   /\ newTask.step = step /\ newTask.decision = task[c][m].decision
  <2> DEFINE stepped == [task[c][m] EXCEPT !.step = step]
  <2>1. stepped \in Task /\ stepped.step = step /\ stepped.decision = task[c][m].decision
    BY <1>1 DEF Task
  <2>2. PICK newRow \in Row, newTask \in Task :
          /\ newRow = row[m] /\ newTask = stepped
          /\ newTask.step = step /\ newTask.decision = task[c][m].decision
    BY <1>1, <2>1
  <2>3. row' = [row EXCEPT ![m] = newRow] /\ task' = [task EXCEPT ![c][m] = newTask]
    BY <1>1, <1>2, <1>4, <2>2 DEF Task
  <2> QED BY <1>1, <2>2, <2>3, RowChangeRule
<1>5. ASSUME UNCHANGED row, NEW to \in Step, task' = [task EXCEPT ![c][m].step = to],
             to \notin {"none", "judge"}, task[c][m].step # "none",
             \A newTask \in Task :
               Goes(c, m, task[c][m].step, newTask, to) =>
                 \/ Claims(c, m, newTask) \/ GivesUp(c, m, newTask) \/ Sends(c, m, newTask)
                 \/ TakesBack(c, m, newTask) \/ Pays(c, m, newTask)
      PROVE  \E newRow \in Row, newTask \in Task : StepChange(c, m, newRow, newTask)
  <2>1. PICK newTask \in Task : /\ RowChange(c, m, row[m], newTask)
                                /\ newTask.step = to /\ newTask.decision = task[c][m].decision
    BY <1>4, <1>5
  <2>2. Goes(c, m, task[c][m].step, newTask, to)
    BY <2>1 DEF Goes
  <2>3. StepChange(c, m, row[m], newTask)
    BY <1>5, <2>1, <2>2 DEF StepChange
  <2> QED BY <1>1, <2>3
<1>6. CASE ClaimAlert(c, m)
  <2>1. /\ task[c][m].step = "claim" /\ UNCHANGED <<row, copy, launched>>
        /\ \/ /\ task' = [task EXCEPT ![c][m].step = "send"] /\ stamp[AlertOf(c, m)] = None
              /\ stamp' = [stamp EXCEPT ![AlertOf(c, m)] = c]
           \/ task' = [task EXCEPT ![c][m].step = "done"] /\ UNCHANGED stamp
    BY <1>6 DEF ClaimAlert, Unclaimed
  <2>2. CASE UNCHANGED stamp /\ task' = [task EXCEPT ![c][m].step = "done"]
    BY <1>5, <2>1, <2>2 DEF GivesUp, Step
  <2>3. CASE /\ task' = [task EXCEPT ![c][m].step = "send"] /\ stamp[AlertOf(c, m)] = None
             /\ stamp' = [stamp EXCEPT ![AlertOf(c, m)] = c]
    BY <1>5, <2>1, <2>3 DEF Claims, Step
  <2> QED BY <2>1, <2>2, <2>3
<1>7. CASE SendAlert(c, m)
  <2>1. /\ task[c][m].step = "send" /\ UNCHANGED <<row, stamp, launched>>
        /\ \/ /\ copy' = [copy EXCEPT ![AlertOf(c, m)] = Delivered(AlertOf(c, m), "known")]
              /\ task' = [task EXCEPT ![c][m].step = "done"]
           \/ /\ UNCHANGED copy
              /\ task' = [task EXCEPT ![c][m].step = "take back"]
           \/ /\ copy' = [copy EXCEPT ![AlertOf(c, m)] = Delivered(AlertOf(c, m), "lost")]
              /\ task' = [task EXCEPT ![c][m].step = "take back"]
    BY <1>7 DEF SendAlert
  <2>2. CASE UNCHANGED copy /\ task' = [task EXCEPT ![c][m].step = "take back"]
    BY <1>5, <2>1, <2>2 DEF GivesUp, Step
  <2>3. CASE /\ copy' = [copy EXCEPT ![AlertOf(c, m)] = Delivered(AlertOf(c, m), "known")]
             /\ task' = [task EXCEPT ![c][m].step = "done"]
    BY <1>5, <2>1, <2>3 DEF Sends, Step
  <2>4. CASE /\ copy' = [copy EXCEPT ![AlertOf(c, m)] = Delivered(AlertOf(c, m), "lost")]
             /\ task' = [task EXCEPT ![c][m].step = "take back"]
    BY <1>5, <2>1, <2>4 DEF Sends, Step
  <2> QED BY <2>1, <2>2, <2>3, <2>4
<1>8. CASE Launch(c, m)
  BY <1>5, <1>8 DEF Launch, Pays, Step
<1>9. CASE TakeBackAlert(c, m)
  BY <1>5, <1>9 DEF TakeBackAlert, TakesBack, Step
<1> QED BY <1>3, <1>6, <1>7, <1>8, <1>9

---------------------------------------------------------------------------
(* Steps that are on no row *)

IsBookkeeping ==
  \/ UNCHANGED intakeVars \/ PayeesChange
  \/ \E c \in Pass : \/ StartPass(c) \/ Die(c)
                     \/ PassStep(c) /\ ~RowStep(c)
                     \/ \E m \in Mail : AskRetry(c, m)

\* The step is on no row, or it is one of the five on a row.
LEMMA StepKinds ==
  ASSUME [IntakeNext]_intakeVars
  PROVE  \/ IsBookkeeping
         \/ \E c \in Pass : \E m \in todo[c] :
              \/ Judge(c, m) \/ ClaimAlert(c, m) \/ SendAlert(c, m)
              \/ TakeBackAlert(c, m) \/ Launch(c, m)
<1>1. CASE \E c \in Pass : RowStep(c)
  BY <1>1 DEF RowStep
<1>2. CASE ~\E c \in Pass : RowStep(c)
  BY <1>2 DEF IntakeNext, IsBookkeeping
<1> QED BY <1>1, <1>2

\* A pass that gives itself tasks for all it has to do.
TakesAll(c) ==
  task' = [task EXCEPT ![c] = [m \in Mail |-> IF m \in todo[c] THEN [NoTask EXCEPT !.step = "judge"]
                                                               ELSE NoTask]]

\* A pass that has not come so far has no tasks.
LEMMA NoTasks ==
  ASSUME IntakeTypeOK, NEW c \in Pass, pc[c] \notin {"in turn", "together", "retry"}
  PROVE  \A m \in Mail : task[c][m].step = "none"
  BY DEF IntakeTypeOK

LEMMA TakesAllType ==
  ASSUME IntakeTypeOK, NEW c \in Pass, TakesAll(c)
  PROVE  /\ task' \in [Pass -> [Mail -> Task]]
         /\ \A m \in Mail : task'[c][m].step = IF m \in todo[c] THEN "judge" ELSE "none"
         /\ \A d \in Pass : d # c => task'[d] = task[d]
<1>1. NoTask \in Task /\ [NoTask EXCEPT !.step = "judge"] \in Task
  BY DEF NoTask, Task, Step
<1>2. NoTask.step = "none" /\ [NoTask EXCEPT !.step = "judge"].step = "judge"
  BY DEF NoTask
<1>3. task \in [Pass -> [Mail -> Task]]
  BY DEF IntakeTypeOK
<1> QED BY <1>1, <1>2, <1>3 DEF TakesAll

LEMMA ResetType ==
  ASSUME IntakeTypeOK, TodoInv, NEW c \in Pass, Reset(c)
  PROVE  /\ pc' \in [Pass -> PassAt] /\ pc'[c] = "idle"
         /\ todo' \in [Pass -> SUBSET Mail] /\ todo'[c] = {}
         /\ seen' \in [Pass -> Book \union {None}]
         /\ history' \in [Pass -> SUBSET Mail]
         /\ stamped' \in [Pass -> SUBSET Alert]
         /\ task' \in [Pass -> [Mail -> Task]]
         /\ \A m \in Mail : task'[c][m].step = "none"
         /\ \A d \in Pass : d # c => /\ pc'[d] = pc[d] /\ todo'[d] = todo[d] /\ seen'[d] = seen[d]
                                     /\ task'[d] = task[d] /\ history'[d] = history[d]
         /\ \A d \in Pass : todo'[d] \subseteq Stored
         /\ \A d \in Pass : pc'[d] \in Loaded => seen'[d] \in Book
         /\ \A d \in Pass, m \in Mail :
              task'[d][m].step # "none" => m \in todo'[d] /\ pc'[d] \in {"in turn", "together", "retry"}
<1>1. NoTask \in Task /\ NoTask.step = "none"
  BY DEF NoTask, Task, Step
<1>2. /\ pc' \in [Pass -> PassAt] /\ pc'[c] = "idle"
      /\ todo' \in [Pass -> SUBSET Mail] /\ todo'[c] = {}
      /\ seen' \in [Pass -> Book \union {None}]
      /\ history' \in [Pass -> SUBSET Mail] /\ stamped' \in [Pass -> SUBSET Alert]
      /\ \A d \in Pass : d # c => /\ pc'[d] = pc[d] /\ todo'[d] = todo[d]
                                  /\ seen'[d] = seen[d] /\ history'[d] = history[d]
  BY DEF IntakeTypeOK, Reset, PassAt
<1>3. /\ task' \in [Pass -> [Mail -> Task]]
      /\ \A m \in Mail : task'[c][m] = NoTask
      /\ \A d \in Pass : d # c => task'[d] = task[d]
  BY <1>1 DEF IntakeTypeOK, Reset
<1>4. \A d \in Pass, m \in Mail :
        task'[d][m].step # "none" => m \in todo'[d] /\ pc'[d] \in {"in turn", "together", "retry"}
  <2> SUFFICES ASSUME NEW d \in Pass, NEW m \in Mail, task'[d][m].step # "none"
               PROVE  m \in todo'[d] /\ pc'[d] \in {"in turn", "together", "retry"}
    OBVIOUS
  <2>1. d # c
    BY <1>1, <1>3
  <2> QED BY <1>2, <1>3, <2>1 DEF IntakeTypeOK
<1>5. \A d \in Pass : todo'[d] \subseteq Stored
  BY <1>2 DEF TodoInv
<1>6. \A d \in Pass : pc'[d] \in Loaded => seen'[d] \in Book
  BY <1>2 DEF IntakeTypeOK, Loaded
<1> QED BY <1>1, <1>2, <1>3, <1>4, <1>5, <1>6

\* A step of bookkeeping leaves stamps, alerts and the launch alone; it ends
\* tasks or has rows judged; and an alert on its way is abandoned or goes on.
TasksOnlyBegin ==
  \A d \in Pass, x \in Mail :
    /\ task'[d][x] = task[d][x] \/ task'[d][x].step \in {"none", "judge"}
    /\ Sending(d, x) => task'[d][x] = task[d][x] \/ AlertOf(d, x) \in abandoned'

LEMMA Bookkeeping ==
  ASSUME IntakeTypeOK, TodoInv, IsBookkeeping
  PROVE  UNCHANGED <<stamp, copy, launched>> /\ abandoned \subseteq abandoned' /\ TasksOnlyBegin
<1>0. task \in [Pass -> [Mail -> Task]] /\ todo \in [Pass -> SUBSET Mail]
  BY DEF IntakeTypeOK
<1>1. ASSUME UNCHANGED <<stamp, copy, launched, task, abandoned>>
      PROVE  UNCHANGED <<stamp, copy, launched>> /\ abandoned \subseteq abandoned' /\ TasksOnlyBegin
  BY <1>1 DEF TasksOnlyBegin
<1>2. ASSUME NEW c \in Pass, UNCHANGED <<stamp, copy, launched, abandoned>>,
             \A m \in Mail : ~Sending(c, m),
             \A d \in Pass : d # c => task'[d] = task[d],
             \A m \in Mail : task'[c][m] = task[c][m] \/ task'[c][m].step \in {"none", "judge"}
      PROVE  UNCHANGED <<stamp, copy, launched>> /\ abandoned \subseteq abandoned' /\ TasksOnlyBegin
  BY <1>2 DEF TasksOnlyBegin
<1>3. CASE UNCHANGED intakeVars
  BY <1>1, <1>3 DEF intakeVars, rowVars, passVars, logVars
<1>4. CASE PayeesChange
  BY <1>1, <1>4 DEF PayeesChange, passVars, logVars
<1>5. ASSUME NEW c \in Pass,
             \/ StartPass(c) \/ LoadPayees(c) \/ ReadBatch(c) \/ ReadBatchHistory(c)
             \/ ReadPending(c) \/ ClearRow(c) \/ \E m \in Mail : AskRetry(c, m)
      PROVE  UNCHANGED <<stamp, copy, launched, task, abandoned>>
  BY <1>5 DEF StartPass, StoreBatch, LoadPayees, ReadBatch, ReadBatchHistory, ReadPending, ClearRow,
              AskRetry, rowVars, logVars
<1>6. ASSUME NEW c \in Pass, ReadPendingHistory(c) \/ ReadRetriedHistory(c)
      PROVE  UNCHANGED <<stamp, copy, launched>> /\ abandoned \subseteq abandoned' /\ TasksOnlyBegin
  <2>1. /\ pc[c] \notin {"in turn", "together", "retry"} /\ TakesAll(c)
        /\ UNCHANGED <<stamp, copy, launched, abandoned>>
    BY <1>6 DEF ReadPendingHistory, ReadRetriedHistory, TakesAll, rowVars, logVars
  <2>2. \A m \in Mail : ~Sending(c, m)
    BY <2>1, NoTasks DEF Sending
  <2> QED BY <1>2, <2>1, <2>2, TakesAllType
<1>7. ASSUME NEW c \in Pass, FinishPass(c) \/ ReadRetried(c)
      PROVE  UNCHANGED <<stamp, copy, launched>> /\ abandoned \subseteq abandoned' /\ TasksOnlyBegin
  <2>1. UNCHANGED <<stamp, copy, launched, abandoned>> /\ (Reset(c) \/ UNCHANGED task)
    BY <1>7 DEF FinishPass, ReadRetried, rowVars, logVars
  <2>2. \A m \in Mail : task[c][m].step \in {"none", "done"}
    <3>1. CASE FinishPass(c)
      BY <3>1 DEF FinishPass, IntakeTypeOK
    <3>2. CASE ReadRetried(c)
      BY <3>2, NoTasks DEF ReadRetried
    <3> QED BY <1>7, <3>1, <3>2
  <2>3. \A m \in Mail : ~Sending(c, m)
    BY <2>2 DEF Sending
  <2>4. CASE Reset(c)
    <3>1. /\ \A m \in Mail : task'[c][m].step = "none"
          /\ \A d \in Pass : d # c => task'[d] = task[d]
      BY <2>4, ResetType
    <3> QED BY <1>2, <2>1, <2>3, <3>1
  <2>5. CASE UNCHANGED task
    BY <1>1, <2>1, <2>5
  <2> QED BY <2>1, <2>4, <2>5
<1>8. ASSUME NEW c \in Pass, Die(c)
      PROVE  UNCHANGED <<stamp, copy, launched>> /\ abandoned \subseteq abandoned' /\ TasksOnlyBegin
  <2>1. /\ Reset(c) /\ UNCHANGED <<stamp, copy, launched>>
        /\ abandoned' = abandoned \union
             {AlertOf(c, m) : m \in {n \in todo[c] : task[c][n].step \in {"send", "take back"}}}
    BY <1>8 DEF Die, rowVars
  <2>2. /\ \A m \in Mail : task'[c][m].step = "none"
        /\ \A d \in Pass : d # c => task'[d] = task[d]
    BY <2>1, ResetType
  <2>3. \A m \in Mail : Sending(c, m) => AlertOf(c, m) \in abandoned'
    BY <2>1 DEF Sending, IntakeTypeOK
  <2> QED BY <2>1, <2>2, <2>3 DEF TasksOnlyBegin
<1>9. ASSUME NEW c \in Pass, NextRow(c) \/ FinishRow(c)
      PROVE  UNCHANGED <<stamp, copy, launched>> /\ abandoned \subseteq abandoned' /\ TasksOnlyBegin
  <2>1. UNCHANGED <<stamp, copy, launched, abandoned>>
    BY <1>9 DEF NextRow, FinishRow, rowVars, logVars
  <2>2. PICK m \in todo[c] :
          \/ task[c][m].step = "none" /\ task' = [task EXCEPT ![c][m].step = "judge"]
          \/ task[c][m].step = "done" /\ task' = [task EXCEPT ![c][m] = NoTask]
    BY <1>0, <1>9 DEF NextRow, FinishRow
  <2>3. m \in Mail /\ ~Sending(c, m)
    BY <1>0, <2>2 DEF Sending
  <2>4. [task[c][m] EXCEPT !.step = "judge"].step = "judge" /\ NoTask.step = "none"
    BY <1>0, <2>3 DEF Task, NoTask
  <2>6. PICK new \in {[task[c][m] EXCEPT !.step = "judge"], NoTask} :
          task' = [task EXCEPT ![c][m] = new]
    BY <1>0, <2>2, <2>3
  <2>5. /\ task'[c][m].step \in {"none", "judge"}
        /\ \A d \in Pass, x \in Mail : d # c \/ x # m => task'[d][x] = task[d][x]
    <3>1. new.step \in {"none", "judge"}
      BY <2>4, <2>6
    <3> QED BY <1>0, <2>3, <2>6, <3>1
  <2> QED BY <2>1, <2>3, <2>5 DEF TasksOnlyBegin
<1> QED BY <1>1, <1>3, <1>4, <1>5, <1>6, <1>7, <1>8, <1>9 DEF IsBookkeeping, PassStep

---------------------------------------------------------------------------
(* Types *)

\* What a step does that changes no row.
LEMMA RowsStand ==
  ASSUME UNCHANGED row
  PROVE  Stored' = Stored /\ Unjudged' = Unjudged /\ Fingerprints' = Fingerprints
  BY DEF Stored, Unjudged, Fingerprints

LEMMA IntakeTypesHold ==
  ASSUME IntakeTypeOK, TodoInv, AlertTaskInv, [IntakeNext]_intakeVars
  PROVE  IntakeTypeOK' /\ TodoInv'
<1>1. CASE UNCHANGED intakeVars
  BY <1>1 DEF IntakeTypeOK, TodoInv, Stored, intakeVars, rowVars, passVars, logVars
<1>16. CASE PayeesChange
  BY <1>16, MailboxAssumption, RowsStand DEF PayeesChange, IntakeTypeOK, TodoInv, passVars, logVars
<1>2. ASSUME NEW c \in Pass, NEW batch \in SUBSET Mail, StoreBatch(c, batch)
      PROVE  IntakeTypeOK' /\ TodoInv'
  <2>1. /\ row' \in [Mail -> Row \union {None}] /\ Stored \subseteq Stored' /\ batch \subseteq Stored'
    BY <1>2, NewRowType DEF StoreBatch, IntakeTypeOK, Stored
  <2>2. /\ todo' \in [Pass -> SUBSET Mail] /\ pc' \in [Pass -> PassAt] /\ overlapped' \in BOOLEAN
        /\ todo'[c] = batch /\ \A d \in Pass \ {c} : todo'[d] = todo[d] /\ pc'[d] = pc[d]
        /\ pc[c] = "idle" /\ pc'[c] \notin Loaded
    BY <1>2 DEF StoreBatch, IntakeTypeOK, PassAt, Overlaps, Loaded
  <2>3. /\ \A d \in Pass, m \in Mail :
             task[d][m].step # "none" => m \in todo'[d] /\ pc'[d] \in {"in turn", "together", "retry"}
        /\ \A d \in Pass : pc'[d] \in Loaded => seen[d] \in Book
    BY <2>2 DEF IntakeTypeOK
  <2>4. TodoInv'
    BY <2>1, <2>2 DEF TodoInv
  <2> QED BY <1>2, <2>1, <2>2, <2>3, <2>4 DEF StoreBatch, IntakeTypeOK
<1>3. ASSUME NEW c \in Pass, ReadBatch(c) PROVE IntakeTypeOK' /\ TodoInv'
  <2>1. PICK rows \in SUBSET Mail : rows = todo[c] \intersect Unjudged
    BY DEF IntakeTypeOK
  <2>2. /\ pc[c] = "batch" /\ pc'[c] \in {"pending", "batch payees"} /\ pc' \in [Pass -> PassAt]
        /\ \A d \in Pass \ {c} : pc'[d] = pc[d]
        /\ todo' = [todo EXCEPT ![c] = rows] /\ stamped' \in [Pass -> SUBSET Alert]
        /\ UNCHANGED <<rowVars, seen, history, task, logVars>>
    BY <1>3, <2>1 DEF ReadBatch, IntakeTypeOK, PassAt, StampedOf
  <2>3. \A d \in Pass, m \in Mail :
          task[d][m].step # "none" => m \in todo'[d] /\ pc'[d] \in {"in turn", "together", "retry"}
    BY <2>2 DEF IntakeTypeOK
  <2>4. \A d \in Pass : pc'[d] \in Loaded => seen[d] \in Book
    BY <2>2 DEF IntakeTypeOK, Loaded
  <2>5. todo' \in [Pass -> SUBSET Mail] /\ \A d \in Pass : todo'[d] \subseteq Stored
    BY <2>1, <2>2 DEF IntakeTypeOK, TodoInv
  <2> QED BY <2>2, <2>3, <2>4, <2>5, RowsStand DEF IntakeTypeOK, TodoInv, rowVars, logVars
<1>17. ASSUME NEW c \in Pass, LoadPayees(c) PROVE IntakeTypeOK' /\ TodoInv'
  <2>1. /\ pc[c] \notin {"in turn", "together", "retry"} /\ pc' \in [Pass -> PassAt]
        /\ \A d \in Pass \ {c} : pc'[d] = pc[d] /\ seen'[d] = seen[d]
        /\ seen' \in [Pass -> Book \union {None}] /\ seen'[c] \in Book
        /\ UNCHANGED <<rowVars, todo, history, stamped, task, logVars>>
    BY <1>17 DEF LoadPayees, IntakeTypeOK, PassAt
  <2>2. \A d \in Pass, m \in Mail :
          task[d][m].step # "none" => m \in todo[d] /\ pc'[d] \in {"in turn", "together", "retry"}
    BY <2>1 DEF IntakeTypeOK
  <2>3. \A d \in Pass : pc'[d] \in Loaded => seen'[d] \in Book
    BY <2>1 DEF IntakeTypeOK
  <2> QED BY <2>1, <2>2, <2>3, RowsStand DEF IntakeTypeOK, TodoInv, rowVars, logVars
<1>4. ASSUME NEW c \in Pass, ReadBatchHistory(c) PROVE IntakeTypeOK' /\ TodoInv'
  BY <1>4 DEF ReadBatchHistory, IntakeTypeOK, PassAt, Loaded, TodoInv, Stored, Fingerprints, rowVars, logVars
<1>5. ASSUME NEW c \in Pass, NextRow(c) PROVE IntakeTypeOK' /\ TodoInv'
  <2>1. PICK m \in todo[c] : task' = [task EXCEPT ![c][m].step = "judge"]
    BY <1>5 DEF NextRow
  <2>2. /\ pc[c] = "in turn" /\ m \in Mail
        /\ UNCHANGED <<book, row, stamp, copy, launched, pc, todo, seen, history, stamped, logVars>>
    BY <1>5, <2>1 DEF NextRow, IntakeTypeOK, rowVars
  <2>3. [task[c][m] EXCEPT !.step = "judge"] \in Task
    <3>1. task[c][m] \in Task
      BY <2>2 DEF IntakeTypeOK
    <3> QED BY <3>1 DEF Task, Step
  <2>4. PICK new \in Task : task' = [task EXCEPT ![c][m] = new]
    BY <2>1, <2>2, <2>3 DEF IntakeTypeOK, Task
  <2>5. /\ task' \in [Pass -> [Mail -> Task]]
        /\ \A d \in Pass, x \in Mail : d # c \/ x # m => task'[d][x] = task[d][x]
    BY <2>2, <2>4 DEF IntakeTypeOK
  <2>6. \A d \in Pass, x \in Mail :
          task'[d][x].step # "none" => x \in todo[d] /\ pc[d] \in {"in turn", "together", "retry"}
    BY <2>1, <2>2, <2>5 DEF IntakeTypeOK
  <2> QED BY <2>2, <2>5, <2>6, RowsStand DEF IntakeTypeOK, TodoInv, logVars
<1>6. ASSUME NEW c \in Pass, FinishRow(c) PROVE IntakeTypeOK' /\ TodoInv'
  <2>1. PICK m \in todo[c] :
          /\ task' = [task EXCEPT ![c][m] = NoTask]
          /\ todo' = [todo EXCEPT ![c] = @ \ {m}]
          /\ history' = [history EXCEPT ![c] = IF todo[c] = {m} THEN {} ELSE HistoryAfterRow(c)]
          /\ seen' = [seen EXCEPT ![c] = IF todo[c] = {m} THEN None ELSE @]
          /\ pc' = [pc EXCEPT ![c] = IF todo[c] = {m} THEN "pending" ELSE "in turn"]
    BY <1>6 DEF FinishRow
  <2>2. m \in Mail /\ pc[c] = "in turn"
        /\ UNCHANGED <<book, row, stamp, copy, launched, stamped, logVars>>
    BY <1>6, <2>1 DEF FinishRow, IntakeTypeOK, rowVars
  <2>3. NoTask \in Task /\ NoTask.step = "none"
    BY DEF NoTask, Task, Step
  <2>4. /\ task' \in [Pass -> [Mail -> Task]] /\ task'[c][m] = NoTask
        /\ \A d \in Pass, x \in Mail : d # c \/ x # m => task'[d][x] = task[d][x]
    BY <2>1, <2>2, <2>3 DEF IntakeTypeOK
  <2>5. /\ todo' \in [Pass -> SUBSET Mail] /\ pc' \in [Pass -> PassAt]
        /\ history' \in [Pass -> SUBSET Mail] /\ seen' \in [Pass -> Book \union {None}]
        /\ todo'[c] = todo[c] \ {m} /\ \A d \in Pass \ {c} : todo'[d] = todo[d] /\ pc'[d] = pc[d]
        /\ pc'[c] = IF todo[c] = {m} THEN "pending" ELSE "in turn"
    BY <2>1 DEF IntakeTypeOK, PassAt, HistoryAfterRow, Fingerprints, Stored
  <2>6. \A d \in Pass, x \in Mail :
          task'[d][x].step # "none" => x \in todo'[d] /\ pc'[d] \in {"in turn", "together", "retry"}
    <3> SUFFICES ASSUME NEW d \in Pass, NEW x \in Mail, task'[d][x].step # "none"
                 PROVE  x \in todo'[d] /\ pc'[d] \in {"in turn", "together", "retry"}
      OBVIOUS
    <3>1. (d # c \/ x # m) /\ task[d][x].step # "none"
      BY <2>3, <2>4
    <3>2. x \in todo[d] /\ pc[d] \in {"in turn", "together", "retry"}
      BY <3>1 DEF IntakeTypeOK
    <3> QED BY <2>5, <3>1, <3>2
  <2>7. TodoInv'
    BY <2>2, <2>5, RowsStand DEF TodoInv
  <2>8. \A d \in Pass : pc'[d] \in Loaded => seen'[d] \in Book
    BY <2>1, <2>2, <2>5 DEF IntakeTypeOK, Loaded
  <2> QED BY <2>2, <2>4, <2>5, <2>6, <2>7, <2>8 DEF IntakeTypeOK, logVars
<1>7. ASSUME NEW c \in Pass, ReadPending(c) PROVE IntakeTypeOK' /\ TodoInv'
  <2>1. PICK rows \in SUBSET Mail : rows = Unjudged /\ rows \subseteq Stored
    BY DEF Unjudged, Stored
  <2>2. /\ pc[c] = "pending" /\ pc'[c] \in {"idle", "pending payees"} /\ pc' \in [Pass -> PassAt]
        /\ \A d \in Pass \ {c} : pc'[d] = pc[d]
        /\ todo' = [todo EXCEPT ![c] = rows] /\ stamped' \in [Pass -> SUBSET Alert]
        /\ UNCHANGED <<rowVars, seen, history, task, logVars>>
    BY <1>7, <2>1 DEF ReadPending, Pending, IntakeTypeOK, PassAt, StampedOf
  <2>3. \A d \in Pass, m \in Mail :
          task[d][m].step # "none" => m \in todo'[d] /\ pc'[d] \in {"in turn", "together", "retry"}
    BY <2>2 DEF IntakeTypeOK
  <2>4. \A d \in Pass : pc'[d] \in Loaded => seen[d] \in Book
    BY <2>2 DEF IntakeTypeOK, Loaded
  <2>5. todo' \in [Pass -> SUBSET Mail] /\ \A d \in Pass : todo'[d] \subseteq Stored
    BY <2>1, <2>2 DEF IntakeTypeOK, TodoInv
  <2> QED BY <2>2, <2>3, <2>4, <2>5, RowsStand DEF IntakeTypeOK, TodoInv, rowVars, logVars
<1>8. ASSUME NEW c \in Pass, ReadPendingHistory(c) \/ ReadRetriedHistory(c)
      PROVE IntakeTypeOK' /\ TodoInv'
  <2>1. /\ pc[c] \in {"pending history", "cli history"} /\ pc'[c] \in {"together", "retry"}
        /\ \A d \in Pass \ {c} : pc'[d] = pc[d]
        /\ pc' \in [Pass -> PassAt] /\ history' \in [Pass -> SUBSET Mail] /\ TakesAll(c)
        /\ overlapped' \in BOOLEAN
        /\ UNCHANGED <<rowVars, todo, seen, stamped, retried, abandoned, deaths>>
    <3>1. CASE ReadPendingHistory(c)
      BY <3>1 DEF ReadPendingHistory, TakesAll, IntakeTypeOK, PassAt, Stored, Fingerprints
    <3>2. CASE ReadRetriedHistory(c)
      BY <3>2 DEF ReadRetriedHistory, TakesAll, IntakeTypeOK, PassAt, Stored, Fingerprints, logVars
    <3> QED BY <1>8, <3>1, <3>2
  <2>2. /\ task' \in [Pass -> [Mail -> Task]]
        /\ \A m \in Mail : task'[c][m].step = IF m \in todo[c] THEN "judge" ELSE "none"
        /\ \A d \in Pass : d # c => task'[d] = task[d]
    BY <2>1, TakesAllType
  <2>3. \A d \in Pass, m \in Mail :
          task'[d][m].step # "none" => m \in todo[d] /\ pc'[d] \in {"in turn", "together", "retry"}
    BY <2>1, <2>2 DEF IntakeTypeOK
  <2>4. \A d \in Pass : pc'[d] \in Loaded => seen[d] \in Book
    BY <2>1 DEF IntakeTypeOK, Loaded
  <2> QED BY <2>1, <2>2, <2>3, <2>4, RowsStand DEF IntakeTypeOK, TodoInv, rowVars
<1>9. ASSUME NEW c \in Pass, FinishPass(c) PROVE IntakeTypeOK' /\ TodoInv'
  <2>1. Reset(c) /\ UNCHANGED <<rowVars, logVars>>
    BY <1>9 DEF FinishPass
  <2> QED BY <2>1, ResetType, RowsStand DEF IntakeTypeOK, TodoInv, rowVars, logVars
<1>10. ASSUME NEW c \in Pass, ClearRow(c) PROVE IntakeTypeOK' /\ TodoInv'
  <2>1. row' \in [Mail -> Row \union {None}] /\ Stored \subseteq Stored'
    BY <1>10, NewRowType DEF ClearRow, IntakeTypeOK, Stored
  <2>2. /\ pc[c] = "clear" /\ pc'[c] = "cli" /\ pc' \in [Pass -> PassAt]
        /\ \A d \in Pass \ {c} : pc'[d] = pc[d]
        /\ retried' \subseteq Mail
    BY <1>10 DEF ClearRow, IntakeTypeOK, PassAt
  <2>3. \A d \in Pass, m \in Mail :
          task[d][m].step # "none" => m \in todo[d] /\ pc'[d] \in {"in turn", "together", "retry"}
    BY <2>2 DEF IntakeTypeOK
  <2>4. \A d \in Pass : pc'[d] \in Loaded => seen[d] \in Book
    BY <2>2 DEF IntakeTypeOK, Loaded
  <2> QED BY <1>10, <2>1, <2>2, <2>3, <2>4 DEF ClearRow, IntakeTypeOK, TodoInv
<1>11. ASSUME NEW c \in Pass, ReadRetried(c) PROVE IntakeTypeOK' /\ TodoInv'
  <2>3. UNCHANGED <<rowVars, logVars>> /\ pc[c] = "cli"
    BY <1>11 DEF ReadRetried
  <2>1. CASE Reset(c)
    BY <2>1, <2>3, ResetType, RowsStand DEF IntakeTypeOK, TodoInv, rowVars, logVars
  <2>2. CASE ~Reset(c)
    <3>1. /\ stamped' = [stamped EXCEPT ![c] = StampedOf(todo[c])]
          /\ pc' = [pc EXCEPT ![c] = "cli payees"]
          /\ UNCHANGED <<todo, seen, history, task>>
      BY <1>11, <2>2 DEF ReadRetried
    <3>2. stamped' \in [Pass -> SUBSET Alert] /\ pc' \in [Pass -> PassAt]
      BY <3>1 DEF IntakeTypeOK, PassAt, StampedOf
    <3>3. \A d \in Pass, x \in Mail :
            task[d][x].step # "none" => x \in todo[d] /\ pc'[d] \in {"in turn", "together", "retry"}
      BY <2>3, <3>1 DEF IntakeTypeOK
    <3>4. \A d \in Pass : pc'[d] \in Loaded => seen[d] \in Book
      BY <2>3, <3>1 DEF IntakeTypeOK, Loaded
    <3> QED BY <2>3, <3>1, <3>2, <3>3, <3>4, RowsStand DEF IntakeTypeOK, TodoInv, rowVars, logVars
  <2> QED BY <2>1, <2>2
<1>13. ASSUME NEW c \in Pass, RowStep(c) PROVE IntakeTypeOK' /\ TodoInv'
  <2>1. PICK m \in todo[c] : \/ Judge(c, m) \/ ClaimAlert(c, m) \/ SendAlert(c, m)
                             \/ TakeBackAlert(c, m) \/ Launch(c, m)
    BY <1>13 DEF RowStep
  <2>2. m \in Mail /\ UNCHANGED <<book, pc, todo, seen, history, stamped, logVars>>
    BY <2>1 DEF Judge, ClaimAlert, SendAlert, TakeBackAlert, Launch, IntakeTypeOK
  <2>3. PICK newRow \in Row, newTask \in Task : StepChange(c, m, newRow, newTask)
    BY <2>1, RowStepChange
  <2>4. RowChange(c, m, newRow, newTask) /\ task[c][m].step # "none"
    BY <2>3 DEF StepChange
  <2>5. stamp' \in [Alert -> Pass \union {None}] /\ copy' \in [Alert -> Copy] /\ launched' \subseteq Mail
    <3>1. stamp \in [Alert -> Pass \union {None}] /\ copy \in [Alert -> Copy] /\ launched \subseteq Mail
      BY DEF IntakeTypeOK
    <3>2. task[c][m].step \in AlertStep => StampAfterFailure(c, m) \in Pass \union {None}
      BY <2>2, <3>1 DEF AlertTaskInv, StampAfterFailure
    <3>3. Delivered(AlertOf(c, m), "known") \in Copy /\ Delivered(AlertOf(c, m), "lost") \in Copy
      BY DEF Delivered, Copy
    <3>4. stamp' \in [Alert -> Pass \union {None}] /\ launched' \subseteq Mail
      BY <2>2, <2>3, <3>1, <3>2 DEF StepChange, Judges, Claims, GivesUp, Sends, TakesBack, Pays,
                                    Goes, AlertStep
    <3>5. \/ UNCHANGED copy
          \/ \E value \in Copy : copy' = [copy EXCEPT ![AlertOf(c, m)] = value]
      <4>1. "none" \in Copy
        BY DEF Copy
      <4> QED BY <2>3, <3>3, <4>1 DEF StepChange, Judges, Claims, GivesUp, Sends, TakesBack, Pays
    <3>6. copy' \in [Alert -> Copy]
      BY <3>1, <3>5
    <3> QED BY <3>4, <3>6
  <2>6. /\ row' \in [Mail -> Row \union {None}] /\ Stored \subseteq Stored'
        /\ task' \in [Pass -> [Mail -> Task]]
        /\ \A d \in Pass, x \in Mail : task'[d][x].step # "none" => task[d][x].step # "none"
    BY <2>4 DEF RowChange, Stored
  <2> QED BY <2>2, <2>5, <2>6 DEF IntakeTypeOK, TodoInv, logVars
<1>14. ASSUME NEW c \in Pass, NEW m \in Mail, AskRetry(c, m) PROVE IntakeTypeOK' /\ TodoInv'
  <2>1. /\ pc[c] = "idle" /\ pc'[c] = "clear" /\ pc' \in [Pass -> PassAt]
        /\ \A d \in Pass \ {c} : pc'[d] = pc[d] /\ todo'[d] = todo[d]
        /\ todo' \in [Pass -> SUBSET Mail] /\ todo'[c] = {m} /\ m \in Stored
        /\ overlapped' \in BOOLEAN
        /\ UNCHANGED <<rowVars, seen, history, stamped, task, retried, abandoned, deaths>>
    BY <1>14 DEF AskRetry, IntakeTypeOK, PassAt, Stored, Overlaps
  <2>2. \A d \in Pass, x \in Mail :
          task[d][x].step # "none" => x \in todo'[d] /\ pc'[d] \in {"in turn", "together", "retry"}
    BY <2>1 DEF IntakeTypeOK
  <2>3. \A d \in Pass : pc'[d] \in Loaded => seen[d] \in Book
    BY <2>1 DEF IntakeTypeOK, Loaded
  <2>4. UNCHANGED <<book, row, stamp, copy, launched>> /\ Stored' = Stored
    BY <2>1, RowsStand DEF rowVars
  <2>5. TodoInv'
    BY <2>1, <2>4 DEF TodoInv
  <2> QED BY <2>1, <2>2, <2>3, <2>4, <2>5 DEF IntakeTypeOK
<1>15. ASSUME NEW c \in Pass, Die(c) PROVE IntakeTypeOK' /\ TodoInv'
  <2>1. deaths' \in 0..MaxDeaths
    <3>1. deaths \in 0..MaxDeaths /\ deaths < MaxDeaths /\ deaths' = deaths + 1
      BY <1>15 DEF Die, IntakeTypeOK
    <3> QED BY <3>1, PassAssumption
  <2>2. Reset(c) /\ UNCHANGED <<rowVars, overlapped, retried>>
    BY <1>15 DEF Die
  <2>3. abandoned' \subseteq Alert
    <3>1. \A n \in todo[c] : task[c][n].step \in {"send", "take back"} => AlertOf(c, n) \in Alert
      BY DEF AlertTaskInv, AlertStep, IntakeTypeOK
    <3>2. {AlertOf(c, n) : n \in {x \in todo[c] : task[c][x].step \in {"send", "take back"}}}
            \subseteq Alert
      BY <3>1
    <3>3. abandoned' = abandoned \union
            {AlertOf(c, n) : n \in {x \in todo[c] : task[c][x].step \in {"send", "take back"}}}
      BY <1>15 DEF Die
    <3> QED BY <3>2, <3>3 DEF IntakeTypeOK
  <2> QED BY <2>1, <2>2, <2>3, ResetType, RowsStand DEF IntakeTypeOK, TodoInv, rowVars
<1>18. ASSUME NEW c \in Pass, StartPass(c) PROVE IntakeTypeOK' /\ TodoInv'
  <2>1. PICK batch \in Mailbox[book] : StoreBatch(c, batch)
    BY <1>18 DEF StartPass
  <2>2. batch \in SUBSET Mail
    BY MailboxAssumption DEF IntakeTypeOK
  <2> QED BY <1>2, <2>1, <2>2
<1> QED BY <1>1, <1>3, <1>4, <1>5, <1>6, <1>7, <1>8, <1>9, <1>10, <1>11, <1>13, <1>14, <1>15,
           <1>16, <1>17, <1>18 DEF IntakeNext, PassStep

---------------------------------------------------------------------------
(* Alerts *)

LEMMA AlertTasksKept ==
  ASSUME IntakeTypeOK, TodoInv, AlertTaskInv, [IntakeNext]_intakeVars
  PROVE  AlertTaskInv'
<1>1. CASE IsBookkeeping
  <2>1. TasksOnlyBegin
    BY <1>1, Bookkeeping
  <2> QED BY <2>1 DEF TasksOnlyBegin, AlertTaskInv, AlertStep, AlertOf
<1>2. ASSUME NEW c \in Pass, NEW m \in todo[c],
             \/ Judge(c, m) \/ ClaimAlert(c, m) \/ SendAlert(c, m) \/ TakeBackAlert(c, m) \/ Launch(c, m)
      PROVE  AlertTaskInv'
  <2>1. PICK newRow \in Row, newTask \in Task : StepChange(c, m, newRow, newTask)
    BY <1>2, RowStepChange
  <2>2. /\ task'[c][m] = newTask /\ m \in Mail
        /\ \A d \in Pass, x \in Mail : d # c \/ x # m => task'[d][x] = task[d][x]
    BY <2>1 DEF StepChange, RowChange, IntakeTypeOK
  <2>3. newTask.step \in AlertStep => <<m, newTask.decision>> \in Alert
    <3>1. CASE Judges(c, m, newRow, newTask)
      <4>1. task[c][m].step = "judge" /\ seen[c] \in Book
        BY <2>2, <3>1 DEF Judges, IntakeTypeOK, Loaded
      <4> QED BY <2>2, <3>1, <4>1, VerdictType DEF Judges, AlertStep
    <3>2. CASE ~Judges(c, m, newRow, newTask)
      <4>1. newTask.step \in AlertStep =>
              newTask.decision = task[c][m].decision /\ task[c][m].step \in AlertStep
        BY <2>1, <3>2 DEF StepChange, Claims, GivesUp, Sends, TakesBack, Pays, Goes, AlertStep
      <4> QED BY <2>2, <4>1 DEF AlertTaskInv, AlertOf
    <3> QED BY <3>1, <3>2
  <2>4. SUFFICES ASSUME NEW d \in Pass, NEW x \in Mail, task'[d][x].step \in AlertStep
                 PROVE  <<x, task'[d][x].decision>> \in Alert
    BY DEF AlertTaskInv, AlertOf
  <2>5. CASE d = c /\ x = m
    BY <2>2, <2>3, <2>4, <2>5
  <2>6. CASE d # c \/ x # m
    BY <2>2, <2>4, <2>6 DEF AlertTaskInv, AlertOf
  <2> QED BY <2>5, <2>6
<1> QED BY <1>1, <1>2, StepKinds

\* A step that leaves stamps and alerts alone: an alert that was on its way is,
\* or is abandoned.
LEMMA AlertsStand ==
  ASSUME AlertInv, UNCHANGED <<stamp, copy>>, abandoned \subseteq abandoned',
         \A c \in Pass, m \in Mail : Sending(c, m)' => task'[c][m] = task[c][m],
         \A c \in Pass, m \in Mail :
           Sending(c, m) => task'[c][m] = task[c][m] \/ AlertOf(c, m) \in abandoned'
  PROVE  AlertInv'
<1>1. \A c \in Pass, m \in Mail : task'[c][m] = task[c][m] =>
        (Sending(c, m)' <=> Sending(c, m)) /\ AlertOf(c, m)' = AlertOf(c, m)
  BY DEF Sending, AlertOf
<1>2. \A c \in Pass, m \in Mail : Sending(c, m)' =>
        /\ stamp'[AlertOf(c, m)'] = c /\ copy'[AlertOf(c, m)'] # "known"
        /\ task'[c][m].step = "send" => copy'[AlertOf(c, m)'] = "none"
  BY <1>1 DEF AlertInv
<1>3. StampBacked'
  <2> SUFFICES ASSUME NEW a \in Alert, stamp'[a] # None
               PROVE  \/ copy'[a] = "known" \/ a \in abandoned'
                      \/ \E c \in Pass, m \in Mail :
                           Sending(c, m)' /\ AlertOf(c, m)' = a /\ stamp'[a] = c
    BY DEF StampBacked, Sending
  <2>1. \/ copy[a] = "known" \/ a \in abandoned
        \/ \E c \in Pass, m \in Mail : Sending(c, m) /\ AlertOf(c, m) = a /\ stamp[a] = c
    BY DEF AlertInv, StampBacked, Sending
  <2> QED BY <1>1, <2>1
<1> QED BY <1>2, <1>3 DEF AlertInv

\* Two tasks that send the same alert are one: the stamp tells who sends it.
LEMMA OneSender ==
  ASSUME AlertInv, NEW c \in Pass, NEW m \in Mail, NEW d \in Pass, NEW x \in Mail,
         Sending(c, m), Sending(d, x), AlertOf(c, m) = AlertOf(d, x)
  PROVE  d = c /\ x = m
<1>1. stamp[AlertOf(c, m)] = c /\ stamp[AlertOf(d, x)] = d
  BY DEF AlertInv
<1>2. m = x
  BY DEF AlertOf
<1> QED BY <1>1, <1>2

\* A step on a row: claiming stamps the alert, one that is known to be accepted
\* keeps its stamp, and that of any other is its sender's to take back.
LEMMA RowStepKeepsAlerts ==
  ASSUME IntakeTypeOK, TodoInv, AlertTaskInv, AlertInv, NEW c \in Pass, NEW m \in todo[c],
         NEW newRow \in Row, NEW newTask \in Task, StepChange(c, m, newRow, newTask),
         UNCHANGED abandoned
  PROVE  AlertInv'
<1>1. m \in Mail
  BY DEF IntakeTypeOK
<1>2. /\ task'[c][m] = newTask
      /\ \A d \in Pass, x \in Mail : d # c \/ x # m => task'[d][x] = task[d][x]
  BY DEF StepChange, RowChange
<1>3. \A d \in Pass, x \in Mail : d # c \/ x # m =>
        (Sending(d, x)' <=> Sending(d, x)) /\ AlertOf(d, x)' = AlertOf(d, x)
  BY <1>2 DEF Sending, AlertOf
<1>4. stamp \in [Alert -> Pass \union {None}] /\ copy \in [Alert -> Copy]
  BY DEF IntakeTypeOK
<1>5. CASE Judges(c, m, newRow, newTask) \/ Pays(c, m, newTask)
  <2>1. ~Sending(c, m) /\ ~Sending(c, m)' /\ UNCHANGED <<stamp, copy>>
    <3>1. CASE Pays(c, m, newTask)
      BY <1>2, <3>1 DEF Pays, Goes, Sending
    <3>2. CASE Judges(c, m, newRow, newTask)
      <4>1. task[c][m].step = "judge" /\ seen[c] \in Book
        BY <1>1, <3>2 DEF Judges, IntakeTypeOK, Loaded
      <4> QED BY <1>1, <1>2, <3>2, <4>1, VerdictType DEF Judges, Sending
    <3> QED BY <1>5, <3>1, <3>2
  <2>2. \A d \in Pass, x \in Mail : /\ Sending(d, x)' => task'[d][x] = task[d][x]
                                    /\ Sending(d, x) => task'[d][x] = task[d][x]
    BY <1>2, <1>3, <2>1
  <2> QED BY <2>1, <2>2, AlertsStand
\* What is to be shown of a step on one alert: it is claimed, sent, or taken
\* back by c, and no other task is on it.
<1>6. ASSUME NEW a \in Alert, a = AlertOf(c, m), newTask.decision = task[c][m].decision,
             \A d \in Pass, x \in Mail : Sending(d, x) /\ AlertOf(d, x) = a => d = c /\ x = m,
             \A b \in Alert \ {a} : stamp'[b] = stamp[b] /\ copy'[b] = copy[b],
             copy'[a] # "twice", copy'[a] # "none" => stamp'[a] # None,
             newTask.step \in {"send", "take back"} =>
               /\ stamp'[a] = c /\ copy'[a] # "known"
               /\ newTask.step = "send" => copy'[a] = "none",
             stamp'[a] # None => copy'[a] = "known" \/ newTask.step \in {"send", "take back"}
      PROVE  AlertInv'
  <2>1. AlertOf(c, m)' = a /\ (Sending(c, m)' <=> newTask.step \in {"send", "take back"})
    BY <1>2, <1>6 DEF AlertOf, Sending
  <2>2. \A d \in Pass, x \in Mail : Sending(d, x) => AlertOf(d, x) \in Alert
    BY DEF Sending, AlertTaskInv, AlertStep
  <2>3. \A b \in Alert : copy'[b] # "twice" /\ (copy'[b] # "none" => stamp'[b] # None)
    BY <1>6 DEF AlertInv
  <2>4. ASSUME NEW d \in Pass, NEW x \in Mail, Sending(d, x)'
        PROVE  /\ stamp'[AlertOf(d, x)'] = d /\ copy'[AlertOf(d, x)'] # "known"
               /\ task'[d][x].step = "send" => copy'[AlertOf(d, x)'] = "none"
    <3>1. CASE d = c /\ x = m
      BY <1>2, <1>6, <2>1, <2>4, <3>1
    <3>2. CASE d # c \/ x # m
      <4>1. /\ Sending(d, x) /\ AlertOf(d, x)' = AlertOf(d, x) /\ task'[d][x] = task[d][x]
            /\ AlertOf(d, x) \in Alert \ {a}
        BY <1>2, <1>3, <1>6, <2>2, <2>4, <3>2
      <4>2. PICK b \in Alert \ {a} : b = AlertOf(d, x)
        BY <4>1
      <4>3. /\ stamp[b] = d /\ copy[b] # "known"
            /\ task[d][x].step = "send" => copy[b] = "none"
        BY <4>1, <4>2 DEF AlertInv
      <4>4. stamp'[b] = stamp[b] /\ copy'[b] = copy[b]
        BY <1>6
      <4> QED BY <4>1, <4>2, <4>3, <4>4
    <3> QED BY <3>1, <3>2
  <2>5. StampBacked'
    <3> SUFFICES ASSUME NEW b \in Alert, stamp'[b] # None
                 PROVE  \/ copy'[b] = "known" \/ b \in abandoned'
                        \/ \E d \in Pass, x \in Mail :
                             Sending(d, x)' /\ AlertOf(d, x)' = b /\ stamp'[b] = d
      BY DEF StampBacked, Sending
    <3>1. CASE b = a
      BY <1>1, <1>6, <2>1, <3>1
    <3>2. CASE b # a
      <4>1. \/ copy[b] = "known" \/ b \in abandoned
            \/ \E d \in Pass, x \in Mail : Sending(d, x) /\ AlertOf(d, x) = b /\ stamp[b] = d
        BY <1>6, <3>2 DEF AlertInv, StampBacked, Sending
      <4> QED BY <1>3, <1>6, <3>2, <4>1
    <3> QED BY <3>1, <3>2
  <2> QED BY <2>3, <2>4, <2>5 DEF AlertInv
<1>7. CASE Claims(c, m, newTask)
  <2>1. PICK a \in Alert : a = AlertOf(c, m)
    BY <1>1, <1>7 DEF Claims, Goes, AlertTaskInv, AlertStep
  <2>2. \A d \in Pass, x \in Mail : ~(Sending(d, x) /\ AlertOf(d, x) = a)
    BY <1>7, <2>1, PassAssumption DEF Claims, AlertInv
  <2>3. /\ stamp'[a] = c /\ c # None /\ copy' = copy /\ copy[a] = "none"
        /\ \A b \in Alert \ {a} : stamp'[b] = stamp[b]
    BY <1>4, <1>7, <2>1, PassAssumption DEF Claims, AlertInv
  <2>4. newTask.step = "send" /\ newTask.decision = task[c][m].decision
    BY <1>7 DEF Claims, Goes
  <2> QED BY <1>6, <2>1, <2>2, <2>3, <2>4
<1>8. ASSUME Sending(c, m)
      PROVE  /\ AlertOf(c, m) \in Alert /\ stamp[AlertOf(c, m)] = c /\ c # None
             /\ copy[AlertOf(c, m)] \notin {"known", "twice"}
             /\ task[c][m].step = "send" => copy[AlertOf(c, m)] = "none"
             /\ \A d \in Pass, x \in Mail :
                  Sending(d, x) /\ AlertOf(d, x) = AlertOf(c, m) => d = c /\ x = m
  <2>1. AlertOf(c, m) \in Alert
    BY <1>1, <1>8 DEF Sending, AlertTaskInv, AlertStep
  <2>2. \A d \in Pass, x \in Mail :
          Sending(d, x) /\ AlertOf(d, x) = AlertOf(c, m) => d = c /\ x = m
    BY <1>1, <1>8, OneSender
  <2> QED BY <1>1, <1>8, <2>1, <2>2, PassAssumption DEF AlertInv
<1>9. CASE GivesUp(c, m, newTask)
  <2>1. CASE Goes(c, m, "claim", newTask, "done")
    <3>1. ~Sending(c, m) /\ ~Sending(c, m)'
      BY <1>2, <2>1 DEF Goes, Sending
    <3>2. \A d \in Pass, x \in Mail : /\ Sending(d, x)' => task'[d][x] = task[d][x]
                                      /\ Sending(d, x) => task'[d][x] = task[d][x]
      BY <1>2, <1>3, <3>1
    <3> QED BY <1>9, <3>2, AlertsStand DEF GivesUp
  <2>2. CASE Goes(c, m, "send", newTask, "take back")
    <3>1. Sending(c, m) /\ task[c][m].step = "send"
      BY <2>2 DEF Goes, Sending
    <3>2. newTask.step = "take back" /\ newTask.decision = task[c][m].decision
      BY <2>2 DEF Goes
    <3>3. UNCHANGED <<stamp, copy>>
      BY <1>9 DEF GivesUp
    <3> QED BY <1>6, <1>8, <3>1, <3>2, <3>3
  <2> QED BY <1>9, <2>1, <2>2 DEF GivesUp
<1>10. CASE Sends(c, m, newTask)
  <2>1. Sending(c, m) /\ task[c][m].step = "send"
    BY <1>10 DEF Sends, Goes, Sending
  <2>2. PICK a \in Alert : a = AlertOf(c, m)
    BY <1>8, <2>1
  <2>3. /\ stamp' = stamp /\ newTask.decision = task[c][m].decision
        /\ \/ newTask.step = "done" /\ copy' = [copy EXCEPT ![a] = "known"]
           \/ newTask.step = "take back" /\ copy' = [copy EXCEPT ![a] = "lost"]
    BY <1>8, <1>10, <2>1, <2>2 DEF Sends, Goes, Delivered
  <2>4. /\ \A b \in Alert \ {a} : copy'[b] = copy[b]
        /\ \/ newTask.step = "done" /\ copy'[a] = "known"
           \/ newTask.step = "take back" /\ copy'[a] = "lost"
    BY <1>4, <2>3
  <2> QED BY <1>6, <1>8, <2>1, <2>2, <2>3, <2>4
<1>11. CASE TakesBack(c, m, newTask)
  <2>1. Sending(c, m)
    BY <1>11 DEF TakesBack, Goes, Sending
  <2>2. PICK a \in Alert : a = AlertOf(c, m)
    BY <1>8, <2>1
  <2>3. /\ newTask.step = "done" /\ newTask.decision = task[c][m].decision
        /\ stamp' = [stamp EXCEPT ![a] = None] /\ copy' = [copy EXCEPT ![a] = "none"]
    BY <1>8, <1>11, <2>1, <2>2 DEF TakesBack, Goes, StampAfterFailure
  <2>4. /\ \A b \in Alert \ {a} : stamp'[b] = stamp[b] /\ copy'[b] = copy[b]
        /\ stamp'[a] = None /\ copy'[a] = "none"
    BY <1>4, <2>3
  <2> QED BY <1>6, <1>8, <2>1, <2>2, <2>3, <2>4
<1> QED BY <1>5, <1>7, <1>9, <1>10, <1>11 DEF StepChange

LEMMA AlertsKept ==
  ASSUME IntakeTypeOK, TodoInv, AlertTaskInv, AlertInv, [IntakeNext]_intakeVars
  PROVE  AlertInv'
<1>1. CASE IsBookkeeping
  <2>1. UNCHANGED <<stamp, copy>> /\ abandoned \subseteq abandoned' /\ TasksOnlyBegin
    BY <1>1, Bookkeeping
  <2>2. \A c \in Pass, m \in Mail :
          /\ Sending(c, m)' => task'[c][m] = task[c][m]
          /\ Sending(c, m) => task'[c][m] = task[c][m] \/ AlertOf(c, m) \in abandoned'
    BY <2>1 DEF TasksOnlyBegin, Sending
  <2> QED BY <2>1, <2>2, AlertsStand
<1>2. ASSUME NEW c \in Pass, NEW m \in todo[c],
             \/ Judge(c, m) \/ ClaimAlert(c, m) \/ SendAlert(c, m) \/ TakeBackAlert(c, m) \/ Launch(c, m)
      PROVE  AlertInv'
  <2>1. PICK newRow \in Row, newTask \in Task : StepChange(c, m, newRow, newTask)
    BY <1>2, RowStepChange
  <2>2. UNCHANGED abandoned
    BY <1>2 DEF Judge, ClaimAlert, SendAlert, TakeBackAlert, Launch, logVars
  <2> QED BY <2>1, <2>2, RowStepKeepsAlerts
<1> QED BY <1>1, <1>2, StepKinds


---------------------------------------------------------------------------
(* Payments, while passes come one at a time *)

\* A pass that is idle, or has no tasks and nothing it may have forgotten.
LEMMA IdlePass ==
  ASSUME IntakeTypeOK, NEW c \in Pass, pc[c] = "idle"
  PROVE  PassInv(c)
<1>1. \A m \in Mail : task[c][m].step = "none"
  BY NoTasks
<1> QED BY <1>1 DEF PassInv, HasTask, Retrying

\* Only the pass that steps matters.
LEMMA OnePass ==
  ASSUME IntakeTypeOK, IntakeTypeOK', TurnInv, NEW c \in Pass,
         ~overlapped' => ~overlapped,
         ~overlapped' => pc[c] # "idle" \/ \A d \in Pass \ {c} : pc[d] = "idle",
         \A d \in Pass \ {c} : pc'[d] = pc[d],
         ~overlapped' => LaunchedInv' /\ FirstInv' /\ PassInv(c)'
  PROVE  TurnInv'
<1> SUFFICES ASSUME ~overlapped'
             PROVE  AloneInv' /\ LaunchedInv' /\ FirstInv' /\ \A d \in Pass : PassInv(d)'
  BY DEF TurnInv
<1>1. \A d \in Pass \ {c} : pc'[d] = "idle"
  BY DEF TurnInv, AloneInv
<1>2. AloneInv'
  BY <1>1 DEF AloneInv
<1>3. ASSUME NEW d \in Pass, d # c PROVE PassInv(d)'
  <2>1. pc'[d] = "idle"
    BY <1>1, <1>3
  <2>2. \A m \in Mail : task'[d][m].step = "none"
    BY <2>1 DEF IntakeTypeOK
  <2> QED BY <2>1, <2>2 DEF PassInv, HasTask, Retrying
<1> QED BY <1>2, <1>3

\* A step that changes no row and pays nothing.
LEMMA BookkeepingKeepsTurn ==
  ASSUME IntakeTypeOK, IntakeTypeOK', TurnInv, NEW c \in Pass,
         UNCHANGED <<row, launched, retried>>,
         ~overlapped' => ~overlapped,
         ~overlapped' => pc[c] # "idle" \/ \A d \in Pass \ {c} : pc[d] = "idle",
         \A d \in Pass \ {c} : pc'[d] = pc[d],
         ~overlapped' => PassInv(c)'
  PROVE  TurnInv'
<1>1. Fingerprints' = Fingerprints /\ Stored' = Stored
  BY RowsStand
<1>2. TurnInv /\ ~overlapped' => LaunchedInv' /\ FirstInv'
  BY <1>1 DEF TurnInv, LaunchedInv, FirstInv
<1> QED BY <1>2, OnePass

\* A pass that is through.
LEMMA ResetKeepsTurn ==
  ASSUME IntakeTypeOK, IntakeTypeOK', TodoInv, TurnInv, NEW c \in Pass, Reset(c), pc[c] # "idle",
         UNCHANGED <<row, launched, retried, overlapped>>
  PROVE  TurnInv'
<1>1. /\ pc'[c] = "idle" /\ \A m \in Mail : task'[c][m].step = "none"
      /\ \A d \in Pass \ {c} : pc'[d] = pc[d]
  BY ResetType
<1>2. PassInv(c)'
  BY <1>1 DEF PassInv, HasTask, Retrying
<1> QED BY <1>1, <1>2, BookkeepingKeepsTurn

\* A step after which the pass has no tasks yet: what is asked of its rows, and
\* of the history when it goes on to decide them in turn.
LEMMA NoTaskPass ==
  ASSUME NEW c \in Pass, \A m \in Mail : task'[c][m].step = "none",
         todo'[c] \subseteq Mail,
         pc'[c] \in Retrying => \E m \in Mail \ launched' : todo'[c] = {m},
         pc'[c] \in Retrying \ {"clear"} => todo'[c] \subseteq retried',
         pc'[c] \notin {"idle", "batch", "pending", "clear"} => \A m \in todo'[c] : ~row'[m].judged,
         pc'[c] = "in turn" => history'[c] = Fingerprints'
  PROVE  PassInv(c)'
<1>1. \A m \in Mail : ~HasTask(c, m)'
  BY DEF HasTask
<1> QED BY <1>1 DEF PassInv, Retrying

LEMMA ReadsKeepTurn ==
  ASSUME IntakeTypeOK, IntakeTypeOK', TodoInv, TurnInv, NEW c \in Pass,
         \/ LoadPayees(c) \/ ReadBatch(c) \/ ReadBatchHistory(c) \/ NextRow(c) \/ FinishRow(c)
         \/ ReadPending(c) \/ ReadPendingHistory(c) \/ ReadRetried(c) \/ ReadRetriedHistory(c)
  PROVE  TurnInv'
<1>1. UNCHANGED <<row, launched, retried>>
  BY DEF LoadPayees, ReadBatch, ReadBatchHistory, NextRow, FinishRow, ReadPending,
         ReadPendingHistory, ReadRetried, ReadRetriedHistory, rowVars, logVars
<1>2. pc[c] # "idle" /\ \A d \in Pass \ {c} : pc'[d] = pc[d]
  <2>1. CASE ReadRetried(c)
    BY <2>1 DEF ReadRetried, Reset, IntakeTypeOK
  <2>2. CASE ~ReadRetried(c)
    BY <2>2 DEF LoadPayees, ReadBatch, ReadBatchHistory, NextRow, FinishRow, ReadPending,
                ReadPendingHistory, ReadRetriedHistory, IntakeTypeOK
  <2> QED BY <2>1, <2>2
<1>3. ~overlapped' => ~overlapped
  BY DEF LoadPayees, ReadBatch, ReadBatchHistory, NextRow, FinishRow, ReadPending,
         ReadPendingHistory, ReadRetried, ReadRetriedHistory, rowVars, logVars
<1>4. Fingerprints' = Fingerprints /\ Stored' = Stored /\ todo[c] \subseteq Mail /\ todo'[c] \subseteq Mail
  BY <1>1, RowsStand DEF IntakeTypeOK
<1>5. ASSUME ~overlapped' PROVE PassInv(c)'
  <2>1. PassInv(c)
    BY <1>3, <1>5 DEF TurnInv
  <2>2. CASE ReadBatch(c)
    <3>1. /\ \A m \in Mail : task'[c][m].step = "none"
          /\ pc'[c] \in {"pending", "batch payees"} /\ todo'[c] = todo[c] \intersect Unjudged
      BY <2>2, NoTasks DEF ReadBatch, IntakeTypeOK
    <3> QED BY <1>1, <1>4, <3>1, NoTaskPass DEF Retrying, Unjudged
  <2>10. CASE LoadPayees(c)
    <3>1. /\ \A m \in Mail : task[c][m].step = "none"
          /\ UNCHANGED <<task, todo>>
          /\ \/ pc[c] = "batch payees" /\ pc'[c] = "batch history"
             \/ pc[c] = "pending payees" /\ pc'[c] = "pending history"
             \/ pc[c] = "cli payees" /\ pc'[c] = "cli history"
      BY <2>10, NoTasks DEF LoadPayees, IntakeTypeOK
    <3>2. \A m \in todo[c] : ~row[m].judged
      BY <1>4, <2>1, <3>1 DEF PassInv
    <3>3. pc[c] = "cli payees" => todo[c] \subseteq retried /\ \E m \in Mail \ launched : todo[c] = {m}
      BY <2>1 DEF PassInv, Retrying
    <3> QED BY <1>1, <1>4, <3>1, <3>2, <3>3, NoTaskPass DEF Retrying
  <2>3. CASE ReadBatchHistory(c)
    <3>1. /\ \A m \in Mail : task[c][m].step = "none" /\ task'[c][m].step = "none"
          /\ pc[c] = "batch history" /\ pc'[c] = "in turn" /\ todo'[c] = todo[c]
          /\ history'[c] = Fingerprints
      BY <2>3, NoTasks DEF ReadBatchHistory, IntakeTypeOK
    <3>2. \A m \in todo[c] : ~row[m].judged
      BY <1>4, <2>1, <3>1 DEF PassInv
    <3> QED BY <1>1, <1>4, <3>1, <3>2, NoTaskPass DEF Retrying
  <2>4. CASE NextRow(c)
    <3>1. PICK m \in todo[c] : task' = [task EXCEPT ![c][m].step = "judge"]
      BY <2>4 DEF NextRow
    <3>2. /\ \A x \in Mail : task[c][x].step = "none"
          /\ pc[c] = "in turn" /\ UNCHANGED <<pc, todo, seen, history>>
      BY <2>4 DEF NextRow
    <3>3. m \in Mail /\ task[c][m] \in Task
      <4>1. m \in Mail
        BY <1>4, <3>1
      <4>2. task \in [Pass -> [Mail -> Task]]
        BY DEF IntakeTypeOK
      <4> QED BY <4>1, <4>2
    <3>4. /\ task'[c][m] = [task[c][m] EXCEPT !.step = "judge"]
          /\ \A x \in Mail \ {m} : task'[c][x].step = "none"
      BY <3>1, <3>2, <3>3 DEF IntakeTypeOK
    <3>5. task'[c][m].step = "judge"
      BY <3>3, <3>4 DEF Task
    <3>6. history[c] = Fingerprints /\ \A x \in todo[c] : ~row[x].judged
      BY <1>4, <2>1, <3>2 DEF PassInv
    <3>7. \A x, y \in Mail : task'[c][x].step # "none" /\ task'[c][y].step # "none" => x = y
      BY <3>4
    <3>8. \A x, y \in Mail : HasTask(c, x)' /\ HasTask(c, y)' => x = y
      BY <3>7 DEF HasTask
    <3> QED BY <1>1, <1>4, <3>2, <3>4, <3>5, <3>6, <3>7, <3>8 DEF PassInv, Retrying
  <2>5. CASE FinishRow(c)
    <3>1. PICK m \in todo[c] :
            /\ task[c][m].step = "done"
            /\ task' = [task EXCEPT ![c][m] = NoTask]
            /\ todo' = [todo EXCEPT ![c] = @ \ {m}]
            /\ history' = [history EXCEPT ![c] = IF todo[c] = {m} THEN {} ELSE HistoryAfterRow(c)]
            /\ pc' = [pc EXCEPT ![c] = IF todo[c] = {m} THEN "pending" ELSE "in turn"]
      BY <2>5 DEF FinishRow
    <3>2. m \in Mail /\ pc[c] = "in turn" /\ todo[c] \subseteq Mail
      BY <2>5, <3>1 DEF FinishRow, IntakeTypeOK
    <3>3. \A x \in Mail \ {m} : task[c][x].step = "none"
      BY <2>1, <3>1, <3>2 DEF PassInv
    <3>4. /\ task'[c][m] = NoTask /\ \A x \in Mail \ {m} : task'[c][x] = task[c][x]
          /\ todo'[c] = todo[c] \ {m}
          /\ \/ pc'[c] = "pending"
             \/ pc'[c] = "in turn" /\ history'[c] = Fingerprints
      BY <3>1, <3>2 DEF IntakeTypeOK, HistoryAfterRow
    <3>5. \A x \in Mail : task'[c][x].step = "none"
      <4>1. NoTask.step = "none"
        BY DEF NoTask
      <4> QED BY <3>3, <3>4, <4>1
    <3>6. \A x \in todo'[c] : x \in Mail /\ ~row[x].judged
      BY <2>1, <3>2, <3>3, <3>4 DEF PassInv
    <3> QED BY <1>1, <1>4, <3>4, <3>5, <3>6, NoTaskPass DEF Retrying
  <2>6. CASE ReadPending(c)
    <3>1. /\ \A m \in Mail : task'[c][m].step = "none"
          /\ pc'[c] \in {"idle", "pending payees"} /\ todo'[c] = Unjudged
      BY <2>6, NoTasks DEF ReadPending, Pending, IntakeTypeOK
    <3> QED BY <1>1, <1>4, <3>1, NoTaskPass DEF Retrying, Unjudged
  <2>7. CASE ReadPendingHistory(c)
    <3> DEFINE Together == {m \in todo[c] : Resolves(c, m)}
    <3>1. /\ pc[c] = "pending history" /\ pc'[c] = "together" /\ todo'[c] = todo[c]
          /\ history'[c] = Fingerprints /\ TakesAll(c) /\ seen' = seen
          /\ ~(Cardinality(Together) > 1)
      BY <1>5, <2>7 DEF ReadPendingHistory, TakesAll, IntakeTypeOK
    <3>2. \A m \in Mail : task'[c][m].step = IF m \in todo[c] THEN "judge" ELSE "none"
      BY <3>1, TakesAllType
    <3>3. \A m, n \in Together : m = n
      <4> SUFFICES ASSUME NEW m \in Together, NEW n \in Together, m # n
                   PROVE  FALSE
        OBVIOUS
      <4> HIDE DEF Together
      <4>1. IsFiniteSet(Together) /\ {m, n} \subseteq Together
        BY <1>4, MailAssumption, FS_Subset DEF Together
      <4>2. Cardinality({m, n}) <= Cardinality(Together)
        BY <4>1, FS_Subset
      <4>3. Cardinality({m, n}) = 2
        <5>1. IsFiniteSet({m}) /\ Cardinality({m}) = 1 /\ n \notin {m} /\ {m, n} = {m} \union {n}
          BY FS_Singleton
        <5>2. Cardinality({m} \union {n}) = Cardinality({m}) + 1
          BY <5>1, FS_AddElement
        <5> QED BY <5>1, <5>2
      <4>4. Cardinality(Together) \in Nat
        BY <4>1, FS_CardinalityType
      <4>5. PICK size \in Nat : size = Cardinality(Together)
        BY <4>4
      <4>6. 2 <= size /\ ~(size > 1)
        BY <3>1, <4>2, <4>3, <4>5
      <4> QED BY <4>6
    <3>4. \A m \in todo[c] : ~row[m].judged
      <4>1. \A m \in Mail : task[c][m].step = "none"
        BY <3>1, NoTasks
      <4> QED BY <1>4, <2>1, <3>1, <4>1 DEF PassInv
    <3>5. \A m \in Mail : HasTask(c, m)' => m \in Together
      BY <3>1, <3>2 DEF HasTask, Resolves, Is
    <3>6. \A m, n \in Mail : HasTask(c, m)' /\ HasTask(c, n)' => m = n
      BY <3>3, <3>5
    <3> QED BY <1>1, <1>4, <3>1, <3>2, <3>4, <3>6 DEF PassInv, Retrying
  <2>8. CASE ReadRetried(c)
    <3>1. pc[c] = "cli"
      BY <2>8 DEF ReadRetried
    <3>2. CASE Reset(c)
      <4>1. pc'[c] = "idle" /\ \A m \in Mail : task'[c][m].step = "none"
        BY <3>2, ResetType
      <4> QED BY <1>4, <4>1, NoTaskPass DEF Retrying
    <3>3. CASE ~Reset(c)
      <4>1. /\ pc'[c] = "cli payees" /\ todo'[c] = todo[c]
            /\ \A m \in Mail : task'[c][m].step = "none" /\ task[c][m].step = "none"
        BY <2>8, <3>1, <3>3, NoTasks DEF ReadRetried, IntakeTypeOK
      <4>2. /\ \A m \in todo[c] : ~row[m].judged
            /\ todo[c] \subseteq retried /\ \E m \in Mail \ launched : todo[c] = {m}
        BY <1>4, <2>1, <3>1, <4>1 DEF PassInv, Retrying
      <4> QED BY <1>1, <1>4, <4>1, <4>2, NoTaskPass DEF Retrying
    <3> QED BY <3>2, <3>3
  <2>9. CASE ReadRetriedHistory(c)
    <3>1. /\ pc[c] = "cli history" /\ pc'[c] = "retry" /\ todo'[c] = todo[c]
          /\ history'[c] = Fingerprints /\ TakesAll(c)
      BY <2>9 DEF ReadRetriedHistory, TakesAll, IntakeTypeOK
    <3>2. \A m \in Mail : task'[c][m].step = IF m \in todo[c] THEN "judge" ELSE "none"
      BY <3>1, TakesAllType
    <3>3. /\ \A m \in todo[c] : ~row[m].judged
          /\ todo[c] \subseteq retried /\ \E m \in Mail \ launched : todo[c] = {m}
      <4>1. \A m \in Mail : task[c][m].step = "none"
        BY <3>1, NoTasks
      <4> QED BY <1>4, <2>1, <3>1, <4>1 DEF PassInv, Retrying
    <3>4. \A m, n \in Mail : HasTask(c, m)' /\ HasTask(c, n)' => m = n
      BY <3>2, <3>3 DEF HasTask
    <3> QED BY <1>1, <1>4, <3>1, <3>2, <3>3, <3>4 DEF PassInv, Retrying
  <2> QED BY <2>2, <2>3, <2>4, <2>5, <2>6, <2>7, <2>8, <2>9, <2>10
<1> QED BY <1>1, <1>2, <1>3, <1>5, BookkeepingKeepsTurn

\* A new batch: the rows that are new are not decided.
LEMMA StoreBatchRows ==
  ASSUME IntakeTypeOK, NEW c \in Pass, NEW batch \in SUBSET Mail, StoreBatch(c, batch)
  PROVE  /\ pc[c] = "idle" /\ pc'[c] \in {"pending", "batch"}
         /\ \A d \in Pass \ {c} : pc'[d] = pc[d] /\ todo'[d] = todo[d]
         /\ overlapped' = (overlapped \/ Overlaps(c))
         /\ UNCHANGED <<stamp, copy, launched, task, retried, deaths>>
         /\ Stored \subseteq Stored' /\ Stored' \subseteq Mail
         /\ \A m \in Stored : row'[m] = row[m]
         /\ \A m \in Stored' \ Stored : ~row'[m].judged /\ row'[m].decision # "ignore"
         /\ Fingerprints' = Fingerprints /\ Fingerprints \subseteq Stored
<1>1. /\ pc[c] = "idle" /\ pc'[c] \in {"pending", "batch"}
      /\ \A d \in Pass \ {c} : pc'[d] = pc[d] /\ todo'[d] = todo[d]
      /\ overlapped' = (overlapped \/ Overlaps(c))
      /\ UNCHANGED <<stamp, copy, launched, task, retried, deaths>>
  BY DEF StoreBatch, IntakeTypeOK
<1>2. \A m \in Mail : /\ m \in Stored => m \in Stored' /\ row'[m] = row[m]
                      /\ m \in Stored' \ Stored => row'[m] = NewRow
  BY NewRowType DEF StoreBatch, Stored
<1>3. NewRow.judged = FALSE /\ NewRow.decision # "ignore"
  BY NoneIsNull DEF NewRow, Decided
<1>4. Stored \subseteq Stored' /\ Stored' \subseteq Mail
  BY <1>2 DEF Stored
<1>5. \A m \in Stored' \ Stored : ~row'[m].judged /\ row'[m].decision # "ignore"
  BY <1>2, <1>3, <1>4
<1>6. Fingerprints' = Fingerprints /\ Fingerprints \subseteq Stored
  BY <1>2, <1>4, <1>5 DEF Fingerprints
<1> QED BY <1>1, <1>2, <1>4, <1>5, <1>6

LEMMA StoreBatchKeepsTurn ==
  ASSUME IntakeTypeOK, IntakeTypeOK', TurnInv, NEW c \in Pass, NEW batch \in SUBSET Mail,
         StoreBatch(c, batch)
  PROVE  TurnInv'
<1>1. /\ pc[c] = "idle" /\ pc'[c] \in {"pending", "batch"}
      /\ \A d \in Pass \ {c} : pc'[d] = pc[d]
      /\ overlapped' = (overlapped \/ Overlaps(c))
      /\ UNCHANGED <<launched, task, retried>>
      /\ Stored \subseteq Stored'
      /\ \A m \in Stored : row'[m] = row[m]
      /\ \A m \in Stored' \ Stored : ~row'[m].judged /\ row'[m].decision # "ignore"
      /\ Fingerprints' = Fingerprints /\ Fingerprints \subseteq Stored
  BY StoreBatchRows
<1>2. ASSUME ~overlapped' PROVE LaunchedInv' /\ FirstInv' /\ PassInv(c)'
  <2>1. LaunchedInv /\ FirstInv
    BY <1>1, <1>2 DEF TurnInv
  <2>2. LaunchedInv'
    BY <1>1, <2>1 DEF LaunchedInv
  <2>3. FirstInv'
    BY <1>1, <2>1 DEF FirstInv
  <2>4. \A m \in Mail : task'[c][m].step = "none"
    BY <1>1, NoTasks
  <2>5. todo'[c] \subseteq Mail
    BY DEF IntakeTypeOK
  <2>6. PassInv(c)'
    BY <1>1, <2>4, <2>5, NoTaskPass DEF Retrying
  <2> QED BY <2>2, <2>3, <2>6
<1>3. ~overlapped' => ~overlapped /\ \A d \in Pass \ {c} : pc[d] = "idle"
  BY <1>1 DEF Overlaps
<1> QED BY <1>1, <1>2, <1>3, OnePass

LEMMA AskRetryKeepsTurn ==
  ASSUME IntakeTypeOK, IntakeTypeOK', TurnInv, NEW c \in Pass, NEW m \in Mail, AskRetry(c, m)
  PROVE  TurnInv'
<1>1. /\ pc[c] = "idle" /\ pc'[c] = "clear" /\ todo'[c] = {m} /\ m \notin launched
      /\ \A d \in Pass \ {c} : pc'[d] = pc[d]
      /\ overlapped' = (overlapped \/ Overlaps(c))
      /\ UNCHANGED <<row, launched, task, retried>>
  BY DEF AskRetry, RetryBlocked, IntakeTypeOK, rowVars
<1>2. \A x \in Mail : task'[c][x].step = "none"
  BY <1>1, NoTasks
<1>3. PassInv(c)'
  BY <1>1, <1>2, NoTaskPass DEF Retrying
<1>4. ~overlapped' => ~overlapped /\ \A d \in Pass \ {c} : pc[d] = "idle"
  BY <1>1 DEF Overlaps
<1> QED BY <1>1, <1>3, <1>4, BookkeepingKeepsTurn

\* A row that is cleared has not gone to payment.
LEMMA ClearRowKeepsTurn ==
  ASSUME IntakeTypeOK, IntakeTypeOK', TodoInv, TurnInv, NEW c \in Pass, ClearRow(c)
  PROVE  TurnInv'
<1>1. /\ pc[c] = "clear" /\ pc'[c] = "cli" /\ todo'[c] = todo[c] /\ retried' = retried \union todo[c]
      /\ \A d \in Pass \ {c} : pc'[d] = pc[d]
      /\ UNCHANGED <<launched, task, overlapped>>
  BY DEF ClearRow, IntakeTypeOK
<1>2. /\ \A x \in Mail \ todo[c] : row'[x] = row[x]
      /\ \A x \in Mail : x \in todo[c] => ~row'[x].judged
  BY DEF ClearRow, NewRow
<1>3. ASSUME ~overlapped' PROVE LaunchedInv' /\ FirstInv' /\ PassInv(c)'
  <2>1. LaunchedInv /\ PassInv(c)
    BY <1>1, <1>3 DEF TurnInv
  <2>2. PICK m \in Mail \ launched : todo[c] = {m}
    BY <1>1, <2>1 DEF PassInv, Retrying
  <2>3. \A x \in launched : x \in Fingerprints /\ row'[x] = row[x] /\ row[x].decision = "auto_pay"
    <3>1. launched \subseteq Mail
      BY DEF IntakeTypeOK
    <3> QED BY <1>2, <2>1, <2>2, <3>1 DEF LaunchedInv
  <2>4. \A x \in launched : x \in Fingerprints'
    BY <1>1, <2>3 DEF Fingerprints, Stored
  <2>5. LaunchedInv'
    BY <1>1, <2>1, <2>3, <2>4 DEF LaunchedInv
  <2>6. \A x \in Mail : task'[c][x].step = "none"
    BY <1>1, NoTasks
  <2>7. PassInv(c)'
    BY <1>1, <1>2, <2>2, <2>6, NoTaskPass DEF Retrying
  <2>8. FirstInv'
    BY <1>1, <2>2 DEF FirstInv
  <2> QED BY <2>5, <2>7, <2>8
<1> QED BY <1>1, <1>3, OnePass

\* A step on a row that decides nothing.
LEMMA UndecidedKeepsTurn ==
  ASSUME IntakeTypeOK, IntakeTypeOK', TodoInv, TurnInv, NEW c \in Pass, NEW m \in todo[c],
         NEW newRow \in Row, NEW newTask \in Task, StepChange(c, m, newRow, newTask),
         ~Judges(c, m, newRow, newTask),
         UNCHANGED <<pc, todo, seen, history, retried, overlapped>>
  PROVE  TurnInv'
<1>1. m \in Mail /\ pc[c] \in {"in turn", "together", "retry"} /\ todo[c] \subseteq Mail
  BY DEF IntakeTypeOK, StepChange
<1>2. /\ row'[m] = row[m] /\ task'[c][m] = newTask
      /\ newTask.step \in {"send", "take back", "done"}
      /\ task[c][m].step \in {"claim", "send", "take back", "pay"}
      /\ \A x \in Mail \ {m} : row'[x] = row[x] /\ task'[c][x] = task[c][x]
      /\ \/ launched' = launched
         \/ task[c][m].step = "pay" /\ launched' = launched \union {m}
  BY <1>1 DEF StepChange, RowChange, Claims, GivesUp, Sends, TakesBack, Pays, Goes
<1>3. UNCHANGED row
  <2>1. row \in [Mail -> Row \union {None}] /\ row' \in [Mail -> Row \union {None}]
    BY DEF IntakeTypeOK
  <2>2. \A x \in Mail : row'[x] = row[x]
    BY <1>2
  <2> QED BY <2>1, <2>2
<1>4. Fingerprints' = Fingerprints /\ Stored' = Stored
  BY <1>3, RowsStand
<1>5. \A x \in Mail : Resolves(c, x)' = Resolves(c, x)
  BY DEF Resolves, Is
<1>6. ASSUME ~overlapped' PROVE LaunchedInv' /\ FirstInv' /\ PassInv(c)'
  <2>1. LaunchedInv /\ FirstInv /\ PassInv(c)
    BY <1>6 DEF TurnInv
  <2>2. task[c][m].step = "pay" => /\ m \in Fingerprints /\ row[m].decision = "auto_pay"
                                   /\ launched \subseteq {m} /\ pc[c] # "retry" /\ HasTask(c, m)
    BY <1>1, <2>1 DEF PassInv, HasTask
  <2>3. LaunchedInv'
    <3>1. CASE launched' = launched
      BY <1>3, <1>4, <2>1, <3>1 DEF LaunchedInv
    <3>2. CASE task[c][m].step = "pay" /\ launched' = launched \union {m}
      BY <1>3, <1>4, <2>2, <3>2 DEF LaunchedInv
    <3> QED BY <1>2, <3>1, <3>2
  <2>4. FirstInv'
    BY <1>3, <1>4, <2>1 DEF FirstInv
  <2>5. \A x \in Mail : /\ task'[c][x].step # "none" <=> task[c][x].step # "none"
                        /\ task'[c][x].step \in {"none", "judge"} => task'[c][x] = task[c][x]
                        /\ task'[c][x].step = "pay" => task[c][x].step = "pay" /\ x # m
    BY <1>2
  <2>6. \A x \in Mail : HasTask(c, x)' <=> HasTask(c, x)
    BY <1>5, <2>5 DEF HasTask
  <2>7. pc[c] \in Retrying => \E x \in Mail \ launched' : todo[c] = {x}
    <3>1. CASE launched' = launched
      BY <2>1, <3>1 DEF PassInv
    <3>2. CASE task[c][m].step = "pay"
      BY <1>1, <2>2, <3>2 DEF Retrying
    <3> QED BY <1>2, <3>1, <3>2
  <2>8. \A x \in Mail : task'[c][x].step = "pay" =>
          /\ x \in Fingerprints /\ row[x].decision = "auto_pay" /\ launched' \subseteq {x}
          /\ pc[c] # "retry" /\ Resolves(c, x)
    <3> SUFFICES ASSUME NEW x \in Mail, task'[c][x].step = "pay"
                 PROVE  /\ x \in Fingerprints /\ row[x].decision = "auto_pay"
                        /\ launched' \subseteq {x} /\ pc[c] # "retry" /\ Resolves(c, x)
      OBVIOUS
    <3>1. task[c][x].step = "pay" /\ x # m
      BY <2>5
    <3>2. /\ x \in Fingerprints /\ row[x].decision = "auto_pay" /\ launched \subseteq {x}
          /\ pc[c] # "retry" /\ Resolves(c, x) /\ HasTask(c, x)
      BY <2>1, <3>1 DEF PassInv, HasTask
    <3>3. task[c][m].step # "pay"
      <4>1. \A y, z \in Mail : HasTask(c, y) /\ HasTask(c, z) => y = z
        BY <2>1 DEF PassInv
      <4> QED BY <1>1, <2>2, <3>1, <3>2, <4>1
    <3> QED BY <1>2, <3>2, <3>3
  <2>9. /\ pc[c] \in Retrying \ {"clear"} => todo[c] \subseteq retried
        /\ pc[c] \notin {"idle", "batch", "pending", "clear"} =>
             \A x \in todo[c] : task'[c][x].step \in {"none", "judge"} => ~row[x].judged
    BY <1>1, <2>1, <2>5 DEF PassInv
  <2>10. pc[c] = "in turn" =>
           /\ \A x, y \in Mail : task'[c][x].step # "none" /\ task'[c][y].step # "none" => x = y
           /\ (\A x \in Mail : task'[c][x].step = "none") => history[c] = Fingerprints
    BY <2>1, <2>5 DEF PassInv
  <2>11. \A x, y \in Mail : HasTask(c, x)' /\ HasTask(c, y)' => x = y
    <3>1. \A x, y \in Mail : HasTask(c, x) /\ HasTask(c, y) => x = y
      BY <2>1 DEF PassInv
    <3> QED BY <2>6, <3>1
  <2>12. \A x \in Mail : task'[c][x].step = "judge" /\ Resolves(c, x) => history[c] = Fingerprints
    BY <2>1, <2>5 DEF PassInv
  <2>13. PassInv(c)'
    BY <1>3, <1>4, <1>5, <2>7, <2>8, <2>9, <2>10, <2>11, <2>12 DEF PassInv, Retrying
  <2> QED BY <2>3, <2>4, <2>13
<1> QED BY <1>1, <1>6, OnePass

\* A row is decided: the first that resolves is not dropped, and goes to
\* payment only if none has.
LEMMA JudgeKeepsTurn ==
  ASSUME IntakeTypeOK, IntakeTypeOK', TodoInv, TurnInv, NEW c \in Pass, NEW m \in todo[c],
         NEW newRow \in Row, NEW newTask \in Task, StepChange(c, m, newRow, newTask),
         Judges(c, m, newRow, newTask),
         UNCHANGED <<pc, todo, seen, history, retried, overlapped>>
  PROVE  TurnInv'
<1>1. /\ m \in Mail /\ m \in Stored /\ todo[c] \subseteq Mail
      /\ pc[c] \in {"in turn", "together", "retry"} /\ seen[c] \in Book
  BY DEF IntakeTypeOK, TodoInv, StepChange, Loaded
<1>2. /\ row'[m] = newRow /\ row'[m] # None /\ task'[c][m] = newTask
      /\ newTask.step = AfterJudging(c, m) /\ task[c][m].step = "judge"
      /\ newTask.step \in {"claim", "pay", "done"}
      /\ newRow.judged = TRUE /\ newRow.decision = Verdict(c, m) /\ newRow.resolved = Resolves(c, m)
      /\ \A x \in Mail \ {m} : row'[x] = row[x] /\ task'[c][x] = task[c][x]
      /\ launched' = launched
  BY <1>1, VerdictType DEF StepChange, RowChange, Judges
<1>3. Stored' = Stored /\ Stored \subseteq Mail /\ Fingerprints \subseteq Stored
  BY <1>1, <1>2 DEF Stored, Fingerprints
<1>4. \A x \in Mail : Resolves(c, x)' = Resolves(c, x)
  BY DEF Resolves, Is
<1>5. ASSUME ~overlapped' PROVE LaunchedInv' /\ FirstInv' /\ PassInv(c)'
  <2>1. LaunchedInv /\ FirstInv /\ PassInv(c)
    BY <1>5 DEF TurnInv
  <2>2. ~row[m].judged /\ m \notin Fingerprints /\ m \notin launched
    <3>1. ~row[m].judged
      BY <1>1, <1>2, <2>1 DEF PassInv
    <3> QED BY <2>1, <3>1 DEF LaunchedInv, Fingerprints
  <2>3. Fingerprints' = IF Resolves(c, m) THEN Fingerprints \union {m} ELSE Fingerprints
    <3>1. \A x \in Mail : x \in Fingerprints' <=> x \in Fingerprints \/ (x = m /\ Resolves(c, m))
      BY <1>1, <1>2, <1>3, <2>2 DEF Fingerprints
    <3>2. Fingerprints' \subseteq Mail
      BY <1>3 DEF Fingerprints
    <3> QED BY <1>1, <1>3, <3>1, <3>2
  <2>4. Resolves(c, m) => history[c] = Fingerprints
    BY <1>1, <1>2, <2>1 DEF PassInv
  <2>5. LaunchedInv'
    <3>1. \A x \in launched : x \in Fingerprints' /\ row'[x].decision = "auto_pay"
      BY <1>2, <1>3, <2>1, <2>2, <2>3 DEF LaunchedInv
    <3> QED BY <1>2, <2>1, <3>1 DEF LaunchedInv
  <2>6. FirstInv'
    <3> SUFFICES ASSUME retried = {}
                 PROVE  /\ Fingerprints' # {} => \E x \in Fingerprints' : row'[x].decision # "ignore"
                        /\ \A x \in Stored : row'[x].decision = "ignore" => x \in Fingerprints'
      BY <1>3 DEF FirstInv
    <3>1. \A x \in Stored : row'[x].decision = "ignore" => x \in Fingerprints'
      <4>1. Verdict(c, m) = "ignore" => Resolves(c, m)
        BY <1>1, VerdictType
      <4> QED BY <1>2, <1>3, <2>1, <2>3, <4>1 DEF FirstInv
    <3>2. CASE Fingerprints = {}
      <4>1. Resolves(c, m) => row'[m].decision # "ignore"
        BY <1>1, <1>2, <2>4, <3>2, VerdictType
      <4> QED BY <2>3, <3>1, <3>2, <4>1
    <3>3. CASE Fingerprints # {}
      <4>1. PICK x \in Fingerprints : row[x].decision # "ignore"
        BY <2>1, <3>3 DEF FirstInv
      <4>2. x \in Fingerprints' /\ row'[x].decision # "ignore"
        BY <1>2, <1>3, <2>2, <2>3, <4>1
      <4> QED BY <3>1, <4>2
    <3> QED BY <3>2, <3>3
  <2>7. \A x \in Mail : /\ task'[c][x].step # "none" <=> task[c][x].step # "none"
                        /\ task'[c][x].step \in {"none", "judge"} => task'[c][x] = task[c][x] /\ x # m
    BY <1>2
  <2>8. \A x \in Mail : HasTask(c, x)' <=> HasTask(c, x)
    BY <1>4, <2>7 DEF HasTask
  <2>9. \A x, y \in Mail : HasTask(c, x) /\ HasTask(c, y) => x = y
    BY <2>1 DEF PassInv
  <2>10. \A x \in Mail \ {m} : HasTask(c, x) => Fingerprints' = Fingerprints
    BY <1>1, <1>2, <2>3, <2>9 DEF HasTask
  <2>11. \A x \in Mail : task'[c][x].step = "judge" /\ Resolves(c, x) => history[c] = Fingerprints'
    <3> SUFFICES ASSUME NEW x \in Mail, task'[c][x].step = "judge", Resolves(c, x)
                 PROVE  history[c] = Fingerprints'
      OBVIOUS
    <3>1. task[c][x].step = "judge" /\ x # m
      BY <2>7
    <3> QED BY <2>1, <2>10, <3>1 DEF PassInv, HasTask
  <2>12. \A x \in Mail : task'[c][x].step = "pay" =>
          /\ x \in Fingerprints' /\ row'[x].decision = "auto_pay" /\ launched \subseteq {x}
          /\ pc[c] # "retry" /\ Resolves(c, x)
    <3> SUFFICES ASSUME NEW x \in Mail, task'[c][x].step = "pay"
                 PROVE  /\ x \in Fingerprints' /\ row'[x].decision = "auto_pay"
                        /\ launched \subseteq {x} /\ pc[c] # "retry" /\ Resolves(c, x)
      OBVIOUS
    <3>1. CASE x = m
      <4>1. /\ Resolves(c, m) /\ history[c] \subseteq {m} /\ pc[c] # "retry"
            /\ Verdict(c, m) = "auto_pay"
        BY <1>1, <1>2, <3>1, VerdictType
      <4>2. launched \subseteq Fingerprints
        BY <2>1 DEF LaunchedInv
      <4> QED BY <1>2, <2>3, <2>4, <3>1, <4>1, <4>2
    <3>2. CASE x # m
      <4>1. task[c][x].step = "pay"
        BY <1>2, <3>2
      <4>2. /\ x \in Fingerprints /\ row[x].decision = "auto_pay"
            /\ launched \subseteq {x} /\ pc[c] # "retry" /\ Resolves(c, x)
        BY <2>1, <4>1 DEF PassInv
      <4> QED BY <1>2, <2>3, <3>2, <4>2
    <3> QED BY <3>1, <3>2
  <2>13. \A x \in todo[c] : task'[c][x].step \in {"none", "judge"} => ~row'[x].judged
    <3>1. \A x \in todo[c] : task[c][x].step \in {"none", "judge"} => ~row[x].judged
      BY <1>1, <2>1 DEF PassInv
    <3> QED BY <1>1, <1>2, <2>7, <3>1
  <2>14. pc[c] = "in turn" =>
           /\ \A x, y \in Mail : task'[c][x].step # "none" /\ task'[c][y].step # "none" => x = y
           /\ ~(\A x \in Mail : task'[c][x].step = "none")
    <3>1. task'[c][m].step # "none"
      BY <1>2
    <3>2. pc[c] = "in turn" =>
            \A x, y \in Mail : task[c][x].step # "none" /\ task[c][y].step # "none" => x = y
      BY <2>1 DEF PassInv
    <3> QED BY <1>1, <2>7, <3>1, <3>2
  <2>15. /\ pc[c] \in Retrying => \E x \in Mail \ launched : todo[c] = {x}
         /\ pc[c] \in Retrying \ {"clear"} => todo[c] \subseteq retried
    BY <2>1 DEF PassInv
  <2>16. \A x, y \in Mail : HasTask(c, x)' /\ HasTask(c, y)' => x = y
    BY <2>8, <2>9
  <2>17. PassInv(c)'
    BY <1>2, <1>4, <2>11, <2>12, <2>13, <2>14, <2>15, <2>16 DEF PassInv, Retrying
  <2> QED BY <2>5, <2>6, <2>17
<1> QED BY <1>1, <1>5, OnePass

\* What only some of the variables matter to.
LEMMA TurnStands ==
  ASSUME TurnInv, UNCHANGED <<row, launched, pc, todo, seen, history, task, retried, overlapped>>
  PROVE  TurnInv'
<1>1. Fingerprints' = Fingerprints /\ Stored' = Stored
  BY RowsStand
<1>2. (AloneInv => AloneInv') /\ (LaunchedInv => LaunchedInv') /\ (FirstInv => FirstInv')
  BY <1>1 DEF AloneInv, LaunchedInv, FirstInv
<1>3. \A c \in Pass, m \in Mail : (Resolves(c, m) <=> Resolves(c, m)') /\ (HasTask(c, m) <=> HasTask(c, m)')
  BY DEF Resolves, Is, HasTask
<1>4. ASSUME NEW c \in Pass, PassInv(c) PROVE PassInv(c)'
  <2>1. /\ pc[c] \in Retrying => \E m \in Mail \ launched : todo[c] = {m}
        /\ pc[c] \in Retrying \ {"clear"} => todo[c] \subseteq retried
        /\ pc[c] \notin {"idle", "batch", "pending", "clear"} =>
             \A m \in todo[c] : task[c][m].step \in {"none", "judge"} => ~row[m].judged
    BY <1>4 DEF PassInv
  <2>2. /\ pc[c] = "in turn" =>
             /\ \A m, n \in Mail : task[c][m].step # "none" /\ task[c][n].step # "none" => m = n
             /\ (\A m \in Mail : task[c][m].step = "none") => history[c] = Fingerprints
        /\ \A m, n \in Mail : HasTask(c, m) /\ HasTask(c, n) => m = n
    BY <1>4 DEF PassInv
  <2>3. /\ \A m \in Mail : task[c][m].step = "judge" /\ Resolves(c, m) => history[c] = Fingerprints
        /\ \A m \in Mail : task[c][m].step = "pay" =>
             /\ m \in Fingerprints /\ row[m].decision = "auto_pay"
             /\ launched \subseteq {m} /\ pc[c] # "retry" /\ Resolves(c, m)
    BY <1>4 DEF PassInv
  <2> QED BY <1>1, <1>3, <2>1, <2>2, <2>3 DEF PassInv, Retrying
<1> QED BY <1>2, <1>4 DEF TurnInv

LEMMA TurnKept ==
  ASSUME IntakeTypeOK, IntakeTypeOK', TodoInv, TurnInv, [IntakeNext]_intakeVars
  PROVE  TurnInv'
<1>1. CASE UNCHANGED intakeVars \/ PayeesChange
  BY <1>1, TurnStands DEF PayeesChange, intakeVars, rowVars, passVars, logVars
<1>2. ASSUME NEW c \in Pass, StartPass(c) PROVE TurnInv'
  <2>1. PICK batch \in SUBSET Mail : StoreBatch(c, batch)
    BY <1>2, MailboxAssumption DEF StartPass, IntakeTypeOK
  <2> QED BY <2>1, StoreBatchKeepsTurn
<1>3. ASSUME NEW c \in Pass, NEW m \in Mail, AskRetry(c, m) PROVE TurnInv'
  BY <1>3, AskRetryKeepsTurn
<1>4. ASSUME NEW c \in Pass, ClearRow(c) PROVE TurnInv'
  BY <1>4, ClearRowKeepsTurn
<1>5. ASSUME NEW c \in Pass, RowStep(c) PROVE TurnInv'
  <2>1. PICK m \in todo[c] : \/ Judge(c, m) \/ ClaimAlert(c, m) \/ SendAlert(c, m)
                             \/ TakeBackAlert(c, m) \/ Launch(c, m)
    BY <1>5 DEF RowStep
  <2>2. UNCHANGED <<pc, todo, seen, history, retried, overlapped>>
    BY <2>1 DEF Judge, ClaimAlert, SendAlert, TakeBackAlert, Launch, logVars
  <2>3. PICK newRow \in Row, newTask \in Task : StepChange(c, m, newRow, newTask)
    BY <2>1, RowStepChange
  <2> QED BY <2>2, <2>3, UndecidedKeepsTurn, JudgeKeepsTurn
<1>6. ASSUME NEW c \in Pass, FinishPass(c) \/ Die(c) PROVE TurnInv'
  <2>1. Reset(c) /\ pc[c] # "idle" /\ UNCHANGED <<row, launched, retried, overlapped>>
    BY <1>6 DEF FinishPass, Die, rowVars, logVars
  <2> QED BY <2>1, ResetKeepsTurn
<1>7. ASSUME NEW c \in Pass,
             \/ LoadPayees(c) \/ ReadBatch(c) \/ ReadBatchHistory(c) \/ NextRow(c) \/ FinishRow(c)
             \/ ReadPending(c) \/ ReadPendingHistory(c) \/ ReadRetried(c) \/ ReadRetriedHistory(c)
      PROVE  TurnInv'
  BY <1>7, ReadsKeepTurn
<1> QED BY <1>1, <1>2, <1>3, <1>4, <1>5, <1>6, <1>7 DEF IntakeNext, PassStep

---------------------------------------------------------------------------
(* What was reviewed is not paid *)

\* The alerts of a mail are its own.
LEMMA ReviewedStands ==
  ASSUME UNCHANGED <<stamp, retried>>
  PROVE  \A m : Reviewed(m)' <=> Reviewed(m)
  BY DEF Reviewed

\* A step that sets no stamp and clears no row: what is decided stays decided,
\* and a row that is being retried is, or is decided.
LEMMA ReviewStands ==
  ASSUME IntakeTypeOK, TodoInv, ReviewInv, TasksOnlyBegin,
         UNCHANGED <<stamp, launched, retried>>,
         ~overlapped' /\ deaths' = 0 => ~overlapped /\ deaths = 0,
         \A m \in Stored : row[m].judged => m \in Stored' /\ row'[m].judged,
         ~overlapped' /\ deaths' = 0 =>
           \A c \in Pass : \A m \in todo[c] : pc[c] \in Retrying \ {"clear"} =>
             \/ m \in Stored /\ row[m].judged
             \/ pc'[c] \in Retrying \ {"clear"} /\ m \in todo'[c]
  PROVE  ReviewInv'
<1> SUFFICES ASSUME ~overlapped', deaths' = 0
             PROVE  /\ \A m \in Mail : Reviewed(m)' =>
                         \/ m \in Stored' /\ row'[m].judged
                         \/ \E c \in Pass : pc'[c] \in Retrying \ {"clear"} /\ m \in todo'[c]
                    /\ \A m \in launched' : ~Reviewed(m)'
                    /\ \A c \in Pass, m \in Mail :
                         /\ task'[c][m].step = "pay" => ~Reviewed(m)'
                         /\ task'[c][m].step \in AlertStep => m \notin launched'
                         /\ task'[c][m].step \notin {"none", "judge"} => row'[m].judged
  BY DEF ReviewInv, Retrying, AlertStep
<1>1. ~overlapped /\ deaths = 0
  OBVIOUS
<1>2. \A m : Reviewed(m)' <=> Reviewed(m)
  BY ReviewedStands
<1>3. ASSUME NEW m \in Mail, Reviewed(m)'
      PROVE  \/ m \in Stored' /\ row'[m].judged
             \/ \E c \in Pass : pc'[c] \in Retrying \ {"clear"} /\ m \in todo'[c]
  <2>1. \/ m \in Stored /\ row[m].judged
        \/ \E c \in Pass : pc[c] \in Retrying \ {"clear"} /\ m \in todo[c]
    BY <1>1, <1>2, <1>3 DEF ReviewInv
  <2> QED BY <2>1
<1>4. \A m \in launched' : ~Reviewed(m)'
  BY <1>1, <1>2 DEF ReviewInv
<1>5. ASSUME NEW c \in Pass, NEW m \in Mail, task'[c][m].step \notin {"none", "judge"}
      PROVE  /\ task'[c][m].step = "pay" => ~Reviewed(m)'
             /\ task'[c][m].step \in AlertStep => m \notin launched'
             /\ row'[m].judged
  <2>1. task'[c][m] = task[c][m]
    BY <1>5 DEF TasksOnlyBegin
  <2>2. m \in Stored
    BY <1>5, <2>1 DEF IntakeTypeOK, TodoInv
  <2> QED BY <1>1, <1>2, <1>5, <2>1, <2>2 DEF ReviewInv
<1> QED BY <1>3, <1>4, <1>5 DEF AlertStep

\* A row that is cleared has not gone to payment, and no other pass is on it.
LEMMA ClearRowKeepsReview ==
  ASSUME IntakeTypeOK, IntakeTypeOK', TodoInv, TurnInv, ReviewInv, NEW c \in Pass, ClearRow(c)
  PROVE  ReviewInv'
<1>1. /\ pc[c] = "clear" /\ pc'[c] = "cli" /\ todo'[c] = todo[c] /\ retried' = retried \union todo[c]
      /\ \A d \in Pass \ {c} : pc'[d] = pc[d]
      /\ \A x \in Mail \ todo[c] : row'[x] = row[x]
      /\ UNCHANGED <<stamp, launched, task, overlapped, deaths>>
  BY DEF ClearRow, IntakeTypeOK
<1> SUFFICES ASSUME ~overlapped, deaths = 0 PROVE ReviewInv'
  BY <1>1 DEF ReviewInv
<1>2. AloneInv /\ PassInv(c)
  BY DEF TurnInv
<1>3. PICK m \in Mail \ launched : todo[c] = {m}
  BY <1>1, <1>2 DEF PassInv, Retrying
<1>4. \A x \in Mail \ {m} : row'[x] = row[x] /\ (Reviewed(x)' <=> Reviewed(x))
  BY <1>1, <1>3 DEF Reviewed
<1>5. ASSUME NEW x \in Mail, Reviewed(x)'
      PROVE  \/ x \in Stored' /\ row'[x].judged
             \/ \E d \in Pass : pc'[d] \in Retrying \ {"clear"} /\ x \in todo'[d]
  <2>1. CASE x = m
    BY <1>1, <1>3, <2>1 DEF Retrying
  <2>2. CASE x # m
    <3>1. \/ x \in Stored /\ row[x].judged
          \/ \E d \in Pass : pc[d] \in Retrying \ {"clear"} /\ x \in todo[d]
      BY <1>4, <1>5, <2>2 DEF ReviewInv
    <3>2. \A d \in Pass : pc[d] \notin Retrying \ {"clear"}
      BY <1>1, <1>2 DEF AloneInv, Retrying
    <3> QED BY <1>4, <2>2, <3>1, <3>2 DEF Stored
  <2> QED BY <2>1, <2>2
<1>6. \A x \in launched : ~Reviewed(x)'
  <2>1. launched \subseteq Mail \ {m}
    BY <1>3 DEF IntakeTypeOK
  <2> QED BY <1>4, <2>1 DEF ReviewInv
<1>7. \A d \in Pass, x \in Mail : task'[d][x].step = "none"
  <2>1. \A d \in Pass : pc[d] \notin {"in turn", "together", "retry"}
    BY <1>1, <1>2 DEF AloneInv
  <2> QED BY <1>1, <2>1, NoTasks
<1> QED BY <1>1, <1>5, <1>6, <1>7 DEF ReviewInv, AlertStep, Retrying

\* A step on a row: it is decided before it is launched or has its alert.
LEMMA RowStepKeepsReview ==
  ASSUME IntakeTypeOK, IntakeTypeOK', TodoInv, AlertTaskInv, TurnInv, ReviewInv,
         NEW c \in Pass, NEW m \in todo[c],
         NEW newRow \in Row, NEW newTask \in Task, StepChange(c, m, newRow, newTask),
         UNCHANGED <<pc, todo, retried, overlapped, deaths>>
  PROVE  ReviewInv'
<1> SUFFICES ASSUME ~overlapped, deaths = 0 PROVE ReviewInv'
  BY DEF ReviewInv
<1>1. /\ m \in Mail /\ m \in Stored /\ pc[c] \in {"in turn", "together", "retry"}
      /\ seen[c] \in Book
  BY DEF IntakeTypeOK, TodoInv, StepChange, Loaded
<1>2. AloneInv /\ PassInv(c) /\ LaunchedInv
  BY DEF TurnInv
<1>3. /\ row'[m] = newRow /\ row'[m] # None /\ task'[c][m] = newTask
      /\ \A x \in Mail \ {m} : row'[x] = row[x] /\ task'[c][x] = task[c][x]
      /\ \A d \in Pass \ {c}, x \in Mail : task'[d][x] = task[d][x]
  BY <1>1 DEF StepChange, RowChange
<1>4. Stored' = Stored
  BY <1>1, <1>3 DEF Stored
<1>5. \A d \in Pass \ {c}, x \in Mail : task[d][x].step = "none"
  <2>1. \A d \in Pass \ {c} : pc[d] = "idle"
    BY <1>1, <1>2 DEF AloneInv
  <2> QED BY <2>1 DEF IntakeTypeOK
<1>6. /\ newRow.judged
      /\ newTask.step \in AlertStep => m \notin launched'
      /\ newTask.step = "pay" => ~Reviewed(m)'
      /\ m \in launched' => ~Reviewed(m)'
      /\ launched' \in {launched, launched \union {m}}
      /\ \A x \in Mail \ {m} : Reviewed(x)' <=> Reviewed(x)
  <2>1. CASE Judges(c, m, newRow, newTask)
    <3>1. UNCHANGED <<stamp, launched>> /\ newRow.judged /\ task[c][m].step = "judge"
      BY <2>1 DEF Judges
    <3>2. \A x : Reviewed(x)' <=> Reviewed(x)
      BY <3>1, ReviewedStands
    <3>3. ~row[m].judged /\ m \notin launched
      BY <1>1, <1>2, <3>1 DEF PassInv, LaunchedInv, Fingerprints
    <3>4. newTask.step = "pay" => ~Reviewed(m)
      <4>1. newTask.step = "pay" => pc[c] # "retry"
        BY <1>1, <2>1, VerdictType DEF Judges
      <4>2. Reviewed(m) => \E d \in Pass : pc[d] \in Retrying \ {"clear"}
        BY <1>1, <3>3 DEF ReviewInv
      <4>3. Reviewed(m) => pc[c] \in Retrying \ {"clear"}
        BY <1>1, <1>2, <4>2 DEF AloneInv, Retrying
      <4> QED BY <1>1, <4>1, <4>3 DEF Retrying
    <3> QED BY <3>1, <3>2, <3>3, <3>4
  <2>2. CASE ~Judges(c, m, newRow, newTask)
    <3>1. newRow = row[m] /\ task[c][m].step \in {"claim", "send", "take back", "pay"}
      BY <2>2 DEF StepChange, Claims, GivesUp, Sends, TakesBack, Pays, Goes
    <3>2. newRow.judged
      BY <1>1, <3>1 DEF ReviewInv
    <3>3. CASE task[c][m].step = "pay"
      <4>1. /\ launched' \in {launched, launched \union {m}} /\ newTask.step = "done"
            /\ UNCHANGED stamp
        BY <2>2, <3>3 DEF StepChange, Claims, GivesUp, Sends, TakesBack, Pays, Goes
      <4>2. \A x : Reviewed(x)' <=> Reviewed(x)
        BY <4>1, ReviewedStands
      <4>3. ~Reviewed(m)
        BY <1>1, <3>3 DEF ReviewInv
      <4> QED BY <3>2, <4>1, <4>2, <4>3 DEF AlertStep
    <3>4. CASE task[c][m].step \in AlertStep
      <4>1. m \notin launched
        BY <1>1, <3>4 DEF ReviewInv
      <4>2. launched' = launched /\ newTask.step # "pay"
        BY <2>2, <3>4 DEF StepChange, Claims, GivesUp, Sends, TakesBack, Pays, Goes, AlertStep
      <4>3. PICK a \in Alert : a = AlertOf(c, m)
        BY <1>1, <3>4 DEF AlertTaskInv
      <4>4. \/ UNCHANGED stamp
            \/ stamp' = [stamp EXCEPT ![a] = c]
            \/ stamp' = [stamp EXCEPT ![a] = StampAfterFailure(c, m)]
        BY <2>2, <3>4, <4>3
           DEF StepChange, Claims, GivesUp, Sends, TakesBack, Pays, Goes, AlertStep
      <4>5. \A b \in Alert : b[1] # m => stamp'[b] = stamp[b]
        <5>1. a[1] = m
          BY <4>3 DEF AlertOf
        <5>2. stamp \in [Alert -> Pass \union {None}]
          BY DEF IntakeTypeOK
        <5> QED BY <4>4, <5>1, <5>2
      <4>6. \A x \in Mail \ {m} : Reviewed(x)' <=> Reviewed(x)
        BY <4>5 DEF Reviewed
      <4> QED BY <3>2, <4>1, <4>2, <4>6
    <3> QED BY <3>1, <3>3, <3>4 DEF AlertStep
  <2> QED BY <2>1, <2>2
<1>7. ASSUME NEW x \in Mail, Reviewed(x)'
      PROVE  \/ x \in Stored' /\ row'[x].judged
             \/ \E d \in Pass : pc'[d] \in Retrying \ {"clear"} /\ x \in todo'[d]
  <2>1. CASE x = m
    BY <1>1, <1>3, <1>4, <1>6, <2>1
  <2>2. CASE x # m
    <3>1. \/ x \in Stored /\ row[x].judged
          \/ \E d \in Pass : pc[d] \in Retrying \ {"clear"} /\ x \in todo[d]
      BY <1>6, <1>7, <2>2 DEF ReviewInv
    <3> QED BY <1>3, <1>4, <2>2, <3>1
  <2> QED BY <2>1, <2>2
<1>8. \A x \in launched' : ~Reviewed(x)'
  <2>1. launched \subseteq Mail
    BY DEF IntakeTypeOK
  <2> QED BY <1>1, <1>6, <2>1 DEF ReviewInv
<1>9. ASSUME NEW d \in Pass, NEW x \in Mail, task'[d][x].step \notin {"none", "judge"}
      PROVE  /\ task'[d][x].step = "pay" => ~Reviewed(x)'
             /\ task'[d][x].step \in AlertStep => x \notin launched'
             /\ row'[x].judged
  <2>1. d = c
    BY <1>3, <1>5, <1>9
  <2>2. CASE x = m
    BY <1>3, <1>6, <2>1, <2>2
  <2>3. CASE x # m
    <3>1. task'[c][x] = task[c][x] /\ row'[x] = row[x]
      BY <1>3, <2>3
    <3> QED BY <1>6, <1>9, <2>1, <2>3, <3>1 DEF ReviewInv
  <2> QED BY <2>2, <2>3
<1> QED BY <1>7, <1>8, <1>9 DEF ReviewInv, AlertStep, Retrying

LEMMA ReviewKept ==
  ASSUME IntakeTypeOK, IntakeTypeOK', TodoInv, AlertTaskInv, TurnInv, ReviewInv,
         [IntakeNext]_intakeVars
  PROVE  ReviewInv'
<1>1. ASSUME NEW c \in Pass, NEW m \in todo[c],
             \/ Judge(c, m) \/ ClaimAlert(c, m) \/ SendAlert(c, m) \/ TakeBackAlert(c, m) \/ Launch(c, m)
      PROVE  ReviewInv'
  <2>1. PICK newRow \in Row, newTask \in Task : StepChange(c, m, newRow, newTask)
    BY <1>1, RowStepChange
  <2>2. UNCHANGED <<pc, todo, retried, overlapped, deaths>>
    BY <1>1 DEF Judge, ClaimAlert, SendAlert, TakeBackAlert, Launch, logVars
  <2> QED BY <2>1, <2>2, RowStepKeepsReview
<1>2. CASE IsBookkeeping
  <2>0. UNCHANGED <<stamp, launched>> /\ TasksOnlyBegin
    BY <1>2, Bookkeeping
  <2>1. ASSUME UNCHANGED <<row, pc, todo, retried, overlapped, deaths>> PROVE ReviewInv'
    <3>1. Stored' = Stored
      BY <2>1, RowsStand
    <3> QED BY <2>0, <2>1, <3>1, ReviewStands
  <2>2. CASE UNCHANGED intakeVars \/ PayeesChange
    BY <2>1, <2>2 DEF PayeesChange, intakeVars, rowVars, passVars, logVars
  <2>3. ASSUME NEW c \in Pass, StartPass(c) PROVE ReviewInv'
    <3>1. PICK batch \in SUBSET Mail : StoreBatch(c, batch)
      BY <2>3, MailboxAssumption DEF StartPass, IntakeTypeOK
    <3>2. /\ pc[c] = "idle" /\ \A d \in Pass \ {c} : pc'[d] = pc[d] /\ todo'[d] = todo[d]
          /\ overlapped' = (overlapped \/ Overlaps(c)) /\ UNCHANGED <<retried, deaths>>
          /\ Stored \subseteq Stored' /\ \A m \in Stored : row'[m] = row[m]
      BY <3>1, StoreBatchRows
    <3>3. \A d \in Pass : pc[d] \in Retrying => d # c
      BY <3>2 DEF Retrying
    <3> QED BY <2>0, <3>2, <3>3, ReviewStands
  <2>4. ASSUME NEW c \in Pass, UNCHANGED <<row, retried, deaths>>, ~overlapped' => ~overlapped,
               \A d \in Pass \ {c} : pc'[d] = pc[d] /\ todo'[d] = todo[d],
               ~overlapped' /\ deaths' = 0 /\ pc[c] \in Retrying \ {"clear"} =>
                 \A m \in todo[c] : \/ m \in Stored /\ row[m].judged
                                    \/ pc'[c] \in Retrying \ {"clear"} /\ m \in todo'[c]
        PROVE  ReviewInv'
    <3>1. Stored' = Stored
      BY <2>4, RowsStand
    <3> QED BY <2>0, <2>4, <3>1, ReviewStands
  <2>5. ASSUME NEW c \in Pass, NEW m \in Mail, AskRetry(c, m) PROVE ReviewInv'
    <3>1. /\ pc[c] = "idle" /\ \A d \in Pass \ {c} : pc'[d] = pc[d] /\ todo'[d] = todo[d]
          /\ UNCHANGED <<row, retried, deaths>> /\ (~overlapped' => ~overlapped)
      BY <2>5 DEF AskRetry, rowVars, IntakeTypeOK
    <3> QED BY <2>4, <3>1 DEF Retrying
  <2>6. ASSUME NEW c \in Pass,
               \/ ReadBatch(c) \/ ReadBatchHistory(c) \/ NextRow(c) \/ FinishRow(c)
               \/ ReadPending(c) \/ ReadPendingHistory(c)
        PROVE  ReviewInv'
    <3>1. /\ UNCHANGED <<row, retried, deaths>> /\ (~overlapped' => ~overlapped)
          /\ pc[c] \in {"batch", "batch history", "in turn", "pending", "pending history"}
      <4>1. CASE ReadPendingHistory(c)
        BY <4>1 DEF ReadPendingHistory, rowVars
      <4>2. CASE ~ReadPendingHistory(c)
        <5>1. UNCHANGED <<row, retried, deaths, overlapped>>
          BY <2>6, <4>2 DEF ReadBatch, ReadBatchHistory, NextRow, FinishRow, ReadPending,
                            rowVars, logVars
        <5>2. pc[c] \in {"batch", "batch history", "in turn", "pending"}
          BY <2>6, <4>2 DEF ReadBatch, ReadBatchHistory, NextRow, FinishRow, ReadPending
        <5> QED BY <5>1, <5>2
      <4> QED BY <4>1, <4>2
    <3>2. \A d \in Pass \ {c} : pc'[d] = pc[d] /\ todo'[d] = todo[d]
      <4>1. CASE FinishRow(c)
        <5>1. PICK m \in todo[c] :
                /\ todo' = [todo EXCEPT ![c] = @ \ {m}]
                /\ pc' = [pc EXCEPT ![c] = IF todo[c] = {m} THEN "pending" ELSE "in turn"]
          BY <4>1 DEF FinishRow
        <5> QED BY <5>1 DEF IntakeTypeOK
      <4>2. CASE ~FinishRow(c)
        BY <2>6, <4>2 DEF ReadBatch, ReadBatchHistory, NextRow, ReadPending,
                          ReadPendingHistory, IntakeTypeOK
      <4> QED BY <4>1, <4>2
    <3> QED BY <2>4, <3>1, <3>2 DEF Retrying
  <2>7. ASSUME NEW c \in Pass, LoadPayees(c) \/ ReadRetriedHistory(c) PROVE ReviewInv'
    <3>1. /\ UNCHANGED <<row, retried, deaths, overlapped, todo>>
          /\ pc[c] \in Retrying => pc'[c] \in Retrying \ {"clear"}
          /\ \A d \in Pass \ {c} : pc'[d] = pc[d]
      BY <2>7 DEF LoadPayees, ReadRetriedHistory, rowVars, logVars, IntakeTypeOK, Retrying
    <3> QED BY <2>4, <3>1
  <2>8. ASSUME NEW c \in Pass, FinishPass(c) PROVE ReviewInv'
    <3>1. /\ UNCHANGED <<row, retried, deaths, overlapped>> /\ Reset(c)
          /\ \A m \in todo[c] : task[c][m].step = "done"
      BY <2>8 DEF FinishPass, rowVars, logVars
    <3>2. \A d \in Pass \ {c} : pc'[d] = pc[d] /\ todo'[d] = todo[d]
      <4>1. Reset(c)
        BY <3>1
      <4> QED BY <4>1, ResetType
    <3>3. ~overlapped /\ deaths = 0 => \A m \in todo[c] : m \in Stored /\ row[m].judged
      BY <3>1 DEF ReviewInv, TodoInv, Stored
    <3> QED BY <2>4, <3>1, <3>2, <3>3
  <2>9. ASSUME NEW c \in Pass, ReadRetried(c) PROVE ReviewInv'
    <3>1. UNCHANGED <<row, retried, deaths, overlapped>> /\ pc[c] = "cli"
      BY <2>9 DEF ReadRetried, rowVars, logVars
    <3>2. ~overlapped => \E m \in Mail \ launched : todo[c] = {m}
      BY <3>1 DEF TurnInv, PassInv, Retrying
    <3>3. \A d \in Pass \ {c} : pc'[d] = pc[d] /\ todo'[d] = todo[d]
      <4>1. CASE Reset(c)
        BY <4>1, ResetType
      <4>2. CASE ~Reset(c)
        BY <2>9, <4>2 DEF ReadRetried, IntakeTypeOK
      <4> QED BY <4>1, <4>2
    <3>4. ~overlapped => pc'[c] = "cli payees" /\ todo'[c] = todo[c]
      BY <2>9, <3>2 DEF ReadRetried, RetryBlocked, IntakeTypeOK
    <3> QED BY <2>4, <3>1, <3>3, <3>4 DEF Retrying
  <2>10. ASSUME NEW c \in Pass, Die(c) PROVE ReviewInv'
    <3>1. deaths \in 0..MaxDeaths /\ deaths' = deaths + 1
      BY <2>10 DEF Die, IntakeTypeOK
    <3>2. deaths' # 0
      BY <3>1, PassAssumption
    <3> QED BY <3>2 DEF ReviewInv
  <2> QED BY <1>2, <2>2, <2>3, <2>5, <2>6, <2>7, <2>8, <2>9, <2>10, ClearRowKeepsReview
          DEF IsBookkeeping, PassStep
<1> QED BY <1>1, <1>2, StepKinds

---------------------------------------------------------------------------
(* The theorems *)

LEMMA IntakeInitially == IntakeInit => IntakeInv
<1> SUFFICES ASSUME IntakeInit PROVE IntakeInv
  OBVIOUS
<1>1. /\ book \in Book /\ row = [m \in Mail |-> None]
      /\ stamp = [a \in Alert |-> None] /\ copy = [a \in Alert |-> "none"]
      /\ launched = {} /\ pc = [c \in Pass |-> "idle"] /\ todo = [c \in Pass |-> {}]
      /\ seen = [c \in Pass |-> None] /\ history = [c \in Pass |-> {}]
      /\ stamped = [c \in Pass |-> {}]
      /\ task = [c \in Pass |-> [m \in Mail |-> NoTask]]
      /\ overlapped = FALSE /\ retried = {} /\ abandoned = {} /\ deaths = 0
  BY DEF IntakeInit
<1>2. NoTask \in Task /\ NoTask.step = "none" /\ Stored = {} /\ 0 \in 0..MaxDeaths
  BY <1>1, PassAssumption DEF NoTask, Task, Step, Stored
<1>3. \A c \in Pass, m \in Mail : task[c][m].step = "none"
  BY <1>1, <1>2
<1>4. IntakeTypeOK
  BY <1>1, <1>2 DEF IntakeTypeOK, PassAt, Loaded, Copy
<1>5. TodoInv /\ AlertTaskInv
  BY <1>1, <1>3 DEF TodoInv, AlertTaskInv, AlertStep
<1>6. AlertInv
  <2>1. \A a \in Alert : copy[a] = "none" /\ stamp[a] = None
    BY <1>1
  <2>2. \A c \in Pass, m \in Mail : ~Sending(c, m)
    BY <1>3 DEF Sending
  <2> QED BY <2>1, <2>2 DEF AlertInv, StampBacked
<1>7. TurnInv
  <2>1. Fingerprints = {}
    BY <1>2 DEF Fingerprints
  <2>2. AloneInv /\ LaunchedInv /\ FirstInv
    BY <1>1, <1>2, <2>1 DEF AloneInv, LaunchedInv, FirstInv
  <2>3. \A c \in Pass : PassInv(c)
    BY <1>1, <1>4, IdlePass
  <2> QED BY <2>2, <2>3 DEF TurnInv
<1>8. ReviewInv
  <2>1. \A m \in Mail : ~Reviewed(m)
    BY <1>1 DEF Reviewed
  <2> QED BY <1>1, <1>3, <2>1 DEF ReviewInv, AlertStep
<1> QED BY <1>4, <1>5, <1>6, <1>7, <1>8 DEF IntakeInv

\* The invariant of the module.
THEOREM IntakeInductive == IntakeSpec => []IntakeInv
<1>1. IntakeInit => IntakeInv
  BY IntakeInitially
<1>2. IntakeInv /\ [IntakeNext]_intakeVars => IntakeInv'
  BY IntakeTypesHold, AlertTasksKept, AlertsKept, TurnKept, ReviewKept DEF IntakeInv
<1> QED BY <1>1, <1>2, PTL DEF IntakeSpec

\* Every reachable state is well typed, and only rows that a pass has read are
\* worked on (processEmailRow).
THEOREM IntakeTypes == IntakeSpec => []IntakeTypeOK
<1>1. IntakeInv => IntakeTypeOK
  BY DEF IntakeInv
<1> QED BY <1>1, IntakeInductive, PTL

\* The stamp of an alert tells the truth, however passes overlap and die: the
\* alert was accepted, is on its way, or its pass died (notifyForDecision).
THEOREM StampsTellTheTruth == IntakeSpec => []StampBacked
<1>1. IntakeInv => StampBacked
  BY DEF IntakeInv, AlertInv
<1> QED BY <1>1, IntakeInductive, PTL

\* The same invoice is launched once, while passes come one at a time.
THEOREM InvoiceLaunchedOnce == IntakeSpec => []PaidOnceInTurn
<1>1. IntakeInv => PaidOnceInTurn
  <2> SUFFICES ASSUME IntakeInv, ~overlapped PROVE Cardinality(launched) <= 1
    BY DEF PaidOnceInTurn
  <2>1. \A m, n \in launched : m = n
    BY DEF IntakeInv, TurnInv, LaunchedInv
  <2>2. CASE launched = {}
    BY <2>2, FS_EmptySet
  <2>3. CASE launched # {}
    <3>1. PICK m \in launched : TRUE
      BY <2>3
    <3>2. launched = {m}
      BY <2>1, <3>1
    <3> QED BY <3>2, FS_Singleton
  <2> QED BY <2>2, <2>3
<1> QED BY <1>1, IntakeInductive, PTL

\* Of the mails of an invoice one stays, while passes come one at a time and
\* no row is retried (processLevel1's duplicates).
THEOREM OneMailStays == IntakeSpec => []OneStays
<1>1. IntakeInv => OneStays
  BY DEF IntakeInv, TurnInv, FirstInv, OneStays
<1> QED BY <1>1, IntakeInductive, PTL

\* A mail that the owner was alerted of, or has had decided again, does not go
\* to payment, whatever the payees say by then, while passes come one at a time
\* and do not die (retryLevel1Processing, processEmailRow).
THEOREM ReviewedStaysUnpaid == IntakeSpec => []ReviewedNotPaid
<1>1. IntakeInv => ReviewedNotPaid
  <2> SUFFICES ASSUME IntakeInv, ~overlapped, deaths = 0, NEW m \in launched
               PROVE  /\ m \notin retried
                      /\ \A a \in Alert : a[1] = m => stamp[a] = None /\ copy[a] = "none"
    BY DEF ReviewedNotPaid
  <2>1. ~Reviewed(m)
    BY DEF IntakeInv, ReviewInv
  <2>2. m \notin retried /\ \A a \in Alert : a[1] = m => stamp[a] = None
    BY <2>1 DEF Reviewed
  <2>3. \A a \in Alert : stamp[a] = None => copy[a] = "none"
    BY DEF IntakeInv, AlertInv
  <2> QED BY <2>2, <2>3
<1> QED BY <1>1, IntakeInductive, PTL

---------------------------------------------------------------------------
(* The alerts are an outbox *)

alertBox == [a \in Alert |-> BoxOf(a)]

LEMMA AlertStepRefines == IntakeInv /\ [IntakeNext]_intakeVars => [Alerts!OutboxNext]_alertBox
<1> SUFFICES ASSUME IntakeInv, [IntakeNext]_intakeVars
             PROVE  [Alerts!OutboxNext]_alertBox
  OBVIOUS
<1>1. /\ IntakeTypeOK /\ TodoInv /\ AlertTaskInv /\ AlertInv
      /\ stamp \in [Alert -> Pass \union {None}] /\ copy \in [Alert -> Copy]
  BY DEF IntakeInv, IntakeTypeOK
<1>2. ASSUME UNCHANGED <<stamp, copy>> PROVE UNCHANGED alertBox
  BY <1>2 DEF alertBox, BoxOf
<1>3. CASE IsBookkeeping
  <2>1. UNCHANGED <<stamp, copy>>
    BY <1>1, <1>3, Bookkeeping
  <2> QED BY <1>2, <2>1
<1>4. ASSUME NEW a \in Alert, NEW value,
             \A b \in Alert \ {a} : stamp'[b] = stamp[b] /\ copy'[b] = copy[b],
             alertBox'[a] = value
      PROVE  alertBox' = [alertBox EXCEPT ![a] = value]
  <2>1. /\ DOMAIN alertBox = Alert /\ alertBox = [b \in Alert |-> alertBox[b]]
        /\ DOMAIN alertBox' = Alert /\ alertBox' = [b \in Alert |-> alertBox'[b]]
    BY DEF alertBox
  <2>2. \A b \in Alert \ {a} : alertBox'[b] = alertBox[b]
    <3>1. \A b \in Alert : /\ alertBox[b] = BoxOf(b) /\ alertBox'[b] = BoxOf(b)'
      BY DEF alertBox
    <3>2. \A b \in Alert \ {a} : BoxOf(b)' = BoxOf(b)
      BY <1>4 DEF BoxOf
    <3> QED BY <3>1, <3>2
  <2>3. \A b \in Alert : alertBox'[b] = [alertBox EXCEPT ![a] = value][b]
    BY <1>4, <2>1, <2>2
  <2>4. [alertBox EXCEPT ![a] = value] = [b \in Alert |-> [alertBox EXCEPT ![a] = value][b]]
    BY <2>1
  <2> QED BY <2>1, <2>3, <2>4
<1>5. ASSUME NEW c \in Pass, NEW m \in todo[c],
             \/ Judge(c, m) \/ ClaimAlert(c, m) \/ SendAlert(c, m) \/ TakeBackAlert(c, m) \/ Launch(c, m)
      PROVE  [Alerts!OutboxNext]_alertBox
  <2>1. m \in Mail
    BY <1>1 DEF IntakeTypeOK
  <2>2. PICK newRow \in Row, newTask \in Task : StepChange(c, m, newRow, newTask)
    BY <1>1, <1>5, RowStepChange
  <2>3. CASE \/ Judges(c, m, newRow, newTask) \/ GivesUp(c, m, newTask) \/ Pays(c, m, newTask)
    BY <1>2, <2>3 DEF Judges, GivesUp, Pays
  <2>4. CASE Claims(c, m, newTask)
    <3>1. PICK a \in Alert : a = AlertOf(c, m)
      BY <1>1, <2>1, <2>4 DEF Claims, Goes, AlertTaskInv, AlertStep
    <3>2. /\ stamp[a] = None /\ copy[a] = "none" /\ stamp'[a] = c /\ copy'[a] = "none" /\ c # None
          /\ \A b \in Alert \ {a} : stamp'[b] = stamp[b] /\ copy'[b] = copy[b]
      BY <1>1, <2>4, <3>1, PassAssumption DEF Claims, AlertInv
    <3>3. alertBox[a] = "due" /\ alertBox'[a] = "claimed"
      BY <3>2 DEF alertBox, BoxOf
    <3>4. Alerts!Claim(a)
      <4>1. alertBox' = [alertBox EXCEPT ![a] = "claimed"]
        BY <1>4, <3>2, <3>3
      <4> QED BY <3>3, <4>1 DEF Alerts!Claim, alertBox
    <3> QED BY <3>4 DEF Alerts!OutboxNext
  <2>5. ASSUME Sending(c, m)
        PROVE  \E a \in Alert : /\ a = AlertOf(c, m) /\ stamp[a] = c /\ c # None
                                /\ copy[a] \in {"none", "lost"}
                                /\ task[c][m].step = "send" => copy[a] = "none"
    <3>1. AlertOf(c, m) \in Alert
      BY <1>1, <2>1, <2>5 DEF Sending, AlertTaskInv, AlertStep
    <3>2. /\ stamp[AlertOf(c, m)] = c /\ c # None /\ copy[AlertOf(c, m)] \notin {"known", "twice"}
          /\ task[c][m].step = "send" => copy[AlertOf(c, m)] = "none"
      BY <1>1, <2>1, <2>5, <3>1, PassAssumption DEF AlertInv
    <3> QED BY <1>1, <3>1, <3>2 DEF Copy
  <2>6. CASE Sends(c, m, newTask)
    <3>1. task[c][m].step = "send" /\ Sending(c, m)
      BY <2>6 DEF Sends, Goes, Sending
    <3>2. PICK a \in Alert : a = AlertOf(c, m) /\ stamp[a] = c /\ c # None /\ copy[a] = "none"
      BY <2>5, <3>1
    <3>3. /\ stamp' = stamp
          /\ copy' = [copy EXCEPT ![a] = "known"] \/ copy' = [copy EXCEPT ![a] = "lost"]
      BY <2>6, <3>2 DEF Sends, Delivered
    <3>4. /\ \A b \in Alert \ {a} : stamp'[b] = stamp[b] /\ copy'[b] = copy[b]
          /\ stamp'[a] = c /\ copy'[a] \in {"known", "lost"}
      BY <1>1, <3>2, <3>3
    <3>5. alertBox[a] = "claimed" /\ alertBox'[a] = IF copy'[a] = "known" THEN "sent" ELSE "unsure"
      BY <3>2, <3>4 DEF alertBox, BoxOf
    <3>6. Alerts!Sent(a) \/ Alerts!Lose(a)
      <4>1. alertBox' = [alertBox EXCEPT ![a] = IF copy'[a] = "known" THEN "sent" ELSE "unsure"]
        BY <1>4, <3>4, <3>5
      <4> QED BY <3>5, <4>1 DEF Alerts!Sent, Alerts!Lose, alertBox
    <3> QED BY <3>6 DEF Alerts!OutboxNext
  <2>7. CASE TakesBack(c, m, newTask)
    <3>1. Sending(c, m)
      BY <2>7 DEF TakesBack, Goes, Sending
    <3>2. PICK a \in Alert : /\ a = AlertOf(c, m) /\ stamp[a] = c /\ c # None
                             /\ copy[a] \in {"none", "lost"}
      BY <2>5, <3>1
    <3>3. stamp' = [stamp EXCEPT ![a] = None] /\ copy' = [copy EXCEPT ![a] = "none"]
      BY <2>7, <3>2 DEF TakesBack, StampAfterFailure
    <3>4. /\ \A b \in Alert \ {a} : stamp'[b] = stamp[b] /\ copy'[b] = copy[b]
          /\ stamp'[a] = None /\ copy'[a] = "none"
      BY <1>1, <3>3
    <3>5. alertBox[a] \in {"claimed", "unsure"} /\ alertBox'[a] = "due"
      BY <3>2, <3>4 DEF alertBox, BoxOf
    <3>6. Alerts!TakeBack(a)
      <4>1. alertBox' = [alertBox EXCEPT ![a] = "due"]
        BY <1>4, <3>4, <3>5
      <4> QED BY <3>5, <4>1 DEF Alerts!TakeBack, alertBox
    <3> QED BY <3>6 DEF Alerts!OutboxNext
  <2> QED BY <2>2, <2>3, <2>4, <2>6, <2>7 DEF StepChange
<1> QED BY <1>3, <1>5, StepKinds

\* A copy of an alert goes out only after a claim of its own, and none after
\* one that is known to be accepted, however passes overlap, fail and die; after
\* one whose answer was lost it may (notifyForDecision).
THEOREM AlertsAreAnOutbox == IntakeSpec => AlertsOnce
<1>1. IntakeInit => Alerts!OutboxInit
  BY DEF IntakeInit, Alerts!OutboxInit, BoxOf
<1>2. IntakeInv /\ [IntakeNext]_intakeVars =>
        [Alerts!OutboxNext]_([a \in Alert |-> BoxOf(a)])
  BY AlertStepRefines DEF alertBox
<1> QED BY <1>1, <1>2, IntakeInductive, PTL DEF IntakeSpec, AlertsOnce, Alerts!OutboxSpec
=============================================================================
